----------------------------- MODULE MCSliceMem -----------------------------
(* Callers' arrays with one cell for a nonce, a tag and the additional data *)
(* and up to two for a text, and calls on every combination of slices.      *)
EXTENDS SliceMem, TLC

CONSTANTS g1, g2

Clients == {g1, g2}
Symmetry == Permutations(Clients)

b(v) == [byte |-> v]

nonceGiven == <<b("n")>>
aadGiven == <<b("a")>>
ctGiven == <<Crypt(nonceGiven, 1, b("p"))>>

\* Array 2 is a packet: nonce, text and room for the rest; array 3 a pool of
\* nonces; array 4 an output buffer; array 5 holds things by themselves; array
\* 6 a sealed message, and array 7 one whose tag is wrong.
CallerArrays ==
  << <<>>,
     <<b("n"), b("p"), b("q"), Zero, Zero>>,
     <<b("n1"), b("n2"), Zero, Zero, Zero, Zero>>,
     <<b("d"), Zero, Zero, Zero, Zero>>,
     <<b("n"), b("a"), b("p")>>,
     nonceGiven \o ctGiven \o Tag(MacInput(nonceGiven, aadGiven, ctGiven)),
     nonceGiven \o ctGiven \o <<b("t")>> >>

S(arr, off, len, cap) == [arr |-> arr, off |-> off, len |-> len, cap |-> cap]

\* The nonce of a packet has room behind it, as any slice of a larger one;
\* one that was made for the purpose has none.
ownNonce == S(5, 0, 1, 1)
packetNonce == S(2, 0, 1, 5)
pool1 == S(3, 0, 1, 6)
pool2 == S(3, 1, 1, 5)
ownText == S(5, 2, 1, 1)
packetText == S(2, 1, 2, 4)
ownAAD == S(5, 1, 1, 1)
bufferAAD == S(4, 2, 1, 1)
buffer == S(4, 0, 1, 5)
tightBuffer == S(4, 0, 1, 2)

Seal(dst, nonce, text, aad) ==
  [op |-> "Seal", dst |-> dst, nonce |-> nonce, text |-> text, aad |-> aad]
Open(dst, nonce, text, aad) ==
  [op |-> "Open", dst |-> dst, nonce |-> nonce, text |-> text, aad |-> aad]

Nonces == {ownNonce, packetNonce, pool1, pool2}
Seals ==
  {Seal(dst, nonce, text, aad) :
     dst \in {Nil, buffer}, nonce \in Nonces, text \in {ownText, packetText},
     aad \in {ownAAD, bufferAAD}}
  \union {Seal(Upto(text, 0), nonce, text, ownAAD) : nonce \in Nonces, text \in {ownText, packetText}}
  \union {Seal(S(2, 2, 0, 3), packetNonce, packetText, ownAAD), \* one cell into the text
          Seal(Nil, ownNonce, Nil, Nil), Seal(tightBuffer, ownNonce, ownText, ownAAD)}
Opens ==
  {Open(dst, S(m, 0, 1, 3), S(m, 1, 2, 2), ownAAD) :
     dst \in {Nil, buffer}, m \in {6, 7}}
  \union {Open(S(6, 1, 0, 2), S(6, 0, 1, 3), S(6, 1, 2, 2), ownAAD),
          Open(S(7, 1, 0, 2), S(7, 0, 1, 3), S(7, 1, 2, 2), ownAAD),
          Open(S(4, 0, 1, 1), S(6, 0, 1, 3), S(6, 1, 2, 2), ownAAD),
          Open(Nil, S(6, 0, 1, 3), Nil, ownAAD),      \* too short
          Open(Nil, packetNonce, S(2, 1, 2, 4), ownAAD)}
Requests == Seals \union Opens
=============================================================================
