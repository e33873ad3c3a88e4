------------------------------ MODULE SliceMem ------------------------------
(***************************************************************************)
(* The byte slices Seal and Open are given and return.  A slice is a       *)
(* window on an array that the caller may also reach through other slices; *)
(* a call reads its arguments when it needs them, between TPM commands     *)
(* that take milliseconds, and writes its result wherever there is room:   *)
(* behind dst, and behind the nonce.  Calls of several goroutines that     *)
(* share arrays are interleaved read by read and write by write.  A cell   *)
(* of an array stands for some bytes; what the TPM computes is a term.     *)
(***************************************************************************)
EXTENDS Integers, Sequences, Functions

CONSTANTS
  Client,             \* goroutines
  nonceSize, tagSize, \* in cells
  Arrays,             \* the callers' arrays: a sequence of sequences of cells
  Request,            \* the calls they may make on them
  MaxCalls            \* so many calls are made, at most

VARIABLES
  mem,                \* the arrays there are, and what is in them
  calls,              \* the calls made so far
  cur,                \* cur[c]: index of the running call of c, or 0
  todo,               \* todo[c]: the steps it still has to take
  work                \* work[c]: its local variables

vars == <<mem, calls, cur, todo, work>>

ASSUME SizeAssumption == {nonceSize, tagSize, MaxCalls} \subseteq Nat \ {0}

-----------------------------------------------------------------------------
(* Slices. *)

Argument == {"dst", "nonce", "text", "aad"}
Slice == [arr : Nat \ {0}, off : Nat, len : Nat, cap : Nat]
Nil == [arr |-> 1, off |-> 0, len |-> 0, cap |-> 0]
Window(s) == {<<s.arr, s.off + i>> : i \in 1..s.len}
Content(m, s) == [i \in 1..s.len |-> m[s.arr][s.off + i]]

\* s is a slice of an array in m.
Within(m, s) == s \in Slice /\ s.arr \in DOMAIN m /\ s.len <= s.cap /\ s.off + s.cap <= Len(m[s.arr])

IsSeq(s) == s \in Seq(Range(s))

ASSUME ArraysAssumption == Arrays # <<>> /\ IsSeq(Arrays) /\ \A a \in DOMAIN Arrays : IsSeq(Arrays[a])
ASSUME RequestAssumption ==
  \A r \in Request : r.op \in {"Seal", "Open"} /\ \A a \in Argument : Within(Arrays, r[a])

Upto(s, k) == [s EXCEPT !.len = k]                                      \* s[:k]
From(s, k) == [s EXCEPT !.off = @ + k, !.len = @ - k, !.cap = @ - k]    \* s[k:]

\* copy(s, data)
Stored(m, s, data) ==
  [m EXCEPT ![s.arr] = [j \in DOMAIN @ |->
     IF j - s.off \in (1..s.len) \intersect DOMAIN data THEN data[j - s.off] ELSE @[j]]]

\* n more cells fit into the array behind s.
Fits(s, n) == s.cap - s.len >= n
Behind(s, n) == From(Upto(s, s.len + n), s.len)

Zero == [byte |-> "0"]

\* Mutant: the cells of dst are not copied to the new array.
extendSliceWithoutCopy(m, dst, n) ==
  IF Fits(dst, n)
    THEN [mem |-> m, ret |-> Upto(dst, dst.len + n)]
    ELSE [mem |-> Append(m, [i \in 1..(dst.len + n) |-> Zero]),
          ret |-> [arr |-> Len(m) + 1, off |-> 0, len |-> dst.len + n, cap |-> dst.len + n]]

\* Mutant: dst is extended in place although its array ends before.
extendSliceShort(m, dst, n) ==
  IF Fits(dst, n - 1)
    THEN [mem |-> m, ret |-> Upto(dst, dst.len + n)]
    ELSE [mem |-> Append(m, Content(m, dst) \o [i \in 1..n |-> Zero]),
          ret |-> [arr |-> Len(m) + 1, off |-> 0, len |-> dst.len + n, cap |-> dst.len + n]]

\* Mutant: the newest array is taken again if it is large enough.
extendSliceScratch(m, dst, n) ==
  LET fresh == Content(m, dst) \o [i \in 1..n |-> Zero]
      last == Len(m)
      Ret(arr) == [arr |-> arr, off |-> 0, len |-> dst.len + n, cap |-> dst.len + n]
  IN IF Fits(dst, n) THEN [mem |-> m, ret |-> Upto(dst, dst.len + n)]
     ELSE IF last > Len(Arrays) /\ Len(m[last]) >= dst.len + n
            THEN [mem |-> Stored(m, Ret(last), fresh), ret |-> Ret(last)]
            ELSE [mem |-> Append(m, fresh), ret |-> Ret(last + 1)]

\* dst with n more cells: in place if they fit, in a new array otherwise.
extendSlice(m, dst, n) ==
  IF Fits(dst, n)
    THEN [mem |-> m, ret |-> Upto(dst, dst.len + n)]
    ELSE [mem |-> Append(m, Content(m, dst) \o [i \in 1..n |-> Zero]),
          ret |-> [arr |-> Len(m) + 1, off |-> 0, len |-> dst.len + n, cap |-> dst.len + n]]

\* append(s, data...); a new array gets no spare room here.
Appended(m, s, data) ==
  LET e == extendSlice(m, s, Len(data))
  IN [mem |-> Stored(e.mem, From(e.ret, s.len), data), ret |-> e.ret]

-----------------------------------------------------------------------------
(* What the TPM computes. *)

\* A cell of CTR output; decrypting is the same operation.
Crypt(iv, i, cell) ==
  IF "iv" \in DOMAIN cell /\ cell.iv = iv /\ cell.pos = i
    THEN cell.text ELSE [iv |-> iv, pos |-> i, text |-> cell]

MacInput(nonce, aad, ct) == [nonce |-> nonce, aad |-> aad, ct |-> ct]
Tag(mac) == [i \in 1..tagSize |-> [mac |-> mac, part |-> i]]

-----------------------------------------------------------------------------
(* Calls. *)

\* The text a call encrypts or decrypts: Open's input ends with the tag.
Body(r) == IF r.op = "Seal" THEN r.text ELSE Upto(r.text, r.text.len - tagSize)
ExpectedTag(r) == From(r.text, r.text.len - tagSize)
Room(r) == IF r.op = "Seal" THEN r.text.len + tagSize ELSE r.text.len - tagSize

\* Mutant: Open makes room and takes the IV first, and compares tags last.
StepsUnverified(r) ==
  LET pieces == [i \in 1..Body(r).len |-> "Crypt"]
  IN IF r.op = "Seal"
       THEN <<"Extend", "TakeIV">> \o pieces \o <<"CopyText", "BuildMAC", "CopyTag", "Return">>
       ELSE <<"Extend", "TakeIV">> \o pieces \o <<"CopyText", "BuildMAC", "Verify", "Return">>

\* The reads and writes of a call in their order.
Steps(r) ==
  LET pieces == [i \in 1..Body(r).len |-> "Crypt"]
  IN IF r.op = "Seal"
       THEN <<"Extend", "TakeIV">> \o pieces \o <<"CopyText", "BuildMAC", "CopyTag", "Return">>
       ELSE <<"BuildMAC", "Verify", "Extend", "TakeIV">> \o pieces \o <<"CopyText", "Return">>

LengthsOK(r) == r.nonce.len = nonceSize /\ (r.op = "Open" => r.text.len >= tagSize)

NoWork == [ret |-> Nil, iv |-> <<>>, out |-> <<>>, mac |-> MacInput(<<>>, <<>>, <<>>)]

CallFields == {"req", "arrays", "with", "res", "value", "state", "given"}

Sealed == {n \in DOMAIN calls : calls[n].req.op = "Seal" /\ calls[n].state = "ok"}

\* What a Seal returned, split as the README does, is opened into a new array
\* or in place.
OpenRequest ==
  UNION {LET nonce == Upto(calls[n].res, nonceSize)
             text == From(calls[n].res, nonceSize)
         IN {[op |-> "Open", dst |-> dst, nonce |-> nonce, text |-> text, aad |-> calls[n].req.aad] :
               dst \in {Nil, Upto(text, 0)}} : n \in Sealed}

Running == {cur[c] : c \in Client} \ {0}

\* "given" is what the arguments held when the call was made, "arrays" how many
\* arrays there were, and "with" the calls that ran at the same time.
Start(c, r) ==
  LET n == Len(calls) + 1
  IN /\ cur[c] = 0 /\ n <= MaxCalls
     /\ calls' = Append(
          [k \in DOMAIN calls |->
             IF k \in Running THEN [calls[k] EXCEPT !.with = @ \union {n}] ELSE calls[k]],
          [req |-> r, arrays |-> Len(mem), with |-> Running, res |-> Nil, value |-> <<>>,
           state |-> IF LengthsOK(r) THEN "running" ELSE "failed",
           given |-> [a \in Argument |-> Content(mem, r[a])]])
     /\ IF LengthsOK(r)
          THEN /\ cur' = [cur EXCEPT ![c] = n]
               /\ todo' = [todo EXCEPT ![c] = Steps(r)]
          ELSE UNCHANGED <<cur, todo>>
     /\ UNCHANGED <<mem, work>>

Call(c) == \E r \in Request \union OpenRequest : Start(c, r)

Req(c) == calls[cur[c]].req
AtStep(c, step) == cur[c] # 0 /\ Head(todo[c]) = step

Proceed(c) ==
  /\ todo' = [todo EXCEPT ![c] = Tail(@)]
  /\ UNCHANGED <<calls, cur>>

Finish(c, state, res, value) ==
  /\ calls' = [calls EXCEPT ![cur[c]].state = state, ![cur[c]].res = res, ![cur[c]].value = value]
  /\ cur' = [cur EXCEPT ![c] = 0]
  /\ todo' = [todo EXCEPT ![c] = <<>>]
  /\ work' = [work EXCEPT ![c] = NoWork]

Extend(c) ==
  LET e == extendSlice(mem, Req(c).dst, Room(Req(c)))
  IN /\ AtStep(c, "Extend") /\ Proceed(c)
     /\ mem' = e.mem
     /\ work' = [work EXCEPT ![c].ret = e.ret]

TakeIV(c) ==
  /\ AtStep(c, "TakeIV") /\ Proceed(c)
  /\ work' = [work EXCEPT ![c].iv = Content(mem, Req(c).nonce)]
  /\ UNCHANGED mem

\* Mutant: what has come back is not gathered but put in its place at once.
CryptPieceInPlace(c) ==
  LET i == Len(work[c].out) + 1
      out == Append(work[c].out, Crypt(work[c].iv, i, Content(mem, Body(Req(c)))[i]))
  IN /\ AtStep(c, "Crypt") /\ Proceed(c)
     /\ work' = [work EXCEPT ![c].out = out]
     /\ mem' = Stored(mem, From(work[c].ret, Req(c).dst.len), out)

\* A piece of the text goes through the TPM; what comes back stays local.
CryptPiece(c) ==
  LET i == Len(work[c].out) + 1
  IN /\ AtStep(c, "Crypt") /\ Proceed(c)
     /\ work' = [work EXCEPT ![c].out = Append(@, Crypt(work[c].iv, i, Content(mem, Body(Req(c)))[i]))]
     /\ UNCHANGED mem

CopyText(c) ==
  /\ AtStep(c, "CopyText") /\ Proceed(c)
  /\ mem' = Stored(mem, From(work[c].ret, Req(c).dst.len), work[c].out)
  /\ UNCHANGED work

\* Seal authenticates the ciphertext it finds in its output.
BuildMAC(c) ==
  LET r == Req(c)
      ct == IF r.op = "Seal" THEN Upto(From(work[c].ret, r.dst.len), r.text.len) ELSE Body(r)
  IN /\ AtStep(c, "BuildMAC") /\ Proceed(c)
     /\ work' = [work EXCEPT ![c].mac =
                   MacInput(Content(mem, r.nonce), Content(mem, r.aad), Content(mem, ct))]
     /\ UNCHANGED mem

CopyTag(c) ==
  /\ AtStep(c, "CopyTag") /\ Proceed(c)
  /\ mem' = Stored(mem, From(work[c].ret, Req(c).dst.len + Req(c).text.len), Tag(work[c].mac))
  /\ UNCHANGED work

\* Mutant: the mismatch is noted but the call goes on.
VerifyWithoutReturn(c) ==
  /\ AtStep(c, "Verify")
  /\ todo' = [todo EXCEPT ![c] = Tail(@)]
  /\ calls' = IF Content(mem, ExpectedTag(Req(c))) = Tag(work[c].mac)
                THEN calls ELSE [calls EXCEPT ![cur[c]].state = "failed"]
  /\ UNCHANGED <<mem, cur, work>>

Verify(c) ==
  /\ AtStep(c, "Verify")
  /\ IF Content(mem, ExpectedTag(Req(c))) = Tag(work[c].mac)
       THEN Proceed(c) /\ UNCHANGED work
       ELSE Finish(c, "failed", Nil, <<>>)
  /\ UNCHANGED mem

\* return append(nonce, ret...)
ReturnSealed(c) ==
  /\ AtStep(c, "Return") /\ Req(c).op = "Seal"
  /\ LET e == Appended(mem, Req(c).nonce, Content(mem, work[c].ret))
     IN mem' = e.mem /\ Finish(c, "ok", e.ret, Content(e.mem, e.ret))

ReturnOpened(c) ==
  /\ AtStep(c, "Return") /\ Req(c).op = "Open"
  /\ Finish(c, "ok", work[c].ret, Content(mem, work[c].ret))
  /\ UNCHANGED mem

\* A TPM command before the next step fails; the caller recovers from the
\* panic if it is Seal's.
MayFail(c) ==
  \/ Head(todo[c]) \in {"Crypt", "BuildMAC", "CopyTag", "Verify"}
  \/ Req(c).op = "Seal" /\ Head(todo[c]) \in {"Extend", "TakeIV"}
  \/ Req(c).op = "Open" /\ Head(todo[c]) = "CopyText" /\ Body(Req(c)).len = 0

Fault(c) ==
  /\ cur[c] # 0 /\ MayFail(c)
  /\ Finish(c, "fault", Nil, <<>>)
  /\ UNCHANGED mem

-----------------------------------------------------------------------------

Init ==
  /\ mem = Arrays
  /\ calls = <<>>
  /\ cur = [c \in Client |-> 0]
  /\ todo = [c \in Client |-> <<>>]
  /\ work = [c \in Client |-> NoWork]

Next ==
  \E c \in Client :
    \/ Call(c) \/ Extend(c) \/ TakeIV(c) \/ CryptPiece(c) \/ CopyText(c)
    \/ BuildMAC(c) \/ CopyTag(c) \/ Verify(c) \/ ReturnSealed(c) \/ ReturnOpened(c)
    \/ Fault(c)

Spec == Init /\ [][Next]_vars

-----------------------------------------------------------------------------
(* Properties.  The first definitions state the contract between a call and *)
(* its caller.                                                              *)

\* The cells a call may write, if the caller can reach them otherwise: room
\* behind dst, and behind the nonce, where there is enough of it.
OutputFootprint(r) == IF Fits(r.dst, Room(r)) THEN Window(Behind(r.dst, Room(r))) ELSE {}
ResultFootprint(r) ==
  LET n == r.dst.len + Room(r)
  IN IF r.op = "Seal" /\ Fits(r.nonce, n) THEN Window(Behind(r.nonce, n)) ELSE {}
Footprint(r) == OutputFootprint(r) \union ResultFootprint(r)

Reads(r) == UNION {Window(r[a]) : a \in Argument}

\* The caller kept the contract: no call running at the same time may write
\* what call n reads or writes, and Seal's output is not put over its nonce or
\* additional data.  It may be put over the text, wherever it starts.
Undisturbed(n) ==
  LET r == calls[n].req
  IN /\ \A k \in calls[n].with : Footprint(calls[k].req) \intersect (Reads(r) \union Footprint(r)) = {}
     /\ r.op = "Seal" => OutputFootprint(r) \intersect (Window(r.nonce) \union Window(r.aad)) = {}

Encrypted(g) == [i \in DOMAIN g.text |-> Crypt(g.nonce, i, g.text[i])]

\* An Open's arguments, as they were given, carry the right tag.
GivenBody(g) == SubSeq(g.text, 1, Len(g.text) - tagSize)
GivenTag(g) == SubSeq(g.text, Len(g.text) - tagSize + 1, Len(g.text))
Authentic(g) ==
  /\ Len(g.nonce) = nonceSize /\ Len(g.text) >= tagSize
  /\ GivenTag(g) = Tag(MacInput(g.nonce, g.aad, GivenBody(g)))

\* Types of the state.
TypeOK ==
  /\ IsSeq(mem) /\ \A a \in DOMAIN mem : IsSeq(mem[a])
  /\ IsSeq(calls) /\ \A n \in DOMAIN calls : DOMAIN calls[n] = CallFields
  /\ cur \in [Client -> 0..Len(calls)]
  /\ DOMAIN todo = Client /\ DOMAIN work = Client
  /\ \A c \in Client :
       /\ IsSeq(todo[c]) /\ (cur[c] # 0 <=> todo[c] # <<>>)
       /\ DOMAIN work[c] = DOMAIN NoWork /\ work[c].ret \in Slice /\ IsSeq(work[c].out)

\* Seal returns nonce, dst, ciphertext and tag of the arguments it was given,
\* whatever slices share arrays, as long as the contract is kept: it reads the
\* nonce three times and the text over several commands, while writing.
SealedFromArguments ==
  \A n \in DOMAIN calls :
    calls[n].req.op = "Seal" /\ calls[n].state = "ok" /\ Undisturbed(n) =>
      LET g == calls[n].given
      IN calls[n].value = g.nonce \o g.dst \o Encrypted(g)
                            \o Tag(MacInput(g.nonce, g.aad, Encrypted(g)))

\* Open, which reads the ciphertext once to authenticate it and again to
\* decrypt it, returns dst and the text of an input that was authentic when
\* given, and refuses only what was not.
OpenedFromArguments ==
  \A n \in DOMAIN calls :
    calls[n].req.op = "Open" /\ Undisturbed(n) =>
      LET g == calls[n].given
      IN /\ calls[n].state = "ok" =>
              /\ Authentic(g)
              /\ calls[n].value = g.dst \o [i \in DOMAIN GivenBody(g) |-> Crypt(g.nonce, i, g.text[i])]
         /\ calls[n].state = "failed" => ~Authentic(g)

\* A result stays what it is until a call made later or at the same time has
\* been given room in it: what append(nonce, ret...) does to neighbours.
ResultsKept ==
  \A n \in DOMAIN calls : calls[n].state = "ok" =>
    \/ Content(mem, calls[n].res) = calls[n].value
    \/ \E k \in calls[n].with \union (n + 1)..Len(calls) :
         Footprint(calls[k].req) \intersect Window(calls[n].res) # {}

\* A step changes a cell that was there only in the footprint of the call that
\* takes it, or in an array that call made itself.
WritesInFootprint ==
  [][\A a \in DOMAIN mem : \A i \in DOMAIN mem[a] : mem'[a][i] # mem[a][i] =>
       \E c \in Client :
         /\ cur[c] # 0 /\ todo'[c] # todo[c]
         /\ \/ <<a, i>> \in Footprint(Req(c))
            \/ a = work[c].ret.arr /\ a > calls[cur[c]].arrays]_vars

\* Open touches memory only for an input that was authentic when given, so a
\* refused one leaves everything behind dst as it was.
OpenWritesAuthentic ==
  [][\A c \in Client :
       cur[c] # 0 /\ Req(c).op = "Open" /\ todo'[c] # todo[c] /\ mem' # mem /\ Undisturbed(cur[c]) =>
         Authentic(calls[cur[c]].given)]_vars

-----------------------------------------------------------------------------
(* The inductive invariant: where each call is, what it has got, and which  *)
(* cells it alone can reach.                                                *)

Ahead(c, step) == \E i \in 1..Len(todo[c]) : todo[c][i] = step

\* The arrays of the callers stay, and what calls were given is in arrays
\* there were; what they return, in those there are.
CallOK(n) ==
  LET k == calls[n]
  IN /\ k.req.op \in {"Seal", "Open"} /\ k.state \in {"running", "ok", "failed", "fault"}
     /\ k.arrays \in Len(Arrays)..Len(mem) /\ k.with \subseteq DOMAIN calls
     /\ \A a \in Argument : Within(mem, k.req[a]) /\ k.req[a].arr <= k.arrays
     /\ \A a \in Argument : IsSeq(k.given[a]) /\ Len(k.given[a]) = k.req[a].len
     /\ k.state # "failed" => LengthsOK(k.req)
     /\ Within(mem, k.res) /\ (k.req.op = "Seal" /\ k.state = "ok" => k.res.len >= nonceSize)

CallsOK ==
  /\ \A a \in DOMAIN Arrays : a \in DOMAIN mem /\ Len(mem[a]) = Len(Arrays[a])
  /\ \A n \in DOMAIN calls : CallOK(n) /\ (calls[n].state = "running" <=> n \in Running)

\* Of two calls at least one of which runs, the one that was made first knows
\* that the other one came.
TogetherOK ==
  /\ \A c, d \in Client : cur[c] = cur[d] => c = d \/ cur[c] = 0
  /\ \A k \in Running, n \in DOMAIN calls : n # k /\ (k < n \/ n \in Running) => k \in calls[n].with

EndOf(s, t) == \E k \in 1..Len(t) : s = SubSeq(t, k, Len(t))
ProgramOK(c) == cur[c] # 0 => EndOf(todo[c], Steps(Req(c)))

\* The output is dst extended in place, or an array of its own.
Owns(c) == cur[c] # 0 /\ work[c].ret.arr > calls[cur[c]].arrays

RetOK(c) ==
  LET r == Req(c)
      ret == work[c].ret
      n == r.dst.len + Room(r)
  IN IF cur[c] = 0 THEN work[c] = NoWork
     ELSE IF Ahead(c, "Extend") THEN ret = Nil
     ELSE IF Fits(r.dst, Room(r)) THEN ret = Upto(r.dst, n)
     ELSE Owns(c) /\ Within(mem, ret) /\ ret.off = 0 /\ ret.len = n /\ ret.cap = n

OwnOK(c) ==
  Owns(c) =>
    /\ \A n \in DOMAIN calls :
         work[c].ret.arr \notin {calls[n].res.arr} \union {calls[n].req[a].arr : a \in Argument}
    /\ \A d \in Client : d # c => work[d].ret.arr # work[c].ret.arr

\* So many steps follow the last piece.
After(r) == IF r.op = "Seal" THEN 4 ELSE 2
PiecesOK(c) ==
  cur[c] # 0 =>
    Len(work[c].out) =
      IF Ahead(c, "TakeIV") THEN 0
      ELSE IF Ahead(c, "CopyText") THEN Body(Req(c)).len + After(Req(c)) - Len(todo[c])
      ELSE Body(Req(c)).len

PlacesInv ==
  /\ TypeOK /\ CallsOK /\ TogetherOK
  /\ \A c \in Client : ProgramOK(c) /\ RetOK(c) /\ OwnOK(c) /\ PiecesOK(c)

\* What a call that nobody disturbs reads and computes is what it was given
\* and what follows from that.
Given(c) == calls[cur[c]].given
Translated(c) == [i \in 1..Body(Req(c)).len |-> Crypt(Given(c).nonce, i, Given(c).text[i])]

ArgumentsHold(c) ==
  \A a \in Argument :
    Ahead(c, "CopyText") \/ (Req(c).op = "Seal" /\ a \in {"nonce", "aad"}) =>
      Content(mem, Req(c)[a]) = Given(c)[a]

LocalsOK(c) ==
  LET g == Given(c)
      seal == Req(c).op = "Seal"
  IN /\ ~Ahead(c, "TakeIV") => work[c].iv = g.nonce
     /\ \A i \in 1..Len(work[c].out) : work[c].out[i] = Translated(c)[i]
     /\ ~Ahead(c, "BuildMAC") =>
          work[c].mac = MacInput(g.nonce, g.aad, IF seal THEN Translated(c) ELSE GivenBody(g))
     /\ ~seal /\ ~Ahead(c, "Verify") => Authentic(g)

OutputOK(c) ==
  LET dst == Req(c).dst
      n == Body(Req(c)).len
      ret == work[c].ret
  IN /\ ~Ahead(c, "Extend") => Content(mem, Upto(ret, dst.len)) = Given(c).dst
     /\ ~Ahead(c, "CopyText") => Content(mem, Upto(From(ret, dst.len), n)) = Translated(c)
     /\ Req(c).op = "Seal" /\ ~Ahead(c, "CopyTag") =>
          Content(mem, From(ret, dst.len + n)) = Tag(work[c].mac)

DataOK(c) ==
  cur[c] # 0 /\ Undisturbed(cur[c]) => ArgumentsHold(c) /\ LocalsOK(c) /\ OutputOK(c)

IInv ==
  /\ PlacesInv /\ \A c \in Client : DataOK(c)
  /\ SealedFromArguments /\ OpenedFromArguments /\ ResultsKept
=============================================================================
