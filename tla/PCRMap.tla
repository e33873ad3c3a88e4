------------------------------- MODULE PCRMap -------------------------------
(***************************************************************************)
(* GetPCRMap reads "index:value" entries into a map and hashes the values  *)
(* as it goes.  Its caller makes of the map the selection, and of the hash *)
(* the digest, of a PCR session: NewKey's trial session binds a key to     *)
(* both without looking at a PCR, and every later session is compared with *)
(* the PCRs there are then.  A hash does not show where one value ends and *)
(* the next begins, and GetPCRMap takes values of any length: a digest is  *)
(* the string of bytes that went into it.                                  *)
(***************************************************************************)
EXTENDS Naturals, Sequences, FiniteSets

CONSTANTS
  Index,          \* PCRs of the bank
  Byte,
  Size,           \* bytes of a PCR
  Value,          \* what a PCR may hold
  Algorithm,      \* hash algorithms callers ask for
  Input           \* inputs: sequences of entries

VARIABLES
  algo, input,    \* arguments of GetPCRMap
  rest,           \* entries still to be read
  pcrMap, hashed, \* the map so far, and the bytes that went into the hash
  result,         \* how GetPCRMap went
  key,            \* policy of the key bound to its results, if one was
  bank,           \* what the PCRs hold
  used            \* how the last attempt to use the key went

vars == <<algo, input, rest, pcrMap, hashed, result, key, bank, used>>

\* An entry with an index and a value of any length, or one that does not parse:
\* other than two parts, or an index or a value that is not a number.
Malformed == {[bad |-> "parts"], [bad |-> "index"], [bad |-> "value"]}
Entry == [index : Index, value : Seq(Byte)] \union Malformed

ASSUME IndexAssumption == Index \subseteq Nat
ASSUME ValueAssumption == Size \in Nat \ {0} /\ Value \subseteq [1..Size -> Byte]
ASSUME InputAssumption == Input \subseteq Seq(Entry)

Supported == {"SHA1", "SHA256", "SHA384"}
NoDigest == [alg |-> "none", bytes |-> <<>>]
NoKey == [sel |-> {}, digest |-> NoDigest]

\* Mutant: SHA-384 PCRs are hashed with a hash of their own size.
HashOfBank(a) == a

\* The hash a bank's values are put into.
HashOf(a) == IF a = "SHA1" THEN "SHA1" ELSE "SHA256"

Empty == input = <<>>
Digest == IF Empty THEN NoDigest ELSE [alg |-> HashOf(algo), bytes |-> hashed]

Init ==
  /\ algo \in Algorithm /\ input \in Input
  /\ rest = input /\ pcrMap = <<>> /\ hashed = <<>>
  /\ result = "none" /\ key = NoKey /\ used = "none"
  /\ bank \in [Index -> Value]

unread == <<algo, input, key, bank, used>>

\* An unknown algorithm is an error, except with an empty input.
RefuseAlgorithm ==
  /\ result = "none" /\ ~Empty /\ algo \notin Supported
  /\ result' = "error"
  /\ UNCHANGED <<unread, rest, pcrMap, hashed>>

Reading == result = "none" /\ rest # <<>> /\ algo \in Supported

\* Mutant: the value of an index that is there already is not hashed.
ReadEntryHashingOnce ==
  /\ Reading /\ Head(rest) \notin Malformed
  /\ LET e == Head(rest)
     IN /\ pcrMap' = [i \in DOMAIN pcrMap \union {e.index} |->
                        IF i = e.index THEN e.value ELSE pcrMap[i]]
        /\ hashed' = IF e.index \in DOMAIN pcrMap THEN hashed ELSE hashed \o e.value
  /\ rest' = Tail(rest)
  /\ UNCHANGED <<unread, result>>

ReadEntry ==
  /\ Reading /\ Head(rest) \notin Malformed
  /\ LET e == Head(rest)
     IN /\ pcrMap' = [i \in DOMAIN pcrMap \union {e.index} |->
                        IF i = e.index THEN e.value ELSE pcrMap[i]]
        /\ hashed' = hashed \o e.value
  /\ rest' = Tail(rest)
  /\ UNCHANGED <<unread, result>>

\* Mutant: such an entry is skipped.
SkipEntry ==
  /\ Reading /\ Head(rest) \in Malformed
  /\ rest' = Tail(rest)
  /\ UNCHANGED <<unread, pcrMap, hashed, result>>

RefuseEntry ==
  /\ Reading /\ Head(rest) \in Malformed
  /\ result' = "error"
  /\ UNCHANGED <<unread, rest, pcrMap, hashed>>

Return ==
  /\ result = "none" /\ rest = <<>> /\ (Empty \/ algo \in Supported)
  /\ result' = "ok"
  /\ UNCHANGED <<unread, rest, pcrMap, hashed>>

-----------------------------------------------------------------------------
(* The sessions made of the results, all of them SHA-256 sessions.         *)

Selection == DOMAIN pcrMap

\* The TPM hashes the selected PCRs, one behind the other in the order of their
\* indexes, with the session's algorithm.
InOrder(sel) ==
  CHOOSE s \in [1..Cardinality(sel) -> sel] : \A i, j \in DOMAIN s : i < j => s[i] < s[j]
PCRBytes(sel) ==
  LET s == InOrder(sel)
  IN [m \in 1..(Cardinality(sel) * Size) |-> bank[s[((m - 1) \div Size) + 1]][((m - 1) % Size) + 1]]
CurrentDigest(sel) == [alg |-> "SHA256", bytes |-> PCRBytes(sel)]

\* PolicyPCR with a digest takes it on trust in a trial session; without one
\* it takes the PCRs as they are.
Asserted(sel, digest) ==
  [sel |-> sel, digest |-> IF digest = NoDigest THEN CurrentDigest(sel) ELSE digest]

\* Mutant: the error of GetPCRMap is ignored.
GetTrialSessionUnchecked ==
  /\ result # "none" /\ key = NoKey
  /\ key' = Asserted(Selection, Digest)
  /\ UNCHANGED <<algo, input, rest, pcrMap, hashed, result, bank, used>>

GetTrialSession ==
  /\ result = "ok" /\ key = NoKey
  /\ key' = Asserted(Selection, Digest)
  /\ UNCHANGED <<algo, input, rest, pcrMap, hashed, result, bank, used>>

\* A real session is refused by PolicyPCR, or does not meet the key's policy.
GetSession ==
  /\ key # NoKey
  /\ used' = IF Digest \in {NoDigest, CurrentDigest(Selection)} /\ Asserted(Selection, Digest) = key
               THEN "accepted" ELSE "refused"
  /\ UNCHANGED <<algo, input, rest, pcrMap, hashed, result, key, bank>>

ExtendPCR ==
  /\ \E i \in Index, v \in Value : bank' = [bank EXCEPT ![i] = v]
  /\ result # "error"
  /\ used' = "none"
  /\ UNCHANGED <<algo, input, rest, pcrMap, hashed, result, key>>

Next ==
  \/ RefuseAlgorithm \/ ReadEntry \/ RefuseEntry \/ Return
  \/ GetTrialSession \/ GetSession \/ ExtendPCR

Spec == Init /\ [][Next]_vars

-----------------------------------------------------------------------------
(* Properties. *)

\* Types of the state.
TypeOK ==
  /\ algo \in Algorithm /\ input \in Input
  /\ rest \in Seq(Entry) /\ hashed \in Seq(Byte)
  /\ DOMAIN pcrMap \subseteq Index /\ \A i \in DOMAIN pcrMap : pcrMap[i] \in Seq(Byte)
  /\ result \in {"none", "ok", "error"} /\ used \in {"none", "accepted", "refused"}
  /\ bank \in [Index -> Value]

WellFormed == \A n \in DOMAIN input : input[n] \notin Malformed
Increasing == WellFormed /\ \A m, n \in DOMAIN input : m < n => input[m].index < input[n].index

\* Every value is as long as a PCR, which GetPCRMap does not look at.
Sized(k) == \A n \in 1..k : Len(input[n].value) = Size

\* The PCRs hold what the caller wrote.
BankMatches == \A n \in DOMAIN input : bank[input[n].index] = input[n].value

\* "set comma separated in increasing index order": then a key bound to a
\* SHA-256 or SHA-384 map of values as long as PCRs is usable exactly while
\* every PCR named in it holds the value given, though the values are hashed by
\* two parties, one in the order of the input and one in the order of the
\* indexes.  With values of other lengths it is usable at least then.
BoundToNamedPCRs ==
  key # NoKey /\ Increasing /\ algo # "SHA1" =>
    /\ used = "accepted" /\ Sized(Len(input)) => BankMatches
    /\ used = "refused" => ~BankMatches

\* The first k values of the input, one behind the other, are the bytes w.
Spell(k, w) ==
  \E cut \in [0..k -> 0..Len(w)] :
    /\ cut[0] = 0 /\ cut[k] = Len(w)
    /\ \A n \in 1..k :
         /\ cut[n] = cut[n - 1] + Len(input[n].value)
         /\ \A j \in 1..Len(input[n].value) : w[cut[n - 1] + j] = input[n].value[j]

\* Whatever the order and the lengths, the PCRs of a key that is usable hold,
\* one behind the other, all the values given, as often as they are given and
\* in their order.  If the values are as long as PCRs, no index is given twice,
\* and the PCRs hold each of the values, perhaps one PCR the value of another.
UsableMeansAllHashed ==
  used = "accepted" =>
    /\ Spell(Len(input), PCRBytes(Selection))
    /\ Sized(Len(input)) =>
         /\ Cardinality(Selection) = Len(input)
         /\ \A v \in Value : Cardinality({i \in Selection : bank[i] = v})
                               = Cardinality({n \in DOMAIN input : input[n].value = v})

\* No key is bound to part of an input: an entry that does not parse, wherever
\* it is, means an error, and the map holds the last value of every index.
NothingPartial ==
  result = "ok" =>
    /\ WellFormed
    /\ Selection = {input[n].index : n \in DOMAIN input}
    /\ \A n \in DOMAIN input :
         (\A m \in DOMAIN input : m > n => input[m].index # input[n].index) =>
            pcrMap[input[n].index] = input[n].value

\* "parses the pcr string array for the PCRs to bind to", for every algorithm
\* it supports.
EveryAlgorithmBinds ==
  key # NoKey /\ Increasing /\ used = "refused" => ~BankMatches

-----------------------------------------------------------------------------
(* The inductive invariant. *)

\* Entries read so far.
Read == Len(input) - Len(rest)

\* Map and hash are those of the entries read.
ReadOK ==
  /\ Read \in Nat /\ \A i \in 1..Len(rest) : rest[i] = input[Read + i]
  /\ \A n \in 1..Read : input[n] \notin Malformed
  /\ Spell(Read, hashed)
  /\ Sized(Read) =>
       /\ Len(hashed) = Read * Size
       /\ \A n \in 1..Read, j \in 1..Size : hashed[(n - 1) * Size + j] = input[n].value[j]
  /\ Selection = {input[n].index : n \in 1..Read}
  /\ \A n \in 1..Read :
       (\A m \in 1..Read : m > n => input[m].index # input[n].index) =>
         pcrMap[input[n].index] = input[n].value
  /\ result = "ok" => rest = <<>> /\ (Empty \/ algo \in Supported)

\* The key is bound to the whole map, or to no PCR if the map is empty.
KeyOK ==
  key # NoKey =>
    /\ result = "ok"
    /\ key = [sel |-> Selection,
              digest |-> IF Empty THEN [alg |-> "SHA256", bytes |-> <<>>] ELSE Digest]

\* Its last use went as it would go now.
UsedOK ==
  used # "none" =>
    /\ key # NoKey
    /\ used = "accepted" <=> Empty \/ Digest = CurrentDigest(Selection)

IInv == TypeOK /\ ReadOK /\ KeyOK /\ UsedOK
=============================================================================
