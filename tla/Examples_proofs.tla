-------------------------- MODULE Examples_proofs --------------------------
(***************************************************************************)
(* Proofs about the example programs: what a file may hold, what a program *)
(* prints, and that newkey, encrypt and decrypt in a row work.             *)
(***************************************************************************)
EXTENDS Examples, SequenceTheorems, TLAPS

-----------------------------------------------------------------------------
(* The programs. *)

\* Two lists of steps in a row, element by element.
LEMMA InARowOf ==
  ASSUME NEW s \in Seq(StepName), NEW t \in Seq(StepName), NEW u \in Seq(StepName),
         Len(u) = Len(s) + Len(t),
         \A i \in 1..Len(s) : u[i] = s[i], \A i \in 1..Len(t) : u[Len(s) + i] = t[i]
  PROVE  s \o t = u
<1>1. s \o t \in Seq(StepName) /\ Len(s \o t) = Len(s) + Len(t)
  OBVIOUS
<1>2. ASSUME NEW i \in 1..Len(u) PROVE (s \o t)[i] = u[i]
  <2>1. CASE i <= Len(s)
    <3>1. (s \o t)[i] = s[i]
      BY <2>1
    <3> QED BY <2>1, <3>1
  <2>2. CASE i > Len(s)
    <3>1. (s \o t)[i] = t[i - Len(s)]
      BY <2>2
    <3>2. i - Len(s) \in 1..Len(t) /\ Len(s) + (i - Len(s)) = i
      BY <2>2
    <3>3. u[Len(s) + (i - Len(s))] = t[i - Len(s)]
      BY <3>2
    <3> QED BY <3>1, <3>2, <3>3
  <2> QED BY <2>1, <2>2
<1> QED BY <1>1, <1>2, SeqEqual

\* The lists of steps, written out.
LEMMA Lists ==
  /\ newkey = <<"NewKey", "Truncate", "Write">>
  /\ WithPCRs(newkey) = <<"GetPCRMap", "NewKey", "Truncate", "Write">>
  /\ encrypt = <<"ReadKeys", "NewAESCTRHMAC", "Seal", "Truncate", "Write">>
  /\ WithPCRs(encrypt) = <<"GetPCRMap", "ReadKeys", "NewAESCTRHMAC", "Seal", "Truncate", "Write">>
  /\ WithPCRs(encrypt) \o <<"Open">> =
       <<"GetPCRMap", "ReadKeys", "NewAESCTRHMAC", "Seal", "Truncate", "Write", "Open">>
  /\ decrypt = <<"ReadMessage", "ReadKeys", "NewAESCTRHMAC", "Open">>
  /\ WithPCRs(decrypt) = <<"GetPCRMap", "ReadMessage", "ReadKeys", "NewAESCTRHMAC", "Open">>
<1>1. /\ newkey = <<"NewKey", "Truncate", "Write">>
      /\ encrypt = <<"ReadKeys", "NewAESCTRHMAC", "Seal", "Truncate", "Write">>
      /\ decrypt = <<"ReadMessage", "ReadKeys", "NewAESCTRHMAC", "Open">>
  BY DEF newkey, encrypt, decrypt
<1> DEFINE g == <<"GetPCRMap">>
           o == <<"Open">>
           s == <<"GetPCRMap", "NewKey", "Truncate", "Write">>
           t == <<"GetPCRMap", "ReadKeys", "NewAESCTRHMAC", "Seal", "Truncate", "Write">>
           u == <<"GetPCRMap", "ReadKeys", "NewAESCTRHMAC", "Seal", "Truncate", "Write", "Open">>
           w == <<"GetPCRMap", "ReadMessage", "ReadKeys", "NewAESCTRHMAC", "Open">>
<1>2. /\ g \in Seq(StepName) /\ Len(g) = 1 /\ g[1] = "GetPCRMap"
      /\ o \in Seq(StepName) /\ Len(o) = 1 /\ o[1] = "Open"
      /\ s \in Seq(StepName) /\ Len(s) = 4
      /\ s[1] = "GetPCRMap" /\ s[2] = "NewKey" /\ s[3] = "Truncate" /\ s[4] = "Write"
      /\ newkey \in Seq(StepName) /\ Len(newkey) = 3
      /\ newkey[1] = "NewKey" /\ newkey[2] = "Truncate" /\ newkey[3] = "Write"
  BY <1>1 DEF StepName
<1>3. /\ t \in Seq(StepName) /\ Len(t) = 6
      /\ t[1] = "GetPCRMap" /\ t[2] = "ReadKeys" /\ t[3] = "NewAESCTRHMAC"
      /\ t[4] = "Seal" /\ t[5] = "Truncate" /\ t[6] = "Write"
      /\ encrypt \in Seq(StepName) /\ Len(encrypt) = 5
      /\ encrypt[1] = "ReadKeys" /\ encrypt[2] = "NewAESCTRHMAC" /\ encrypt[3] = "Seal"
      /\ encrypt[4] = "Truncate" /\ encrypt[5] = "Write"
  BY <1>1 DEF StepName
<1>4. /\ u \in Seq(StepName) /\ Len(u) = 7
      /\ u[1] = "GetPCRMap" /\ u[2] = "ReadKeys" /\ u[3] = "NewAESCTRHMAC"
      /\ u[4] = "Seal" /\ u[5] = "Truncate" /\ u[6] = "Write" /\ u[7] = "Open"
  BY DEF StepName
<1>5. /\ w \in Seq(StepName) /\ Len(w) = 5
      /\ w[1] = "GetPCRMap" /\ w[2] = "ReadMessage" /\ w[3] = "ReadKeys"
      /\ w[4] = "NewAESCTRHMAC" /\ w[5] = "Open"
      /\ decrypt \in Seq(StepName) /\ Len(decrypt) = 4
      /\ decrypt[1] = "ReadMessage" /\ decrypt[2] = "ReadKeys" /\ decrypt[3] = "NewAESCTRHMAC"
      /\ decrypt[4] = "Open"
  BY <1>1 DEF StepName
<1> HIDE DEF g, o, s, t, u, w
<1>6. g \o newkey = s
  <2>1. \A i \in 1..Len(g) : s[i] = g[i]
    BY <1>2
  <2>2. \A i \in 1..Len(newkey) : s[Len(g) + i] = newkey[i]
    BY <1>2
  <2>3. Len(s) = Len(g) + Len(newkey)
    BY <1>2
  <2>4. {g, newkey, s} \subseteq Seq(StepName)
    BY <1>2
  <2> QED BY <2>1, <2>2, <2>3, <2>4, InARowOf
<1>7. g \o encrypt = t
  <2>1. \A i \in 1..Len(g) : t[i] = g[i]
    BY <1>2, <1>3
  <2>2. \A i \in 1..Len(encrypt) : t[Len(g) + i] = encrypt[i]
    BY <1>2, <1>3
  <2>3. Len(t) = Len(g) + Len(encrypt)
    BY <1>2, <1>3
  <2>4. {g, encrypt, t} \subseteq Seq(StepName)
    BY <1>2, <1>3
  <2> QED BY <2>1, <2>2, <2>3, <2>4, InARowOf
<1>8. t \o o = u
  <2>1. \A i \in 1..Len(t) : u[i] = t[i]
    BY <1>2, <1>3, <1>4
  <2>2. \A i \in 1..Len(o) : u[Len(t) + i] = o[i]
    BY <1>2, <1>3, <1>4
  <2>3. Len(u) = Len(t) + Len(o)
    BY <1>2, <1>3, <1>4
  <2>4. {t, o, u} \subseteq Seq(StepName)
    BY <1>2, <1>3, <1>4
  <2> QED BY <2>1, <2>2, <2>3, <2>4, InARowOf
<1>9. g \o decrypt = w
  <2>1. \A i \in 1..Len(g) : w[i] = g[i]
    BY <1>2, <1>5
  <2>2. \A i \in 1..Len(decrypt) : w[Len(g) + i] = decrypt[i]
    BY <1>2, <1>5
  <2>3. Len(w) = Len(g) + Len(decrypt)
    BY <1>2, <1>5
  <2>4. {g, decrypt, w} \subseteq Seq(StepName)
    BY <1>2, <1>5
  <2> QED BY <2>1, <2>2, <2>3, <2>4, InARowOf
<1> QED BY <1>1, <1>6, <1>7, <1>8, <1>9 DEF WithPCRs, g, o, s, t, u, w

\* The order of the steps in every program.
Rank ==
  [GetPCRMap |-> 1, ReadMessage |-> 2, ReadKeys |-> 3, NewKey |-> 4, NewAESCTRHMAC |-> 5,
   Seal |-> 6, Truncate |-> 7, Write |-> 8, Open |-> 9]

Rises(s) ==
  /\ s \in Seq(StepName) /\ s # <<>>
  /\ \A i, j \in 1..Len(s) : i < j => Rank[s[i]] < Rank[s[j]]
Consists(s, S) == \A x : x \in S <=> \E i \in 1..Len(s) : s[i] = x

NewKeyList == {"NewKey", "Truncate", "Write"}
EncryptList == {"ReadKeys", "NewAESCTRHMAC", "Seal", "Truncate", "Write"}
DecryptList == {"ReadMessage", "ReadKeys", "NewAESCTRHMAC", "Open"}

\* Each list is in that order, and has these steps.
LEMMA ListsRise ==
  /\ Rises(newkey) /\ Consists(newkey, NewKeyList)
  /\ Rises(WithPCRs(newkey)) /\ Consists(WithPCRs(newkey), {"GetPCRMap"} \union NewKeyList)
  /\ Rises(encrypt) /\ Consists(encrypt, EncryptList)
  /\ Rises(WithPCRs(encrypt)) /\ Consists(WithPCRs(encrypt), {"GetPCRMap"} \union EncryptList)
  /\ Rises(WithPCRs(encrypt) \o <<"Open">>) /\ Consists(WithPCRs(encrypt) \o <<"Open">>, {"GetPCRMap", "Open"} \union EncryptList)
  /\ Rises(decrypt) /\ Consists(decrypt, DecryptList)
  /\ Rises(WithPCRs(decrypt)) /\ Consists(WithPCRs(decrypt), {"GetPCRMap"} \union DecryptList)
<1> DEFINE
     s1 == <<"NewKey", "Truncate", "Write">>
     s2 == <<"GetPCRMap", "NewKey", "Truncate", "Write">>
     s3 == <<"ReadKeys", "NewAESCTRHMAC", "Seal", "Truncate", "Write">>
     s4 == <<"GetPCRMap", "ReadKeys", "NewAESCTRHMAC", "Seal", "Truncate", "Write">>
     s5 == <<"GetPCRMap", "ReadKeys", "NewAESCTRHMAC", "Seal", "Truncate", "Write", "Open">>
     s6 == <<"ReadMessage", "ReadKeys", "NewAESCTRHMAC", "Open">>
     s7 == <<"GetPCRMap", "ReadMessage", "ReadKeys", "NewAESCTRHMAC", "Open">>
<1>1. Rises(s1)
  BY DEF Rises, Rank, StepName
<1>2. Consists(s1, NewKeyList)
  BY DEF Consists, NewKeyList
<1>3. Rises(s2)
  BY DEF Rises, Rank, StepName
<1>4. Consists(s2, {"GetPCRMap"} \union NewKeyList)
  BY DEF Consists, NewKeyList
<1>5. Rises(s3)
  BY DEF Rises, Rank, StepName
<1>6. Consists(s3, EncryptList)
  BY DEF Consists, EncryptList
<1>7. Rises(s4)
  BY DEF Rises, Rank, StepName
<1>8. Consists(s4, {"GetPCRMap"} \union EncryptList)
  BY DEF Consists, EncryptList
<1>9. Rises(s5)
  BY DEF Rises, Rank, StepName
<1>10. Consists(s5, {"GetPCRMap", "Open"} \union EncryptList)
  BY DEF Consists, EncryptList
<1>11. Rises(s6)
  BY DEF Rises, Rank, StepName
<1>12. Consists(s6, DecryptList)
  BY DEF Consists, DecryptList
<1>13. Rises(s7)
  BY DEF Rises, Rank, StepName
<1>14. Consists(s7, {"GetPCRMap"} \union DecryptList)
  BY DEF Consists, DecryptList
<1> QED BY Lists, <1>1, <1>2, <1>3, <1>4, <1>5, <1>6, <1>7, <1>8, <1>9, <1>10, <1>11, <1>12, <1>13, <1>14

\* The three kinds of programs have no list in common.
LEMMA ListsDiffer ==
  /\ {newkey, WithPCRs(newkey)} \cap {decrypt, WithPCRs(decrypt)} = {}
  /\ {encrypt, WithPCRs(encrypt), WithPCRs(encrypt) \o <<"Open">>}
       \cap {newkey, WithPCRs(newkey), decrypt, WithPCRs(decrypt)} = {}
  /\ WithPCRs(encrypt) \o <<"Open">> \notin {encrypt, WithPCRs(encrypt)}
<1> DEFINE u == WithPCRs(encrypt) \o <<"Open">>
<1>1. ASSUME NEW s, NEW t, NEW S, NEW T, Consists(s, S), Consists(t, T), s = t PROVE S = T
  BY <1>1 DEF Consists
<1>2. /\ "NewKey" \in NewKeyList /\ "ReadMessage" \notin NewKeyList /\ "Seal" \notin NewKeyList
      /\ "Seal" \in EncryptList /\ "Open" \notin EncryptList
      /\ "NewKey" \notin DecryptList /\ "Seal" \notin DecryptList
  BY DEF NewKeyList, EncryptList, DecryptList
<1>3. ASSUME NEW s \in {newkey, WithPCRs(newkey)}
      PROVE  \E S : Consists(s, S) /\ "NewKey" \in S /\ "Seal" \notin S
  BY <1>2, ListsRise
<1>4. ASSUME NEW s \in {decrypt, WithPCRs(decrypt)}
      PROVE  \E S : Consists(s, S) /\ "NewKey" \notin S /\ "Seal" \notin S
  BY <1>2, ListsRise
<1>5. ASSUME NEW s \in {encrypt, WithPCRs(encrypt)}
      PROVE  \E S : Consists(s, S) /\ "Seal" \in S /\ "Open" \notin S
  BY <1>2, ListsRise
<1>6. \E S : Consists(u, S) /\ "Seal" \in S /\ "Open" \in S
  BY <1>2, ListsRise
<1> HIDE DEF u
<1>7. {newkey, WithPCRs(newkey)} \cap {decrypt, WithPCRs(decrypt)} = {}
  BY <1>1, <1>3, <1>4
<1>8. {encrypt, WithPCRs(encrypt), u} \cap {newkey, WithPCRs(newkey), decrypt, WithPCRs(decrypt)} = {}
  BY <1>1, <1>3, <1>4, <1>5, <1>6
<1>9. u \notin {encrypt, WithPCRs(encrypt)}
  BY <1>1, <1>5, <1>6
<1> QED BY <1>7, <1>8, <1>9 DEF u

\* A program's session determines the flags it has, and it begins with GetPCRMap
\* if it has PCRs.
HasOf ==
  [none |-> {}, authvalue |-> {"parentPass", "keyPass"}, pcr |-> {"parentPass", "pcrs"},
   pcr_authvalue |-> {"parentPass", "keyPass", "pcrs"}]

Plainly(m) == "pcrs" \notin m.has /\ m.steps \in {newkey, encrypt, decrypt}
WithMap(m) ==
  "pcrs" \in m.has /\ m.steps \in {WithPCRs(newkey), WithPCRs(encrypt), WithPCRs(decrypt)}
Both(m) == m = test_vector /\ "pcrs" \in m.has /\ m.steps = WithPCRs(encrypt) \o <<"Open">>

LEMMA MainFacts ==
  ASSUME NEW m \in Mains
  PROVE  /\ m.session \in Session /\ m.onError \in {"error", "panic"} /\ m.has = HasOf[m.session]
         /\ Plainly(m) \/ WithMap(m) \/ Both(m)
         /\ m = test_vector => Both(m)
<1>1. ASSUME NEW s \in {newkey, encrypt, decrypt}, NEW e \in {"error", "panic"},
             m \in {Main("none", {}, e, s), Main("authvalue", {"parentPass", "keyPass"}, e, s)}
      PROVE  /\ m.session \in Session /\ m.onError \in {"error", "panic"}
             /\ m.has = HasOf[m.session] /\ Plainly(m)
  BY <1>1 DEF Main, Session, HasOf, Plainly
<1>2. ASSUME NEW s \in {WithPCRs(newkey), WithPCRs(encrypt), WithPCRs(decrypt)},
             NEW e \in {"error", "panic"},
             m \in {Main("pcr", {"parentPass", "pcrs"}, e, s),
                    Main("pcr_authvalue", {"parentPass", "keyPass", "pcrs"}, e, s)}
      PROVE  /\ m.session \in Session /\ m.onError \in {"error", "panic"}
             /\ m.has = HasOf[m.session] /\ WithMap(m)
  BY <1>2 DEF Main, Session, HasOf, WithMap
<1>3. m = test_vector =>
        /\ m.session \in Session /\ m.onError \in {"error", "panic"}
        /\ m.has = HasOf[m.session] /\ Both(m)
  BY DEF test_vector, Main, Session, HasOf, Both
<1>4. CASE m \in {no_policy_newkey, no_policy_encrypt, no_policy_decrypt, policy_auth_value_newkey,
                  policy_auth_value_encrypt, policy_auth_value_decrypt}
  <2>1. \E s \in {newkey, encrypt, decrypt}, e \in {"error", "panic"} :
          m \in {Main("none", {}, e, s), Main("authvalue", {"parentPass", "keyPass"}, e, s)}
    BY <1>4 DEF no_policy_newkey, no_policy_encrypt, no_policy_decrypt, policy_auth_value_newkey,
                policy_auth_value_encrypt, policy_auth_value_decrypt
  <2> QED BY <2>1, <1>1, <1>3
<1>5. CASE m \in {policy_pcr_newkey, policy_pcr_encrypt, policy_pcr_decrypt,
                  policy_pcr_auth_value_newkey, policy_pcr_auth_value_encrypt,
                  policy_pcr_auth_value_decrypt}
  <2>1. \E s \in {WithPCRs(newkey), WithPCRs(encrypt), WithPCRs(decrypt)}, e \in {"error", "panic"} :
          m \in {Main("pcr", {"parentPass", "pcrs"}, e, s),
                 Main("pcr_authvalue", {"parentPass", "keyPass", "pcrs"}, e, s)}
    BY <1>5 DEF policy_pcr_newkey, policy_pcr_encrypt, policy_pcr_decrypt,
                policy_pcr_auth_value_newkey, policy_pcr_auth_value_encrypt,
                policy_pcr_auth_value_decrypt
  <2> QED BY <2>1, <1>2, <1>3
<1>6. CASE m = test_vector
  BY <1>3, <1>6
<1> QED BY <1>4, <1>5, <1>6 DEF Mains

\* The steps of a program of each kind.
First(r) == IF "pcrs" \in r.main.has THEN {"GetPCRMap"} ELSE {}
AtLast(r) == IF r.main = test_vector THEN {"Open"} ELSE {}
StepsOf(r) ==
  First(r) \union (IF MakesKeys(r) THEN NewKeyList ELSE
                   IF Decrypts(r) THEN DecryptList ELSE EncryptList \union AtLast(r))

LEMMA KindFacts ==
  ASSUME NEW r, r.main \in Mains
  PROVE  /\ Rises(r.main.steps) /\ Consists(r.main.steps, StepsOf(r))
         /\ MakesKeys(r) => Writes(r)
<1>1. Plainly(r.main) \/ WithMap(r.main) \/ Both(r.main)
  BY MainFacts
<1>2. r.main = test_vector => r.main.steps = WithPCRs(encrypt) \o <<"Open">>
  BY MainFacts DEF Both
<1>3. MakesKeys(r) => Writes(r)
  BY ListsDiffer DEF MakesKeys, Writes
<1>4. Rises(r.main.steps)
  BY <1>1, ListsRise DEF Plainly, WithMap, Both
<1>5. CASE Plainly(r.main)
  <2>1. First(r) = {} /\ r.main # test_vector
    BY <1>2, <1>5, ListsDiffer DEF Plainly, First
  <2>2. CASE r.main.steps = newkey
    <3>1. MakesKeys(r)
      BY <2>2 DEF MakesKeys
    <3> QED BY <1>3, <1>4, <2>1, <2>2, <3>1, ListsRise DEF StepsOf
  <2>3. CASE r.main.steps = encrypt
    <3>1. ~MakesKeys(r) /\ Writes(r)
      BY <2>3, ListsDiffer DEF MakesKeys, Writes
    <3>2. StepsOf(r) = EncryptList
      BY <2>1, <3>1 DEF StepsOf, AtLast, Decrypts
    <3> QED BY <1>4, <2>3, <3>1, <3>2, ListsRise
  <2>4. CASE r.main.steps = decrypt
    <3>1. ~MakesKeys(r) /\ ~Writes(r)
      BY <2>4, ListsDiffer DEF MakesKeys, Writes
    <3>2. StepsOf(r) = DecryptList
      BY <2>1, <3>1 DEF StepsOf, Decrypts
    <3> QED BY <1>4, <2>4, <3>1, <3>2, ListsRise
  <2> QED BY <1>5, <2>2, <2>3, <2>4 DEF Plainly
<1>6. CASE WithMap(r.main)
  <2>1. First(r) = {"GetPCRMap"} /\ r.main # test_vector
    BY <1>2, <1>6, ListsDiffer DEF WithMap, First
  <2>2. CASE r.main.steps = WithPCRs(newkey)
    <3>1. MakesKeys(r)
      BY <2>2 DEF MakesKeys
    <3> QED BY <1>3, <1>4, <2>1, <2>2, <3>1, ListsRise DEF StepsOf
  <2>3. CASE r.main.steps = WithPCRs(encrypt)
    <3>1. ~MakesKeys(r) /\ Writes(r)
      BY <2>3, ListsDiffer DEF MakesKeys, Writes
    <3>2. StepsOf(r) = {"GetPCRMap"} \union EncryptList
      BY <2>1, <3>1 DEF StepsOf, AtLast, Decrypts
    <3> QED BY <1>4, <2>3, <3>1, <3>2, ListsRise
  <2>4. CASE r.main.steps = WithPCRs(decrypt)
    <3>1. ~MakesKeys(r) /\ ~Writes(r)
      BY <2>4, ListsDiffer DEF MakesKeys, Writes
    <3>2. StepsOf(r) = {"GetPCRMap"} \union DecryptList
      BY <2>1, <3>1 DEF StepsOf, Decrypts
    <3> QED BY <1>4, <2>4, <3>1, <3>2, ListsRise
  <2> QED BY <1>6, <2>2, <2>3, <2>4 DEF WithMap
<1>7. CASE Both(r.main)
  <2>1. ~MakesKeys(r) /\ Writes(r)
    BY <1>7, ListsDiffer DEF MakesKeys, Writes, Both
  <2>2. StepsOf(r) = {"GetPCRMap", "Open"} \union EncryptList
    BY <1>7, <2>1 DEF StepsOf, First, AtLast, Decrypts, Both
  <2> QED BY <1>4, <1>7, <2>1, <2>2, ListsRise DEF Both
<1> QED BY <1>1, <1>5, <1>6, <1>7

-----------------------------------------------------------------------------
(* Where a run is in its program. *)

Has(t, x) == \E i \in 1..Len(t) : t[i] = x

\* An end of a list that rises, and what is left of it after its first step.
EndOf(t, s, i) ==
  /\ t \in Seq(StepName) /\ t # <<>> /\ Len(t) = Len(s) - i + 1 /\ Head(t) = s[i]
  /\ \A k \in 1..Len(t) : t[k] = s[i + k - 1]

LEMMA EndOfList ==
  ASSUME NEW s, Rises(s), NEW i \in 1..Len(s), NEW t, t = SubSeq(s, i, Len(s))
  PROVE  /\ EndOf(t, s, i)
         /\ i < Len(s) => i + 1 \in 1..Len(s) /\ Tail(t) = SubSeq(s, i + 1, Len(s))
<1>1. s \in Seq(StepName) /\ Len(s) \in Nat /\ i \in Nat /\ i <= Len(s) /\ i >= 1
  BY DEF Rises
<1>2. \A k \in i..Len(s) : s[k] \in StepName
  BY <1>1
<1>3. /\ t \in Seq(StepName) /\ Len(t) = Len(s) - i + 1
      /\ \A k \in 1..Len(t) : t[k] = s[i + k - 1]
  BY <1>1, <1>2, SubSeqProperties
<1>4. t # <<>> /\ Head(t) = t[1] /\ t[1] = s[i]
  <2>1. Len(t) >= 1 /\ 1 \in 1..Len(t) /\ i + 1 - 1 = i
    BY <1>1, <1>3
  <2>2. t[1] = s[i]
    BY <1>3, <2>1
  <2>3. t # <<>>
    <3> SUFFICES ASSUME t = <<>> PROVE FALSE
      OBVIOUS
    <3>1. Len(t) = 0
      OBVIOUS
    <3> QED BY <2>1, <3>1
  <2> QED BY <1>3, <2>1, <2>2, <2>3
<1>5. Tail(t) \in Seq(StepName) /\ Len(Tail(t)) = Len(s) - i
      /\ \A k \in 1..Len(Tail(t)) : Tail(t)[k] = t[k + 1]
  BY <1>1, <1>3, <1>4, HeadTailProperties
<1>6. ASSUME i < Len(s) PROVE Tail(t) = SubSeq(s, i + 1, Len(s))
  <2> DEFINE u == SubSeq(s, i + 1, Len(s))
  <2>1. /\ u \in Seq(StepName) /\ Len(u) = Len(s) - i
        /\ \A k \in 1..Len(s) - i : u[k] = s[i + 1 + k - 1]
    BY <1>1, <1>2, <1>6, SubSeqProperties
  <2> HIDE DEF u
  <2>2. \A k \in 1..Len(Tail(t)) : Tail(t)[k] = u[k]
    BY <1>1, <1>3, <1>5, <2>1
  <2>3. Tail(t) = u
    BY <1>5, <2>1, <2>2, SeqEqual
  <2> QED BY <2>3 DEF u
<1>7. i < Len(s) => i + 1 \in 1..Len(s)
  BY <1>1
<1> QED BY <1>3, <1>4, <1>6, <1>7 DEF EndOf

\* What is in it, by rank.
Begins(t, S, h) ==
  /\ h \in S /\ S \subseteq StepName
  /\ \A x : Has(t, x) <=> x \in S /\ Rank[h] <= Rank[x]
  /\ \A x \in S : Rank[x] = Rank[h] => x = h
Highest(S, h) == \A x \in S : Rank[x] <= Rank[h]

LEMMA RankInList ==
  ASSUME NEW s, Rises(s), NEW S, Consists(s, S), NEW i \in 1..Len(s), NEW t, t = SubSeq(s, i, Len(s))
  PROVE  Begins(t, S, Head(t)) /\ (i = Len(s) => Highest(S, Head(t)))
<1>1. s \in Seq(StepName) /\ Len(s) \in Nat /\ i \in Nat /\ i <= Len(s) /\ i >= 1
  BY DEF Rises
<1>2. \A j, k \in 1..Len(s) : j < k => Rank[s[j]] < Rank[s[k]]
  BY DEF Rises
<1>3. /\ Len(t) = Len(s) - i + 1 /\ Head(t) = s[i]
      /\ \A k \in 1..Len(t) : t[k] = s[i + k - 1]
  BY EndOfList DEF EndOf
<1>4. \A x : x \in S <=> \E k \in 1..Len(s) : s[k] = x
  BY DEF Consists
<1>5. Head(t) \in S /\ S \subseteq StepName
  BY <1>1, <1>3, <1>4
<1>6. \A j \in 1..Len(s) : Rank[s[j]] \in Nat
  <2>1. \A x \in StepName : Rank[x] \in Nat
    BY DEF StepName, Rank
  <2> QED BY <1>1, <2>1
<1>7. ASSUME NEW x, Has(t, x) PROVE x \in S /\ Rank[Head(t)] <= Rank[x]
  <2>1. PICK k \in 1..Len(t) : t[k] = x
    BY <1>7 DEF Has
  <2>2. PICK j : j = i + k - 1
    OBVIOUS
  <2>3. j \in 1..Len(s) /\ (j = i \/ i < j)
    BY <1>1, <1>3, <2>1, <2>2
  <2>4. s[j] = x
    BY <1>3, <2>1, <2>2
  <2>5. Rank[s[i]] <= Rank[s[j]]
    <3>1. Rank[s[i]] \in Nat /\ Rank[s[j]] \in Nat
      BY <1>6, <2>3
    <3>2. i < j => Rank[s[i]] < Rank[s[j]]
      BY <1>2, <2>3
    <3> QED BY <2>3, <3>1, <3>2
  <2> QED BY <1>3, <1>4, <2>3, <2>4, <2>5
<1>8. ASSUME NEW x \in S, Rank[Head(t)] <= Rank[x] PROVE Has(t, x)
  <2>1. PICK j \in 1..Len(s) : s[j] = x
    BY <1>4
  <2>2. i <= j
    BY <1>1, <1>2, <1>3, <1>6, <1>8, <2>1
  <2>3. j - i + 1 \in 1..Len(t) /\ i + (j - i + 1) - 1 = j
    BY <1>1, <1>3, <2>2
  <2>4. t[j - i + 1] = x
    BY <1>3, <2>1, <2>3
  <2> QED BY <2>3, <2>4 DEF Has
<1>9. ASSUME i = Len(s), NEW x \in S PROVE Rank[x] <= Rank[Head(t)]
  <2>1. PICK j \in 1..Len(s) : s[j] = x
    BY <1>4
  <2>2. j = i \/ j < i
    BY <1>1, <1>9, <2>1
  <2> QED BY <1>1, <1>2, <1>3, <1>6, <2>1, <2>2
<1>10. ASSUME NEW x \in S, Rank[x] = Rank[Head(t)] PROVE x = Head(t)
  <2>1. PICK j \in 1..Len(s) : s[j] = x
    BY <1>4
  <2>2. ~(j < i) /\ ~(i < j)
    BY <1>1, <1>2, <1>3, <1>6, <1>10, <2>1
  <2> QED BY <1>1, <1>3, <2>1, <2>2
<1> QED BY <1>5, <1>7, <1>8, <1>9, <1>10 DEF Begins, Highest

\* Types, taken apart.
LEMMA Types ==
  ASSUME TypeOK
  PROVE  /\ DOMAIN runs = 1..Len(runs) /\ Len(runs) \in Nat
         /\ \A n \in DOMAIN runs :
              runs[n] \in Run /\ runs[n].main \in Mains /\ runs[n].flags \in Flags
         /\ \A p \in Process : todo[p] \in Seq(StepName) /\ cur[p] \in 0..Len(runs)
         /\ \A p \in Process : cur[p] # 0 => cur[p] \in DOMAIN runs /\ todo[p] # <<>>
<1>1. runs \in Seq(Run)
  BY DEF TypeOK
<1>2. DOMAIN runs = 1..Len(runs) /\ Len(runs) \in Nat
  BY <1>1
<1>3. \A n \in DOMAIN runs : runs[n] \in Run
  BY <1>1
<1>4. \A n \in DOMAIN runs : runs[n].main \in Mains /\ runs[n].flags \in Flags
  BY <1>3 DEF Run
<1>5. \A p \in Process : todo[p] \in Seq(StepName) /\ cur[p] \in 0..Len(runs) /\ (cur[p] # 0 => todo[p] # <<>>)
  BY DEF TypeOK
<1> QED BY <1>2, <1>3, <1>4, <1>5

\* A run takes next a step of its program, and all those of a higher rank are ahead.
LEMMA Place ==
  ASSUME TypeOK, InOrder, NEW p \in Process, cur[p] # 0, NEW h, h = Head(todo[p])
  PROVE  /\ cur[p] \in DOMAIN runs /\ R(p) \in Run /\ R(p).main \in Mains /\ R(p).flags \in Flags
         /\ h \in StepsOf(R(p)) /\ StepsOf(R(p)) \subseteq StepName
         /\ \A x : Ahead(p, x) <=> x \in StepsOf(R(p)) /\ Rank[h] <= Rank[x]
         /\ \A x \in StepsOf(R(p)) : Rank[x] = Rank[h] => x = h
         /\ Len(todo[p]) = 1 => \A x \in StepsOf(R(p)) : Rank[x] <= Rank[h]
<1>1. cur[p] \in DOMAIN runs /\ R(p) \in Run /\ R(p).main \in Mains /\ R(p).flags \in Flags
  BY Types DEF R
<1> DEFINE s == R(p).main.steps
           t == todo[p]
<1>2. PICK i \in 1..Len(s) : t = SubSeq(s, i, Len(s))
  BY DEF InOrder
<1>3. Rises(s) /\ Consists(s, StepsOf(R(p)))
  BY <1>1, KindFacts
<1>4. Len(s) \in Nat /\ Len(t) = Len(s) - i + 1
  <2> HIDE DEF s, t
  <2> QED BY <1>2, <1>3, EndOfList DEF Rises, EndOf
<1>5. Len(t) = 1 => i = Len(s)
  <2> HIDE DEF s, t
  <2> QED BY <1>2, <1>4
<1>6. /\ h \in StepsOf(R(p)) /\ StepsOf(R(p)) \subseteq StepName
      /\ \A x : Has(t, x) <=> x \in StepsOf(R(p)) /\ Rank[h] <= Rank[x]
      /\ i = Len(s) => \A x \in StepsOf(R(p)) : Rank[x] <= Rank[h]
      /\ \A x \in StepsOf(R(p)) : Rank[x] = Rank[h] => x = h
  <2>1. h = Head(t)
    OBVIOUS
  <2> HIDE DEF s, t
  <2>2. Begins(t, StepsOf(R(p)), Head(t)) /\ (i = Len(s) => Highest(StepsOf(R(p)), Head(t)))
    BY <1>2, <1>3, RankInList
  <2> QED BY <2>1, <2>2 DEF Begins, Highest
<1>7. \A x : Ahead(p, x) <=> Has(t, x)
  BY DEF Ahead, Has
<1> QED BY <1>1, <1>5, <1>6, <1>7

\* Once it has taken the step, the next one is that of the next higher rank.
LEMMA PlaceAfter ==
  ASSUME TypeOK, InOrder, NEW p \in Process, cur[p] # 0, Len(todo[p]) # 1, NEW t, t = Tail(todo[p])
  PROVE  /\ t \in Seq(StepName) /\ t # <<>>
         /\ \E i \in 1..Len(R(p).main.steps) :
              t = SubSeq(R(p).main.steps, i, Len(R(p).main.steps))
         /\ \A x : Has(t, x) <=> Ahead(p, x) /\ x # Head(todo[p])
         /\ Head(t) \in StepsOf(R(p)) /\ Rank[Head(todo[p])] < Rank[Head(t)]
         /\ \A x \in StepsOf(R(p)) : Rank[Head(todo[p])] < Rank[x] => Rank[Head(t)] <= Rank[x]
<1>1. cur[p] \in DOMAIN runs /\ R(p) \in Run /\ R(p).main \in Mains
  BY Types DEF R
<1> DEFINE s == R(p).main.steps
           u == todo[p]
<1>2. PICK i \in 1..Len(s) : u = SubSeq(s, i, Len(s))
  BY DEF InOrder
<1>3. Rises(s) /\ Consists(s, StepsOf(R(p)))
  BY <1>1, KindFacts
<1>4. t = Tail(u) /\ Len(u) # 1
  OBVIOUS
<1> HIDE DEF s, u
<1>5. Len(s) \in Nat /\ EndOf(u, s, i)
  <2>1. Len(s) \in Nat
    BY <1>3 DEF Rises
  <2>2. EndOf(u, s, i)
    BY <1>2, <1>3, EndOfList
  <2> QED BY <2>1, <2>2
<1>6. i < Len(s)
  BY <1>4, <1>5 DEF EndOf
<1>7. i + 1 \in 1..Len(s) /\ t = SubSeq(s, i + 1, Len(s))
  BY <1>2, <1>3, <1>4, <1>6, EndOfList
<1>8. PICK j : j = i + 1
  OBVIOUS
<1>9. j \in 1..Len(s) /\ t = SubSeq(s, j, Len(s))
  BY <1>7, <1>8
<1>10. i < j
  BY <1>8
<1>11. EndOf(t, s, j)
  BY <1>3, <1>9, EndOfList
<1>12. Begins(t, StepsOf(R(p)), Head(t))
  BY <1>3, <1>9, RankInList
<1>13. Begins(u, StepsOf(R(p)), Head(u))
  BY <1>2, <1>3, RankInList
<1>14. Rank[Head(u)] < Rank[Head(t)]
  BY <1>3, <1>5, <1>9, <1>10, <1>11 DEF Rises, EndOf
<1>15. \A x \in StepName : Rank[x] \in Nat
  BY DEF Rank, StepName
<1>16. \A x : Has(t, x) <=> Has(u, x) /\ x # Head(u)
  <2>1. ASSUME NEW x, Has(t, x) PROVE Has(u, x) /\ x # Head(u)
    <3>1. Rank[Head(u)] \in Nat /\ Rank[Head(t)] \in Nat /\ Rank[x] \in Nat
      BY <1>12, <1>13, <1>15, <2>1 DEF Begins
    <3>2. x \in StepsOf(R(p)) /\ Rank[Head(t)] <= Rank[x]
      BY <1>12, <2>1 DEF Begins
    <3>3. Rank[Head(u)] < Rank[x]
      <4>1. \A a, b, c \in Nat : a < b /\ b <= c => a < c
        OBVIOUS
      <4> HIDE DEF Rank
      <4> QED BY <1>14, <3>1, <3>2, <4>1, Zenon
    <3>4. x # Head(u)
      BY <3>1, <3>3
    <3>5. Has(u, x)
      BY <1>13, <3>1, <3>2, <3>3 DEF Begins
    <3> QED BY <3>4, <3>5
  <2>2. ASSUME NEW x, Has(u, x), x # Head(u) PROVE Has(t, x)
    <3>1. PICK k \in 1..Len(u) : u[k] = x
      BY <2>2 DEF Has
    <3>2. \A m \in 1..Len(u) : u[m] = s[i + m - 1]
      BY <1>5 DEF EndOf
    <3>3. \A m \in 1..Len(t) : t[m] = s[j + m - 1]
      BY <1>11 DEF EndOf
    <3>4. k # 1
      BY <1>5, <2>2, <3>1, <3>2 DEF EndOf
    <3>5. PICK m : m = k - 1
      OBVIOUS
    <3>6. m \in 1..Len(t) /\ i + k - 1 = j + m - 1
      BY <1>5, <1>8, <1>10, <1>11, <3>1, <3>4, <3>5 DEF EndOf
    <3>7. t[m] = x
      BY <3>1, <3>2, <3>3, <3>6
    <3> QED BY <3>6, <3>7 DEF Has
  <2> QED BY <2>1, <2>2
<1>17. ASSUME NEW x \in StepsOf(R(p)), Rank[Head(u)] < Rank[x] PROVE Rank[Head(t)] <= Rank[x]
  <2>1. Has(u, x) /\ x # Head(u)
    <3>1. Rank[Head(u)] \in Nat /\ Rank[x] \in Nat
      BY <1>12, <1>13, <1>15, <1>17 DEF Begins
    <3> QED BY <1>13, <1>17, <3>1 DEF Begins
  <2> QED BY <1>12, <1>16, <2>1 DEF Begins
<1>18. \A x : Ahead(p, x) <=> Has(u, x)
  BY DEF Ahead, Has, u
<1>19. /\ Head(t) \in StepsOf(R(p)) /\ Rank[Head(todo[p])] < Rank[Head(t)]
       /\ \A x \in StepsOf(R(p)) : Rank[Head(todo[p])] < Rank[x] => Rank[Head(t)] <= Rank[x]
       /\ \A x : Has(t, x) <=> Ahead(p, x) /\ x # Head(todo[p])
  BY <1>12, <1>14, <1>16, <1>17, <1>18 DEF u, Begins
<1> QED BY <1>9, <1>11, <1>19 DEF s, EndOf

\* The run of shell p takes its next step, or goes wrong there, and is r then.
Moves(p, r) ==
  /\ cur[p] # 0
  /\ r \in Run /\ r.main = R(p).main /\ r.flags = R(p).flags
  /\ r.with = R(p).with /\ r.since = R(p).since
  /\ runs' = [runs EXCEPT ![cur[p]] = r]
  /\ \/ /\ r.exit = "running" /\ r.until = R(p).until /\ Len(todo[p]) # 1
        /\ UNCHANGED cur /\ todo' = [todo EXCEPT ![p] = Tail(@)]
     \/ /\ r.exit # "running" /\ r.until = events'
        /\ cur' = [cur EXCEPT ![p] = 0] /\ todo' = [todo EXCEPT ![p] = <<>>]
  /\ r.exit = "ok" => Len(todo[p]) = 1

\* The other runs and the other shells are not touched.
LEMMA MovesOne ==
  ASSUME TypeOK, InOrder, NEW p \in Process, NEW r, Moves(p, r)
  PROVE  /\ runs' \in Seq(Run) /\ Len(runs') = Len(runs) /\ DOMAIN runs' = DOMAIN runs
         /\ cur[p] \in DOMAIN runs /\ runs'[cur[p]] = r
         /\ \A n \in DOMAIN runs : n # cur[p] => runs'[n] = runs[n]
         /\ \A n \in DOMAIN runs : /\ runs'[n].main = runs[n].main /\ runs'[n].flags = runs[n].flags
                                  /\ runs'[n].with = runs[n].with /\ runs'[n].since = runs[n].since
         /\ cur' \in [Process -> Nat] /\ todo' \in [Process -> Seq(StepName)]
         /\ \A q \in Process : q # p => cur'[q] = cur[q] /\ todo'[q] = todo[q]
         /\ cur'[p] = IF r.exit = "running" THEN cur[p] ELSE 0
         /\ todo'[p] = IF r.exit = "running" THEN Tail(todo[p]) ELSE <<>>
         /\ r.exit = "running" => Len(todo[p]) # 1
<1>1. /\ cur[p] # 0 /\ r \in Run /\ runs' = [runs EXCEPT ![cur[p]] = r]
      /\ r.main = R(p).main /\ r.flags = R(p).flags /\ r.with = R(p).with /\ r.since = R(p).since
  BY DEF Moves
<1>2. cur[p] \in DOMAIN runs /\ DOMAIN runs = 1..Len(runs) /\ Len(runs) \in Nat /\ runs \in Seq(Run)
  BY <1>1, Types DEF TypeOK
<1>3. runs' \in Seq(Run) /\ Len(runs') = Len(runs)
  BY <1>1, <1>2
<1>4. DOMAIN runs' = DOMAIN runs /\ runs'[cur[p]] = r
      /\ \A n \in DOMAIN runs : n # cur[p] => runs'[n] = runs[n]
  BY <1>1, <1>2
<1>5. \A n \in DOMAIN runs : /\ runs'[n].main = runs[n].main /\ runs'[n].flags = runs[n].flags
                             /\ runs'[n].with = runs[n].with /\ runs'[n].since = runs[n].since
  BY <1>1, <1>4 DEF R
<1>6. cur \in [Process -> Nat] /\ todo \in [Process -> Seq(StepName)]
  BY DEF TypeOK
<1>7. CASE r.exit = "running"
  <2>1. cur' = cur /\ todo' = [todo EXCEPT ![p] = Tail(todo[p])] /\ Len(todo[p]) # 1
    BY <1>7 DEF Moves
  <2>2. Tail(todo[p]) \in Seq(StepName)
    BY <1>1, <2>1, PlaceAfter
  <2> QED BY <1>2, <1>3, <1>4, <1>5, <1>6, <1>7, <2>1, <2>2
<1>8. CASE r.exit # "running"
  <2>1. cur' = [cur EXCEPT ![p] = 0] /\ todo' = [todo EXCEPT ![p] = <<>>]
    BY <1>8 DEF Moves
  <2>2. <<>> \in Seq(StepName)
    OBVIOUS
  <2> QED BY <1>2, <1>3, <1>4, <1>5, <1>6, <1>8, <2>1, <2>2
<1> QED BY <1>7, <1>8

\* What the other runs have ahead is the same, and the run itself has one step less.
LEMMA MovesAhead ==
  ASSUME TypeOK, InOrder, NEW p \in Process, NEW r, Moves(p, r), NEW n \in DOMAIN runs
  PROVE  /\ n # cur[p] =>
              (\A s : Pending(n, s)' <=> Pending(n, s)) /\ (AtWrite(n)' <=> AtWrite(n))
         /\ n = cur[p] =>
              /\ \A s : Pending(n, s) <=> Ahead(p, s)
              /\ \A s : Pending(n, s)' <=> r.exit = "running" /\ Ahead(p, s) /\ s # Head(todo[p])
              /\ AtWrite(n) <=> Head(todo[p]) = "Write"
              /\ AtWrite(n)' <=> r.exit = "running" /\ Head(Tail(todo[p])) = "Write"
<1>1. /\ \A q \in Process : q # p => cur'[q] = cur[q] /\ todo'[q] = todo[q]
      /\ cur'[p] = IF r.exit = "running" THEN cur[p] ELSE 0
      /\ todo'[p] = IF r.exit = "running" THEN Tail(todo[p]) ELSE <<>>
      /\ r.exit = "running" => Len(todo[p]) # 1
  BY MovesOne
<1>2. cur[p] # 0 /\ \A q \in Process : cur[q] = cur[p] => q = p
  BY DEF Moves, InOrder
<1>3. n # 0
  BY Types
<1>4. \A s : \A q \in Process : q # p => (Ahead(q, s)' <=> Ahead(q, s))
  BY <1>1 DEF Ahead
<1>5. ASSUME n # cur[p]
      PROVE  (\A s : Pending(n, s)' <=> Pending(n, s)) /\ (AtWrite(n)' <=> AtWrite(n))
  <2>1. \A q \in Process : cur'[q] = n <=> cur[q] = n /\ q # p
    BY <1>1, <1>3, <1>5
  <2>2. \A q \in Process : cur[q] = n => q # p
    BY <1>5
  <2>3. \A s : Pending(n, s)' <=> Pending(n, s)
    BY <1>4, <2>1, <2>2 DEF Pending
  <2>4. AtWrite(n)' <=> AtWrite(n)
    BY <1>1, <1>3, <2>1, <2>2 DEF AtWrite, AtStep
  <2> QED BY <2>3, <2>4
<1>6. ASSUME n = cur[p], r.exit = "running"
      PROVE  /\ \A s : Pending(n, s) <=> Ahead(p, s)
             /\ \A s : Pending(n, s)' <=> Ahead(p, s) /\ s # Head(todo[p])
             /\ AtWrite(n) <=> Head(todo[p]) = "Write"
             /\ AtWrite(n)' <=> Head(Tail(todo[p])) = "Write"
  <2>1. \A q \in Process : (cur[q] = n <=> q = p) /\ (cur'[q] = n <=> q = p)
    BY <1>1, <1>2, <1>6
  <2>2. todo'[p] = Tail(todo[p]) /\ Len(todo[p]) # 1
    BY <1>1, <1>6
  <2>3. \A s : Has(Tail(todo[p]), s) <=> Ahead(p, s) /\ s # Head(todo[p])
    BY <1>2, <2>2, PlaceAfter
  <2>4. \A s : Ahead(p, s)' <=> Ahead(p, s) /\ s # Head(todo[p])
    BY <2>2, <2>3 DEF Ahead, Has
  <2>5. \A s : Pending(n, s) <=> Ahead(p, s)
    BY <2>1 DEF Pending
  <2>6. \A s : Pending(n, s)' <=> Ahead(p, s) /\ s # Head(todo[p])
    BY <2>1, <2>4 DEF Pending
  <2>7. AtWrite(n) <=> Head(todo[p]) = "Write"
    BY <1>2, <2>1 DEF AtWrite, AtStep
  <2>8. AtWrite(n)' <=> Head(Tail(todo[p])) = "Write"
    BY <1>2, <1>3, <2>1, <2>2 DEF AtWrite, AtStep
  <2> QED BY <2>5, <2>6, <2>7, <2>8
<1>7. ASSUME n = cur[p], r.exit # "running"
      PROVE  /\ \A s : Pending(n, s) <=> Ahead(p, s)
             /\ \A s : ~Pending(n, s)'
             /\ AtWrite(n) <=> Head(todo[p]) = "Write"
             /\ ~AtWrite(n)'
  <2>1. \A q \in Process : (cur[q] = n <=> q = p) /\ cur'[q] # n
    BY <1>1, <1>2, <1>3, <1>7
  <2>2. \A s : Pending(n, s) <=> Ahead(p, s)
    BY <2>1 DEF Pending
  <2>3. \A s : ~Pending(n, s)'
    BY <2>1 DEF Pending
  <2>4. AtWrite(n) <=> Head(todo[p]) = "Write"
    BY <1>2, <2>1 DEF AtWrite, AtStep
  <2>5. ~AtWrite(n)'
    BY <2>1 DEF AtWrite
  <2> QED BY <2>2, <2>3, <2>4, <2>5
<1> QED BY <1>5, <1>6, <1>7

\* Types, order and who ran beside whom are kept.
LEMMA MovesOrder ==
  ASSUME TypeOK, InOrder, \A n \in DOMAIN runs : BesideOK(n), NEW p \in Process, NEW r, Moves(p, r),
         events' \in Nat, events <= events', device' \in Device,
         file' \in [DOMAIN InitFile -> Content]
  PROVE  TypeOK' /\ InOrder' /\ \A n \in DOMAIN runs : BesideOK(n)'
<1>1. /\ runs' \in Seq(Run) /\ Len(runs') = Len(runs) /\ DOMAIN runs' = DOMAIN runs
      /\ cur[p] \in DOMAIN runs /\ runs'[cur[p]] = r
      /\ \A n \in DOMAIN runs : n # cur[p] => runs'[n] = runs[n]
  BY MovesOne
<1>2. \A n \in DOMAIN runs : /\ runs'[n].main = runs[n].main /\ runs'[n].flags = runs[n].flags
                             /\ runs'[n].with = runs[n].with /\ runs'[n].since = runs[n].since
  BY MovesOne
<1>3. /\ cur' \in [Process -> Nat] /\ todo' \in [Process -> Seq(StepName)]
      /\ \A q \in Process : q # p => cur'[q] = cur[q] /\ todo'[q] = todo[q]
      /\ cur'[p] = IF r.exit = "running" THEN cur[p] ELSE 0
      /\ todo'[p] = IF r.exit = "running" THEN Tail(todo[p]) ELSE <<>>
      /\ r.exit = "running" => Len(todo[p]) # 1
  BY MovesOne
<1>4. cur[p] # 0 /\ \A q \in Process : cur[q] = cur[p] => q = p
  BY DEF Moves, InOrder
<1>5. /\ DOMAIN runs = 1..Len(runs) /\ Len(runs) \in Nat
      /\ \A q \in Process : cur[q] \in 0..Len(runs) /\ (cur[q] # 0 <=> todo[q] # <<>>)
      /\ \A n \in DOMAIN runs : runs[n].exit = "running" <=> n \in Running
  BY Types DEF TypeOK
<1>6. r.exit = "running" =>
        /\ Tail(todo[p]) # <<>>
        /\ \E i \in 1..Len(R(p).main.steps) :
             Tail(todo[p]) = SubSeq(R(p).main.steps, i, Len(R(p).main.steps))
  BY <1>3, <1>4, PlaceAfter
<1>7. \A q \in Process : cur'[q] \in 0..Len(runs') /\ (cur'[q] # 0 <=> todo'[q] # <<>>)
  <2>1. TAKE q \in Process
  <2>2. CASE q = p
    BY <1>1, <1>3, <1>4, <1>5, <1>6, <2>2
  <2>3. CASE q # p
    BY <1>1, <1>3, <1>5, <2>3
  <2> QED BY <2>2, <2>3
<1>8. Running' = IF r.exit = "running" THEN Running ELSE Running \ {cur[p]}
  <2>1. Running' = {cur'[q] : q \in Process} \ {0}
    BY DEF Running
  <2>2. Running = {cur[q] : q \in Process} \ {0}
    BY DEF Running
  <2>3. CASE r.exit = "running"
    <3>1. \A q \in Process : cur'[q] = cur[q]
      BY <1>3, <2>3
    <3> QED BY <2>1, <2>2, <2>3, <3>1
  <2>4. CASE r.exit # "running"
    <3>1. \A q \in Process : cur'[q] = IF q = p THEN 0 ELSE cur[q]
      BY <1>3, <2>4
    <3> QED BY <1>4, <2>1, <2>2, <2>4, <3>1
  <2> QED BY <2>3, <2>4
<1>9. cur[p] \in Running
  BY <1>4 DEF Running
<1>10. \A n \in DOMAIN runs : runs'[n].exit = "running" <=> n \in Running'
  <2>1. TAKE n \in DOMAIN runs
  <2>2. CASE n = cur[p]
    BY <1>1, <1>8, <1>9, <2>2
  <2>3. CASE n # cur[p]
    BY <1>1, <1>5, <1>8, <2>3
  <2> QED BY <2>2, <2>3
<1>11. TypeOK'
  BY <1>1, <1>3, <1>7, <1>10 DEF TypeOK
<1>12. InOrder'
  <2>1. \A q, s \in Process : cur'[q] = cur'[s] /\ cur'[q] # 0 => q = s
    <3>1. \A q \in Process : cur'[q] # 0 => cur'[q] = cur[q]
      BY <1>3
    <3>2. \A q, s \in Process : cur[q] = cur[s] /\ cur[q] # 0 => q = s
      BY DEF InOrder
    <3> QED BY <3>1, <3>2
  <2>2. ASSUME NEW q \in Process, cur'[q] # 0
        PROVE  \E i \in 1..Len(R(q)'.main.steps) :
                 todo'[q] = SubSeq(R(q)'.main.steps, i, Len(R(q)'.main.steps))
    <3>1. cur'[q] = cur[q] /\ cur[q] # 0 /\ cur[q] \in DOMAIN runs
      BY <1>3, <1>5, <2>2
    <3>2. R(q)'.main = R(q).main
      BY <1>2, <3>1 DEF R
    <3>3. \E i \in 1..Len(R(q).main.steps) :
            todo'[q] = SubSeq(R(q).main.steps, i, Len(R(q).main.steps))
      <4>1. CASE q = p
        BY <1>3, <1>6, <2>2, <4>1
      <4>2. CASE q # p
        BY <1>3, <3>1, <4>2 DEF InOrder
      <4> QED BY <4>1, <4>2
    <3> QED BY <3>2, <3>3
  <2> QED BY <2>1, <2>2 DEF InOrder
<1>13. ASSUME NEW n \in DOMAIN runs PROVE BesideOK(n)'
  <2>1. BesideOK(n)
    OBVIOUS
  <2>2. runs'[n].with = runs[n].with /\ runs'[n].since = runs[n].since
    BY <1>2
  <2>3. /\ runs'[n].with \subseteq DOMAIN runs' \ {n}
        /\ \A m \in runs'[n].with : n \in runs'[m].with
    BY <1>1, <1>2, <2>1, <2>2 DEF BesideOK
  <2>4. \A m \in Running' : m < n => m \in runs'[n].with
    BY <1>8, <2>1, <2>2 DEF BesideOK
  <2>5. runs'[n].since <= runs'[n].until /\ runs'[n].until <= events'
    <3>1. /\ runs[n].since <= runs[n].until /\ runs[n].until <= events
          /\ runs[n].since \in Nat /\ runs[n].until \in Nat /\ events \in Nat
      BY <2>1, Types DEF BesideOK, Run, TypeOK
    <3>2. CASE n = cur[p]
      <4>1. r.since = runs[n].since /\ r.until \in {runs[n].until, events'}
        BY <3>2 DEF Moves, R
      <4> QED BY <1>1, <3>1, <3>2, <4>1
    <3>3. CASE n # cur[p]
      BY <1>1, <3>1, <3>3
    <3> QED BY <3>2, <3>3
  <2> QED BY <2>3, <2>4, <2>5 DEF BesideOK
<1> QED BY <1>11, <1>12, <1>13

-----------------------------------------------------------------------------
(* What a step of a shell does to the data of its run, and to the files. *)

Authentic(r) ==
  r.message.kind = "message" /\ r.message.pair = r.pair.id /\ r.message.aad = r.flags.aad

Possible(r, h) ==
  /\ h = "GetPCRMap" => r.flags.pcrs \in PCRValue
  /\ h = "NewKey" => ParentPass(r) = device.auth
  /\ h = "ReadMessage" => file[r.flags.message] # NoFile
  /\ h = "ReadKeys" => file[r.flags.key].kind = "keys"
  /\ h = "Seal" => Usable(r) /\ Fits(r, r.flags.text)
  /\ h = "Open" => Authentic(r) /\ Usable(r) /\ Fits(r, r.message.text)

NewPair(r, n) ==
  [kind |-> "keys", len |-> KeyFileLength, id |-> n, seed |-> device.seed,
   session |-> r.main.session, pcrs |-> PCRs(r), auth |-> KeyPass(r)]
SealedText(r) ==
  [kind |-> "message", len |-> r.flags.text.len, pair |-> r.pair.id, aad |-> r.flags.aad,
   text |-> r.flags.text]

\* The results of a step h that run n, which was q, has taken well.
Result(q, h, n, r) ==
  /\ r.pair = IF h = "NewKey" THEN NewPair(q, n) ELSE
              IF h = "ReadKeys" THEN file[q.flags.key] ELSE q.pair
  /\ r.message = IF h = "ReadMessage" THEN file[q.flags.message] ELSE
                 IF h = "Seal" THEN SealedText(q) ELSE q.message
  /\ r.printed = IF h = "Open" THEN q.message.text ELSE q.printed

Written(q, h) ==
  file' = IF h = "Truncate" THEN [file EXCEPT ![Target(q)] = EmptyFile] ELSE
          IF h = "Write"
            THEN [file EXCEPT ![Target(q)] =
                    IF @.len > Output(q).len THEN Torn(@.len) ELSE Output(q)]
            ELSE file

Well(p, r) ==
  /\ r.exit \in {"running", "ok"} /\ events' = events
  /\ Possible(R(p), Head(todo[p])) /\ Result(R(p), Head(todo[p]), cur[p], r)
  /\ Written(R(p), Head(todo[p]))

Wrong(p, r) ==
  /\ r.pair = R(p).pair /\ r.message = R(p).message /\ r.printed = R(p).printed
  /\ \/ r.exit \in {"error", "killed"}
     \/ /\ r.exit = "panic" /\ Head(todo[p]) # "Write"
        /\ \/ events' = events + 1 \/ Head(todo[p]) = "Seal"
           \/ Head(todo[p]) = "Open" /\ R(p).message = EmptyFile
  /\ \/ events' = events + 1
     \/ events' = events /\ ~Possible(R(p), Head(todo[p]))
  /\ \/ file' = file
     \/ /\ Head(todo[p]) = "Write" /\ r.exit = "error"
        /\ file' = [file EXCEPT ![Target(R(p))] = Torn(IF @.len > 1 THEN @.len ELSE 1)]

\* What it is, whether it goes well or not.
Takes(p, r) ==
  /\ r.main = R(p).main /\ r.flags = R(p).flags
  /\ r.with = R(p).with /\ r.since = R(p).since
  /\ runs' = [runs EXCEPT ![cur[p]] = r]
  /\ \/ /\ r.exit = "running" /\ r.until = R(p).until /\ Len(todo[p]) # 1
        /\ UNCHANGED cur /\ todo' = [todo EXCEPT ![p] = Tail(@)]
     \/ /\ r.exit # "running" /\ r.until = events'
        /\ cur' = [cur EXCEPT ![p] = 0] /\ todo' = [todo EXCEPT ![p] = <<>>]
  /\ r.exit = "ok" => Len(todo[p]) = 1
  /\ device' = device

\* Where a run is that has not ended.
LEMMA Behind ==
  ASSUME TypeOK, InOrder, NEW p \in Process, cur[p] # 0
  PROVE  /\ R(p).exit = "running"
         /\ \A x : Pending(cur[p], x) <=> Ahead(p, x)
         /\ \A x : Passed(cur[p], x) <=> ~Ahead(p, x)
         /\ \A x \in StepName : Rank[x] < Rank[Head(todo[p])] => ~Ahead(p, x)
         /\ Ahead(p, Head(todo[p]))
<1>1. R(p).exit = "running"
  <2>1. cur[p] \in Running /\ cur[p] \in DOMAIN runs
    BY Types DEF Running
  <2> QED BY <2>1 DEF TypeOK, R
<1>2. \A x : Pending(cur[p], x) <=> Ahead(p, x)
  <2>1. \A q \in Process : cur[q] = cur[p] => q = p
    BY DEF InOrder
  <2> QED BY <2>1 DEF Pending
<1>3. \A x : Passed(cur[p], x) <=> ~Ahead(p, x)
  BY <1>1, <1>2 DEF Passed, R
<1> DEFINE h == Head(todo[p])
<1>4. /\ h \in StepsOf(R(p)) /\ StepsOf(R(p)) \subseteq StepName
      /\ \A x : Ahead(p, x) <=> x \in StepsOf(R(p)) /\ Rank[h] <= Rank[x]
  BY Place
<1> HIDE DEF h
<1>5. \A x \in StepName : Rank[x] \in Nat
  BY DEF Rank, StepName
<1>6. \A a, b \in Nat : a < b => ~(b <= a)
  OBVIOUS
<1>7. ASSUME NEW x \in StepName, Rank[x] < Rank[h] PROVE ~Ahead(p, x)
  <2>1. Rank[x] \in Nat /\ Rank[h] \in Nat
    BY <1>4, <1>5
  <2>2. ~(Rank[h] <= Rank[x])
    BY <1>6, <1>7, <2>1, Zenon
  <2> QED BY <1>4, <2>2
<1>8. Rank[h] <= Rank[h]
  BY <1>4, <1>5
<1>9. Ahead(p, h)
  BY <1>4, <1>8
<1> QED BY <1>1, <1>2, <1>3, <1>7, <1>9 DEF h

\* What a run that has come so far has got hold of.
LEMMA SoFar ==
  ASSUME TypeOK, InOrder, NEW p \in Process, cur[p] # 0, RunOK(cur[p]), NEW h, h = Head(todo[p])
  PROVE  /\ h \in StepName
         /\ h \in {"NewAESCTRHMAC", "Seal", "Truncate", "Write", "Open"} =>
              R(p).pair # NoPair /\ R(p).pair \in KeyFile
         /\ h # "GetPCRMap" => PCRs(R(p)) \in PCRValue \union {"any"}
<1>1. h \in StepName /\ R(p) \in Run
  BY Place
<1>2. \A x \in StepName : Rank[x] < Rank[h] => Passed(cur[p], x)
  BY Behind
<1>3. h \in {"NewAESCTRHMAC", "Seal", "Truncate", "Write", "Open"} =>
        Rank["NewKey"] < Rank[h] /\ Rank["ReadKeys"] < Rank[h]
  BY DEF Rank
<1>4. h # "GetPCRMap" => Rank["GetPCRMap"] < Rank[h]
  BY <1>1 DEF Rank, StepName
<1>5. {"NewKey", "ReadKeys", "GetPCRMap"} \subseteq StepName
  BY DEF StepName
<1>6. ASSUME h \in {"NewAESCTRHMAC", "Seal", "Truncate", "Write", "Open"}
      PROVE  R(p).pair # NoPair /\ R(p).pair \in KeyFile
  <2>1. Passed(cur[p], "NewKey") /\ Passed(cur[p], "ReadKeys")
    BY <1>2, <1>3, <1>5, <1>6
  <2>2. R(p).pair # NoPair
    BY <2>1 DEF RunOK, PairOK, R
  <2> QED BY <1>1, <2>2 DEF Run
<1>7. ASSUME h # "GetPCRMap" PROVE PCRs(R(p)) \in PCRValue \union {"any"}
  <2>1. Passed(cur[p], "GetPCRMap")
    BY <1>2, <1>4, <1>5, <1>7
  <2> QED BY <2>1 DEF RunOK, PrintedOK, PCRs, R
<1> QED BY <1>1, <1>6, <1>7

\* Ends and Tries, for a run that has these results.
SameData(r, q) == r.pair = q.pair /\ r.message = q.message /\ r.printed = q.printed

LEMMA EndsOne ==
  ASSUME TypeOK, NEW p \in Process, cur[p] # 0, NEW q \in Run, events' \in Nat,
         q.main = R(p).main, q.flags = R(p).flags, q.with = R(p).with, q.since = R(p).since,
         NEW how \in {"ok", "error", "panic", "killed"}, how = "ok" => Len(todo[p]) = 1,
         Ends(p, q, how), device' = device
  PROVE  \E r \in Run : Takes(p, r) /\ r.exit = how /\ SameData(r, q)
<1> DEFINE r == [q EXCEPT !.exit = how, !.until = events']
<1>1. r \in Run
  BY DEF Run
<1>2. /\ r.main = q.main /\ r.flags = q.flags /\ r.with = q.with /\ r.since = q.since
      /\ r.exit = how /\ r.until = events' /\ SameData(r, q)
  BY DEF Run, SameData
<1>3. /\ runs' = [runs EXCEPT ![cur[p]] = r] /\ cur' = [cur EXCEPT ![p] = 0]
      /\ todo' = [todo EXCEPT ![p] = <<>>]
  BY DEF Ends
<1> HIDE DEF r
<1>4. Takes(p, r)
  BY <1>2, <1>3 DEF Takes
<1> QED BY <1>1, <1>2, <1>4

LEMMA TriesOne ==
  ASSUME TypeOK, InOrder, NEW p \in Process, cur[p] # 0, NEW possible, NEW q,
         NEW how \in {"error", "panic"}, Tries(p, possible, q, how),
         possible => /\ q \in Run /\ q.main = R(p).main /\ q.flags = R(p).flags /\ q.with = R(p).with
                     /\ q.since = R(p).since /\ q.exit = "running" /\ q.until = R(p).until
  PROVE  /\ events' = events /\ device' = device
         /\ possible =>
              \E r \in Run : Takes(p, r) /\ r.exit \in {"running", "ok"} /\ SameData(r, q)
         /\ ~possible =>
              \E r \in Run : Takes(p, r) /\ r.exit = how /\ SameData(r, R(p))
<1>1. events' = events /\ device' = device /\ events' \in Nat
  BY DEF Tries, TypeOK
<1>2. R(p) \in Run
  BY Types DEF R
<1>3. ASSUME ~possible
      PROVE  \E r \in Run : Takes(p, r) /\ r.exit = how /\ SameData(r, R(p))
  <2>1. Ends(p, R(p), how)
    BY <1>3 DEF Tries
  <2> QED BY <1>1, <1>2, <2>1, EndsOne
<1>4. ASSUME possible
      PROVE  \E r \in Run : Takes(p, r) /\ r.exit \in {"running", "ok"} /\ SameData(r, q)
  <2>1. Goes(p, q)
    BY <1>4 DEF Tries
  <2>2. CASE Len(todo[p]) = 1
    <3>1. Ends(p, q, "ok")
      BY <2>1, <2>2 DEF Goes
    <3>2. \E r \in Run : Takes(p, r) /\ r.exit = "ok" /\ SameData(r, q)
      BY <1>1, <1>4, <2>2, <3>1, EndsOne
    <3> QED BY <3>2
  <2>3. CASE Len(todo[p]) # 1
    <3>1. /\ runs' = [runs EXCEPT ![cur[p]] = q] /\ todo' = [todo EXCEPT ![p] = Tail(@)]
          /\ cur' = cur
      BY <2>1, <2>3 DEF Goes
    <3>2. Takes(p, q)
      BY <1>1, <1>4, <2>3, <3>1 DEF Takes
    <3> QED BY <1>4, <3>2 DEF SameData
  <2> QED BY <2>2, <2>3
<1> QED BY <1>1, <1>3, <1>4

LEMMA ContentFacts ==
  /\ {NoFile, EmptyFile} \subseteq Content /\ KeyFile \subseteq Content /\ MessageFile \subseteq Content
  /\ \A l \in Nat : Torn(l) \in Content /\ Torn(l).kind = "torn"
  /\ \A c \in Content :
       /\ c.len \in Nat
       /\ c.kind = "keys" => c \in KeyFile
       /\ c.kind = "message" => c \in MessageFile
       /\ c.kind = "empty" => c = EmptyFile
       /\ c.kind = "none" => c = NoFile
  /\ EmptyFile.kind = "empty" /\ NoFile.kind = "none" /\ NoPair.kind = "nopair"
  /\ \A c \in KeyFile : c.kind = "keys"
  /\ \A c \in MessageFile : c.kind = "message"
<1>1. \A c \in KeyFile : c.kind = "keys" /\ c.len \in Nat
  BY DEF KeyFile
<1>2. \A c \in MessageFile : c.kind = "message" /\ c.len \in Nat
  BY DEF MessageFile
<1>3. \A c \in [kind : {"torn"}, len : Nat] : c.kind = "torn" /\ c.len \in Nat
  OBVIOUS
<1>4. /\ EmptyFile.kind = "empty" /\ EmptyFile.len \in Nat
      /\ NoFile.kind = "none" /\ NoFile.len \in Nat /\ NoPair.kind = "nopair"
  BY DEF EmptyFile, NoFile, NoPair
<1>5. \A l \in Nat : Torn(l) \in [kind : {"torn"}, len : Nat] /\ Torn(l).kind = "torn"
  BY DEF Torn
<1> QED BY <1>1, <1>2, <1>3, <1>4, <1>5 DEF Content

\* The flags, and what becomes of them.
LEMMA FlagFacts ==
  ASSUME NEW r \in Run
  PROVE  /\ {r.flags.key, r.flags.message, Target(r)} \subseteq DOMAIN InitFile
         /\ r.flags.aad \in STRING /\ r.flags.text \in Text /\ r.flags.text.len \in Nat
         /\ ParentPass(r) \in STRING /\ KeyPass(r) \in STRING
<1>1. r.flags \in CommandLine
  BY FlagsAssumption DEF Run
<1>2. NoPassword \in STRING
  BY PasswordAssumption, ValueAssumption
<1>3. /\ {r.flags.key, r.flags.message} \subseteq DOMAIN InitFile
      /\ r.flags.aad \in STRING /\ r.flags.text \in Text
      /\ r.flags.parentPass \in STRING /\ r.flags.keyPass \in STRING
  BY <1>1 DEF CommandLine
<1>4. r.flags.text.len \in Nat
  BY <1>3 DEF Text
<1>5. Target(r) \in {r.flags.key, r.flags.message}
  BY DEF Target
<1>6. ParentPass(r) \in STRING /\ KeyPass(r) \in STRING
  BY <1>2, <1>3 DEF ParentPass, KeyPass
<1> QED BY <1>3, <1>4, <1>5, <1>6

\* What is written into the files is a content.
LEMMA FileTypes ==
  ASSUME TypeOK, InOrder, NEW p \in Process, cur[p] # 0, RunOK(cur[p]),
         \/ file' = file
         \/ file' = [file EXCEPT ![Target(R(p))] = EmptyFile]
         \/ /\ AtStep(p, "Write")
            /\ \/ file' = [file EXCEPT ![Target(R(p))] =
                             IF @.len > Output(R(p)).len THEN Torn(@.len) ELSE Output(R(p))]
               \/ file' = [file EXCEPT ![Target(R(p))] = Torn(IF @.len > 1 THEN @.len ELSE 1)]
  PROVE  file' \in [DOMAIN InitFile -> Content]
<1>1. file \in [DOMAIN InitFile -> Content]
  BY DEF TypeOK
<1>2. R(p) \in Run
  BY Place
<1> DEFINE f == Target(R(p))
<1>3. f \in DOMAIN InitFile
  BY <1>2, FlagFacts
<1>4. file[f] \in Content /\ file[f].len \in Nat
  BY <1>1, <1>3, ContentFacts
<1>5. EmptyFile \in Content /\ Torn(file[f].len) \in Content
      /\ Torn(IF file[f].len > 1 THEN file[f].len ELSE 1) \in Content
  <2>1. (IF file[f].len > 1 THEN file[f].len ELSE 1) \in Nat
    BY <1>4
  <2> QED BY <1>4, <2>1, ContentFacts
<1>6. AtStep(p, "Write") => Output(R(p)) \in Content
  <2> SUFFICES ASSUME AtStep(p, "Write") PROVE Output(R(p)) \in Content
    OBVIOUS
  <2>1. Head(todo[p]) = "Write"
    BY DEF AtStep
  <2>2. R(p).pair \in KeyFile
    BY <2>1, SoFar
  <2>3. R(p).message \in Content
    BY <1>2 DEF Run
  <2> QED BY <2>2, <2>3, ContentFacts DEF Output
<1> QED BY <1>1, <1>3, <1>5, <1>6

\* What its run becomes, but for its end.
Becomes(p, h, q) ==
  /\ q \in Run /\ q.main = R(p).main /\ q.flags = R(p).flags /\ q.with = R(p).with
  /\ q.since = R(p).since /\ q.exit = "running" /\ q.until = R(p).until
  /\ Result(R(p), h, cur[p], q)

MayEnd(p, h, how) ==
  how = "panic" => \/ h \in {"NewAESCTRHMAC", "Seal"}
                   \/ h = "Open" /\ R(p).message = EmptyFile

\* A step that leaves the files alone.
LEMMA QuietStep ==
  ASSUME TypeOK, InOrder, NEW p \in Process, NEW h, AtStep(p, h), h \notin {"Truncate", "Write"},
         UNCHANGED file, NEW q, NEW how \in {"error", "panic"},
         Tries(p, Possible(R(p), h), q, how),
         Possible(R(p), h) => Becomes(p, h, q),
         MayEnd(p, h, how)
  PROVE  /\ cur[p] # 0 /\ events' = events
         /\ \E r \in Run : Takes(p, r) /\ (Well(p, r) \/ Wrong(p, r))
<1>1. cur[p] # 0 /\ h = Head(todo[p])
  BY DEF AtStep
<1>2. /\ events' = events
      /\ Possible(R(p), h) =>
           \E r \in Run : Takes(p, r) /\ r.exit \in {"running", "ok"} /\ SameData(r, q)
      /\ ~Possible(R(p), h) =>
           \E r \in Run : Takes(p, r) /\ r.exit = how /\ SameData(r, R(p))
  BY <1>1, TriesOne DEF Becomes
<1>3. ASSUME Possible(R(p), h) PROVE \E r \in Run : Takes(p, r) /\ Well(p, r)
  <2>1. PICK r \in Run : Takes(p, r) /\ r.exit \in {"running", "ok"} /\ SameData(r, q)
    BY <1>2, <1>3
  <2>2. Result(R(p), h, cur[p], r)
    BY <1>3, <2>1 DEF SameData, Result, Becomes
  <2>3. Written(R(p), h)
    BY DEF Written, AtStep
  <2>4. Well(p, r)
    BY <1>1, <1>2, <1>3, <2>1, <2>2, <2>3 DEF Well
  <2> QED BY <2>1, <2>4
<1>4. ASSUME ~Possible(R(p), h) PROVE \E r \in Run : Takes(p, r) /\ Wrong(p, r)
  <2>1. PICK r \in Run : Takes(p, r) /\ r.exit = how /\ SameData(r, R(p))
    BY <1>2, <1>4
  <2>2. h # "NewAESCTRHMAC"
    BY <1>4 DEF Possible
  <2>3. Wrong(p, r)
    BY <1>1, <1>2, <1>4, <2>1, <2>2 DEF Wrong, SameData, MayEnd
  <2> QED BY <2>1, <2>3
<1> QED BY <1>1, <1>2, <1>3, <1>4

LEMMA StepTakes ==
  ASSUME TypeOK, InOrder, NEW p \in Process, RunOK(cur[p]), Step(p)
  PROVE  /\ cur[p] # 0 /\ events' = events /\ file' \in [DOMAIN InitFile -> Content]
         /\ \E r \in Run : Takes(p, r) /\ (Well(p, r) \/ Wrong(p, r))
<1> DEFINE h == Head(todo[p])
           P == \E r \in Run : Takes(p, r) /\ (Well(p, r) \/ Wrong(p, r))
<1>0. cur[p] # 0
  BY DEF Step, GetPCRMap, NewKey, ReadMessage, ReadKeys, NewAESCTRHMAC, Seal, Open, Truncate, Write,
         AtStep
<1>1. /\ R(p) \in Run /\ cur[p] \in Nat /\ R(p).exit = "running"
      /\ R(p).main \in Mains /\ R(p).main.session \in Session
  BY <1>0, Place, Behind, MainFacts DEF TypeOK
<1>2. /\ {R(p).flags.key, R(p).flags.message} \subseteq DOMAIN InitFile
      /\ R(p).flags.aad \in STRING /\ R(p).flags.text \in Text /\ R(p).flags.text.len \in Nat
      /\ KeyPass(R(p)) \in STRING
  BY <1>1, FlagFacts
<1>3. file[R(p).flags.key] \in Content /\ file[R(p).flags.message] \in Content
  BY <1>2 DEF TypeOK
<1>4. ASSUME GetPCRMap(p) PROVE events' = events /\ file' = file /\ P
  <2>1. /\ AtStep(p, "GetPCRMap") /\ UNCHANGED file
        /\ Tries(p, Possible(R(p), "GetPCRMap"), R(p), "error")
    <3>1. AtStep(p, "GetPCRMap") /\ UNCHANGED file /\ Tries(p, R(p).flags.pcrs \in PCRValue, R(p), "error")
      BY <1>4 DEF GetPCRMap
    <3>2. Possible(R(p), "GetPCRMap") <=> R(p).flags.pcrs \in PCRValue
      BY DEF Possible
    <3> QED BY <3>1, <3>2 DEF Tries
  <2>3. Result(R(p), "GetPCRMap", cur[p], R(p))
    BY DEF Result
  <2>9. Possible(R(p), "GetPCRMap") => Becomes(p, "GetPCRMap", R(p))
    BY <1>1, <2>3 DEF Becomes
  <2>10. MayEnd(p, "GetPCRMap", "error")
    BY DEF MayEnd
  <2> QED BY <2>1, <2>9, <2>10, QuietStep
<1>5. ASSUME NewKey(p) PROVE events' = events /\ file' = file /\ P
  <2> DEFINE q == [R(p) EXCEPT !.pair = NewPair(R(p), cur[p])]
  <2>1. /\ AtStep(p, "NewKey") /\ UNCHANGED file
        /\ Tries(p, Possible(R(p), "NewKey"), q, "error")
    BY <1>5 DEF NewKey, NewPair, Possible
  <2>3. PCRs(R(p)) \in PCRValue \union {"any"}
    BY <1>0, <2>1, SoFar DEF AtStep
  <2>4. NewPair(R(p), cur[p]) \in KeyFile
    BY <1>1, <1>2, <2>3 DEF NewPair, KeyFile, KeyFileLength, TypeOK, Device
  <2>5. /\ q \in Run /\ q.main = R(p).main /\ q.flags = R(p).flags /\ q.with = R(p).with
        /\ q.since = R(p).since /\ q.exit = "running" /\ q.until = R(p).until
    BY <1>1, <2>4 DEF Run
  <2>6. Result(R(p), "NewKey", cur[p], q)
    BY <1>1 DEF Result, Run
  <2>9. Possible(R(p), "NewKey") => Becomes(p, "NewKey", q)
    BY <1>1, <2>3, <2>4, <2>5, <2>6 DEF Becomes
  <2>10. MayEnd(p, "NewKey", "error")
    BY DEF MayEnd
  <2> HIDE DEF q
  <2> QED BY <2>1, <2>9, <2>10, QuietStep
<1>6. ASSUME ReadMessage(p) PROVE events' = events /\ file' = file /\ P
  <2> DEFINE q == [R(p) EXCEPT !.message = file[R(p).flags.message]]
  <2>1. /\ AtStep(p, "ReadMessage") /\ UNCHANGED file
        /\ Tries(p, Possible(R(p), "ReadMessage"), q, "error")
    BY <1>6 DEF ReadMessage, Possible
  <2>5. /\ q \in Run /\ q.main = R(p).main /\ q.flags = R(p).flags /\ q.with = R(p).with
        /\ q.since = R(p).since /\ q.exit = "running" /\ q.until = R(p).until
    BY <1>1, <1>3 DEF Run
  <2>6. Result(R(p), "ReadMessage", cur[p], q)
    BY <1>1 DEF Result, Run
  <2>9. Possible(R(p), "ReadMessage") => Becomes(p, "ReadMessage", q)
    BY <1>1, <2>5, <2>6 DEF Becomes
  <2>10. MayEnd(p, "ReadMessage", "error")
    BY DEF MayEnd
  <2> HIDE DEF q
  <2> QED BY <2>1, <2>9, <2>10, QuietStep
<1>7. ASSUME ReadKeys(p) PROVE events' = events /\ file' = file /\ P
  <2> DEFINE q == [R(p) EXCEPT !.pair = file[R(p).flags.key]]
  <2>1. /\ AtStep(p, "ReadKeys") /\ UNCHANGED file
        /\ Tries(p, Possible(R(p), "ReadKeys"), q, "error")
    BY <1>7 DEF ReadKeys, Possible
  <2>3. file[R(p).flags.key].kind = "keys" => file[R(p).flags.key] \in KeyFile
    BY <1>3, ContentFacts
  <2>4. Possible(R(p), "ReadKeys") => q \in Run
    BY <1>1, <2>3 DEF Run, Possible
  <2>5. /\ q.main = R(p).main /\ q.flags = R(p).flags /\ q.with = R(p).with
        /\ q.since = R(p).since /\ q.exit = "running" /\ q.until = R(p).until
    BY <1>1 DEF Run
  <2>6. Result(R(p), "ReadKeys", cur[p], q)
    BY <1>1 DEF Result, Run
  <2>9. Possible(R(p), "ReadKeys") => Becomes(p, "ReadKeys", q)
    BY <1>1, <2>3, <2>4, <2>5, <2>6 DEF Becomes
  <2>10. MayEnd(p, "ReadKeys", "error")
    BY DEF MayEnd
  <2> HIDE DEF q
  <2> QED BY <2>1, <2>9, <2>10, QuietStep
<1>8. ASSUME NewAESCTRHMAC(p) PROVE events' = events /\ file' = file /\ P
  <2>1. /\ AtStep(p, "NewAESCTRHMAC") /\ UNCHANGED file
        /\ Tries(p, Possible(R(p), "NewAESCTRHMAC"), R(p), R(p).main.onError)
    <3>1. AtStep(p, "NewAESCTRHMAC") /\ UNCHANGED file /\ Tries(p, TRUE, R(p), R(p).main.onError)
      BY <1>8 DEF NewAESCTRHMAC
    <3>2. Possible(R(p), "NewAESCTRHMAC") <=> TRUE
      BY DEF Possible
    <3> QED BY <3>1, <3>2 DEF Tries
  <2>3. Result(R(p), "NewAESCTRHMAC", cur[p], R(p))
    BY DEF Result
  <2>4. R(p).main.onError \in {"error", "panic"}
    BY <1>1, MainFacts
  <2>5. Becomes(p, "NewAESCTRHMAC", R(p))
    BY <1>1, <2>3 DEF Becomes
  <2>6. PICK how \in {"error", "panic"} : how = R(p).main.onError
    BY <2>4
  <2>10. MayEnd(p, "NewAESCTRHMAC", how)
    BY DEF MayEnd
  <2> QED BY <2>1, <2>5, <2>6, <2>10, QuietStep
<1>9. ASSUME Seal(p) PROVE events' = events /\ file' = file /\ P
  <2> DEFINE q == [R(p) EXCEPT !.message = SealedText(R(p))]
  <2>1. /\ AtStep(p, "Seal") /\ UNCHANGED file
        /\ Tries(p, Possible(R(p), "Seal"), q, "panic")
    <3>1. AtStep(p, "Seal") /\ UNCHANGED file /\ Tries(p, Usable(R(p)) /\ Fits(R(p), R(p).flags.text), q, "panic")
      BY <1>9 DEF Seal, SealedText
    <3>2. Possible(R(p), "Seal") <=> Usable(R(p)) /\ Fits(R(p), R(p).flags.text)
      BY DEF Possible
    <3> QED BY <3>1, <3>2 DEF Tries
  <2>3. R(p).pair \in KeyFile
    BY <1>0, <2>1, SoFar DEF AtStep
  <2>4. SealedText(R(p)) \in MessageFile
    BY <1>2, <2>3 DEF SealedText, MessageFile, KeyFile
  <2>5. SealedText(R(p)) \in Content
    BY <2>4, ContentFacts
  <2>6. /\ q \in Run /\ q.main = R(p).main /\ q.flags = R(p).flags /\ q.with = R(p).with
        /\ q.since = R(p).since /\ q.exit = "running" /\ q.until = R(p).until
    BY <1>1, <2>5 DEF Run
  <2>7. Result(R(p), "Seal", cur[p], q)
    BY <1>1 DEF Result, Run
  <2>9. Possible(R(p), "Seal") => Becomes(p, "Seal", q)
    BY <1>1, <2>3, <2>4, <2>5, <2>6, <2>7 DEF Becomes
  <2>10. MayEnd(p, "Seal", "panic")
    BY DEF MayEnd
  <2> HIDE DEF q
  <2> QED BY <2>1, <2>9, <2>10, QuietStep
<1>10. ASSUME Open(p) PROVE events' = events /\ file' = file /\ P
  <2> DEFINE q == [R(p) EXCEPT !.printed = R(p).message.text]
             how == IF R(p).message = EmptyFile THEN "panic" ELSE "error"
  <2>1. /\ AtStep(p, "Open") /\ UNCHANGED file
        /\ Tries(p, Possible(R(p), "Open"), q, how)
    BY <1>10 DEF Open, Authentic, Possible
  <2>3. Authentic(R(p)) => R(p).message.text \in Text
    <3>1. R(p).message \in Content
      BY <1>1 DEF Run
    <3>2. Authentic(R(p)) => R(p).message \in MessageFile
      BY <3>1, ContentFacts DEF Authentic
    <3> QED BY <3>2 DEF MessageFile
  <2>4. Possible(R(p), "Open") => q \in Run
    BY <1>1, <2>3 DEF Run, Possible
  <2>5. /\ q.main = R(p).main /\ q.flags = R(p).flags /\ q.with = R(p).with
        /\ q.since = R(p).since /\ q.exit = "running" /\ q.until = R(p).until
    BY <1>1 DEF Run
  <2>6. Result(R(p), "Open", cur[p], q)
    BY <1>1 DEF Result, Run
  <2>7. how \in {"error", "panic"} /\ (how = "panic" => R(p).message = EmptyFile)
    OBVIOUS
  <2>9. Possible(R(p), "Open") => Becomes(p, "Open", q)
    BY <1>1, <2>3, <2>4, <2>5, <2>6, <2>7 DEF Becomes
  <2>10. MayEnd(p, "Open", how)
    BY <2>7 DEF MayEnd
  <2> HIDE DEF q, how
  <2> QED BY <2>1, <2>9, <2>10, <2>7, QuietStep
<1>11. ASSUME NEW x \in {"Truncate", "Write"}, AtStep(p, x), Tries(p, TRUE, R(p), "error"),
              Written(R(p), x)
       PROVE  events' = events /\ P
  <2>1. x = h
    BY <1>11 DEF AtStep
  <2>2. /\ events' = events
        /\ \E r \in Run : Takes(p, r) /\ r.exit \in {"running", "ok"} /\ SameData(r, R(p))
    <3>1. TRUE => /\ R(p) \in Run /\ R(p).main = R(p).main /\ R(p).flags = R(p).flags
                  /\ R(p).with = R(p).with /\ R(p).since = R(p).since /\ R(p).exit = "running"
                  /\ R(p).until = R(p).until
      BY <1>1
    <3> QED BY <1>0, <1>11, <3>1, TriesOne
  <2>3. PICK r \in Run : Takes(p, r) /\ r.exit \in {"running", "ok"} /\ SameData(r, R(p))
    BY <2>2
  <2>4. Result(R(p), x, cur[p], r) /\ Possible(R(p), x)
    BY <1>11, <2>3 DEF Result, SameData, Possible
  <2>5. Well(p, r)
    BY <1>11, <2>1, <2>2, <2>3, <2>4 DEF Well
  <2> QED BY <2>2, <2>3, <2>5
<1>12. ASSUME Truncate(p) PROVE events' = events /\ P /\ file' \in [DOMAIN InitFile -> Content]
  <2>1. /\ AtStep(p, "Truncate") /\ Tries(p, TRUE, R(p), "error")
        /\ file' = [file EXCEPT ![Target(R(p))] = EmptyFile]
    BY <1>12 DEF Truncate
  <2>2. Written(R(p), "Truncate")
    BY <2>1 DEF Written
  <2>3. file' \in [DOMAIN InitFile -> Content]
    BY <1>0, <2>1, FileTypes
  <2>4. events' = events /\ P
    BY <1>11, <2>1, <2>2
  <2> QED BY <2>3, <2>4
<1>13. ASSUME Write(p) PROVE events' = events /\ P /\ file' \in [DOMAIN InitFile -> Content]
  <2>1. /\ AtStep(p, "Write") /\ Tries(p, TRUE, R(p), "error")
        /\ file' = [file EXCEPT ![Target(R(p))] =
                      IF @.len > Output(R(p)).len THEN Torn(@.len) ELSE Output(R(p))]
    BY <1>13 DEF Write
  <2>2. Written(R(p), "Write")
    BY <2>1 DEF Written
  <2>3. file' \in [DOMAIN InitFile -> Content]
    BY <1>0, <2>1, FileTypes
  <2>4. events' = events /\ P
    BY <1>11, <2>1, <2>2
  <2> QED BY <2>3, <2>4
<1>14. file' = file => file' \in [DOMAIN InitFile -> Content]
  BY DEF TypeOK
<1> HIDE DEF P
<1>15. events' = events /\ P /\ file' \in [DOMAIN InitFile -> Content]
  BY <1>4, <1>5, <1>6, <1>7, <1>8, <1>9, <1>10, <1>12, <1>13, <1>14 DEF Step
<1> QED BY <1>0, <1>15 DEF P

\* A run ends with an event.
LEMMA EventTakes ==
  ASSUME TypeOK, InOrder, NEW p \in Process, RunOK(cur[p]),
         LibraryFails(p) \/ WriteFails(p) \/ Kill(p)
  PROVE  /\ cur[p] # 0 /\ events' = events + 1 /\ file' \in [DOMAIN InitFile -> Content]
         /\ \E r \in Run : Takes(p, r) /\ Wrong(p, r)
<1> DEFINE h == Head(todo[p])
<1>0. /\ cur[p] # 0 /\ events' = events + 1 /\ device' = device /\ events \in Nat
  BY DEF LibraryFails, WriteFails, Kill, Happens, AtStep, TypeOK
<1>1. R(p) \in Run /\ R(p).main \in Mains
  BY <1>0, Place
<1>2. file \in [DOMAIN InitFile -> Content]
  BY DEF TypeOK
<1>3. ASSUME NEW how \in {"error", "panic", "killed"}, Ends(p, R(p), how)
      PROVE  \E r \in Run : Takes(p, r) /\ r.exit = how /\ SameData(r, R(p))
  BY <1>0, <1>1, <1>3, EndsOne
<1>4. CASE Kill(p)
  <2>1. Ends(p, R(p), "killed") /\ file' = file
    BY <1>4 DEF Kill
  <2>2. PICK r \in Run : Takes(p, r) /\ r.exit = "killed" /\ SameData(r, R(p))
    BY <1>3, <2>1
  <2>3. Wrong(p, r)
    BY <1>0, <2>1, <2>2 DEF Wrong, SameData
  <2> QED BY <1>0, <1>2, <2>1, <2>2, <2>3
<1>5. CASE WriteFails(p)
  <2>1. /\ AtStep(p, "Write") /\ Ends(p, R(p), "error")
        /\ \/ file' = file
           \/ file' = [file EXCEPT ![Target(R(p))] = Torn(IF @.len > 1 THEN @.len ELSE 1)]
    BY <1>5 DEF WriteFails
  <2>2. PICK r \in Run : Takes(p, r) /\ r.exit = "error" /\ SameData(r, R(p))
    BY <1>3, <2>1
  <2>3. Wrong(p, r)
    BY <1>0, <2>1, <2>2 DEF Wrong, SameData, AtStep
  <2>4. file' \in [DOMAIN InitFile -> Content]
    BY <1>0, <2>1, FileTypes
  <2> QED BY <1>0, <2>2, <2>3, <2>4
<1>6. CASE LibraryFails(p)
  <2> DEFINE how == [NewKey |-> "error", NewAESCTRHMAC |-> R(p).main.onError, Seal |-> "panic",
                     Open |-> "error"][h]
  <2>1. /\ h \in {"NewKey", "NewAESCTRHMAC", "Seal", "Open"} /\ file' = file
        /\ Ends(p, R(p), how)
    BY <1>6 DEF LibraryFails
  <2>2. R(p).main.onError \in {"error", "panic"}
    BY <1>1, MainFacts
  <2>3. how \in {"error", "panic"}
    BY <2>1, <2>2
  <2> HIDE DEF how
  <2>4. PICK r \in Run : Takes(p, r) /\ r.exit = how /\ SameData(r, R(p))
    BY <1>3, <2>1, <2>3
  <2>5. Wrong(p, r)
    BY <1>0, <2>1, <2>3, <2>4 DEF Wrong, SameData
  <2> QED BY <1>0, <1>2, <2>1, <2>4, <2>5
<1> QED BY <1>4, <1>5, <1>6

ShellStep(p) == Step(p) \/ LibraryFails(p) \/ WriteFails(p) \/ Kill(p)

\* Every step of a shell takes a run further, or ends it.
LEMMA ShellTakes ==
  ASSUME TypeOK, InOrder, \A n \in DOMAIN runs : RunOK(n), NEW p \in Process, ShellStep(p)
  PROVE  /\ cur[p] # 0 /\ cur[p] \in DOMAIN runs /\ events' \in Nat /\ device' = device
         /\ events' = events \/ events' = events + 1
         /\ file' \in [DOMAIN InitFile -> Content]
         /\ \E r \in Run : Moves(p, r) /\ (Well(p, r) \/ Wrong(p, r))
<1>1. cur[p] # 0
  BY DEF ShellStep, Step, GetPCRMap, NewKey, ReadMessage, ReadKeys, NewAESCTRHMAC, Seal, Open,
         Truncate, Write, AtStep, LibraryFails, WriteFails, Kill
<1>2. cur[p] \in DOMAIN runs /\ RunOK(cur[p])
  BY <1>1, Types
<1>3. /\ events' = events \/ events' = events + 1
      /\ file' \in [DOMAIN InitFile -> Content]
      /\ \E r \in Run : Takes(p, r) /\ (Well(p, r) \/ Wrong(p, r))
  BY <1>2, StepTakes, EventTakes DEF ShellStep
<1>4. PICK r \in Run : Takes(p, r) /\ (Well(p, r) \/ Wrong(p, r))
  BY <1>3
<1>5. Moves(p, r) /\ device' = device
  BY <1>1, <1>4 DEF Takes, Moves
<1>6. events' \in Nat
  BY <1>3 DEF TypeOK
<1> QED BY <1>1, <1>2, <1>3, <1>4, <1>5, <1>6

-----------------------------------------------------------------------------
(* What another step leaves of a run. *)

\* Nothing is changed of run n, but that others start beside it.
Stays(n) ==
  /\ runs'[n].main = runs[n].main /\ runs'[n].flags = runs[n].flags
  /\ runs'[n].since = runs[n].since /\ runs'[n].until = runs[n].until
  /\ runs'[n].exit = runs[n].exit /\ runs'[n].pair = runs[n].pair
  /\ runs'[n].message = runs[n].message /\ runs'[n].printed = runs[n].printed
  /\ runs[n].with \subseteq runs'[n].with
  /\ \A s : Pending(n, s)' <=> Pending(n, s)
  /\ AtWrite(n)' <=> AtWrite(n)

\* How a run that has ended did so stays.
Kept ==
  /\ DOMAIN runs \subseteq DOMAIN runs'
  /\ \A k \in DOMAIN runs :
       /\ runs'[k].main = runs[k].main /\ runs'[k].flags = runs[k].flags
       /\ runs[k].with \subseteq runs'[k].with
       /\ runs[k].exit # "running" => runs'[k].exit = runs[k].exit
OriginKept == \A c : Origin(c) => Origin(c)'

\* What may change the device counts as an event.
Counted ==
  \/ device' = device /\ events' = events
  \/ events' = events + 1

LEMMA SameKind ==
  ASSUME NEW r, NEW q, q.main = r.main, q.flags = r.flags
  PROVE  /\ Writes(q) = Writes(r) /\ MakesKeys(q) = MakesKeys(r) /\ Target(q) = Target(r)
         /\ Decrypts(q) = Decrypts(r) /\ Encrypts(q) = Encrypts(r)
         /\ ParentPass(q) = ParentPass(r) /\ KeyPass(q) = KeyPass(r) /\ PCRs(q) = PCRs(r)
         /\ StepsOf(q) = StepsOf(r)
<1>1. Writes(q) = Writes(r) /\ MakesKeys(q) = MakesKeys(r)
  BY DEF Writes, MakesKeys
<1>2. Target(q) = Target(r) /\ Decrypts(q) = Decrypts(r) /\ Encrypts(q) = Encrypts(r)
  BY <1>1 DEF Target, Decrypts, Encrypts
<1>3. ParentPass(q) = ParentPass(r) /\ KeyPass(q) = KeyPass(r) /\ PCRs(q) = PCRs(r)
  BY DEF ParentPass, KeyPass, PCRs
<1>4. StepsOf(q) = StepsOf(r)
  BY <1>1, <1>2 DEF StepsOf, First, AtLast
<1> QED BY <1>1, <1>2, <1>3, <1>4

\* What holds of it goes on holding.
LEMMA RunStays ==
  ASSUME TypeOK, NEW n \in DOMAIN runs, RunOK(n), Stays(n), Kept, OriginKept, Counted,
         BesideOK(n)'
  PROVE  RunOK(n)'
<1> DEFINE r == runs[n]
           q == runs'[n]
<1>0. events \in Nat /\ r.since \in Nat /\ r.since <= events
  <2>1. r \in Run /\ events \in Nat /\ r.since <= r.until /\ r.until <= events
    BY Types DEF RunOK, BesideOK, TypeOK
  <2> QED BY <2>1 DEF Run
<1>1. r.since = events' => device' = device /\ events' = events
  BY <1>0 DEF Counted
<1>2. /\ q.main = r.main /\ q.flags = r.flags /\ q.since = r.since /\ q.until = r.until
      /\ q.exit = r.exit /\ q.pair = r.pair /\ q.message = r.message /\ q.printed = r.printed
      /\ r.with \subseteq q.with
  BY DEF Stays
<1>3. \A s : (Pending(n, s)' <=> Pending(n, s)) /\ (Passed(n, s)' <=> Passed(n, s))
  BY DEF Stays, Passed
<1>4. /\ Writes(q) = Writes(r) /\ MakesKeys(q) = MakesKeys(r) /\ Target(q) = Target(r)
      /\ Decrypts(q) = Decrypts(r) /\ Encrypts(q) = Encrypts(r)
      /\ ParentPass(q) = ParentPass(r) /\ KeyPass(q) = KeyPass(r) /\ PCRs(q) = PCRs(r)
  BY <1>2, SameKind
<1>5. PairOK(n)'
  <2>1. PairOK(n)
    BY DEF RunOK
  <2> HIDE DEF r, q
  <2> QED BY <1>1, <1>2, <1>3, <1>4, <2>1 DEF PairOK, r, q
<1>6. PrintedOK(n)'
  <2>1. PrintedOK(n)
    BY DEF RunOK
  <2> QED BY <1>2, <1>3, <1>4, <2>1 DEF PrintedOK
<1>7. ASSUME Encrypts(q) PROVE SealedOK(n)'
  <2>1. SealedOK(n)
    BY <1>4, <1>7 DEF RunOK
  <2>2. device' = device => (Usable(runs[n])' <=> Usable(runs[n]))
    BY <1>2, <1>4 DEF Usable
  <2>3. Fits(runs[n], runs[n].flags.text)' <=> Fits(runs[n], runs[n].flags.text)
    BY <1>2, <1>4 DEF Fits
  <2> QED BY <1>1, <1>2, <1>3, <2>1, <2>2, <2>3 DEF SealedOK
<1>8. ASSUME Decrypts(q) PROVE ReadOK(n)'
  <2>1. ReadOK(n)
    BY <1>4, <1>8 DEF RunOK
  <2>2. Origin(runs[n].message)'
    <3>1. PICK c : c = r.message
      OBVIOUS
    <3>2. Origin(c)
      BY <2>1, <3>1 DEF ReadOK
    <3>3. Origin(c)'
      BY <3>2 DEF OriginKept
    <3>4. c = runs'[n].message
      BY <1>2, <3>1
    <3> QED BY <3>3, <3>4 DEF Origin, SealedBy
  <2>3. ASSUME q.message.kind = "empty"
        PROVE  \E k \in (1..(n - 1)) \union q.with :
                 /\ Writes(runs'[k]) /\ Target(runs'[k]) = q.flags.message
                 /\ k \in q.with \/ runs'[k].exit \in {"killed", "error"}
    <3>1. PICK k \in (1..(n - 1)) \union r.with :
             /\ Writes(runs[k]) /\ Target(runs[k]) = r.flags.message
             /\ k \in r.with \/ runs[k].exit \in {"killed", "error"}
      BY <1>2, <2>1, <2>3 DEF ReadOK
    <3>2. k \in DOMAIN runs
      <4>1. r.with \subseteq DOMAIN runs
        BY DEF RunOK, BesideOK
      <4>2. DOMAIN runs = 1..Len(runs) /\ Len(runs) \in Nat
        BY Types
      <4> QED BY <3>1, <4>1, <4>2
    <3>3. /\ runs'[k].main = runs[k].main /\ runs'[k].flags = runs[k].flags
          /\ runs[k].exit # "running" => runs'[k].exit = runs[k].exit
      BY <3>2 DEF Kept
    <3>4. Writes(runs'[k]) /\ Target(runs'[k]) = r.flags.message
      BY <3>1, <3>3, SameKind
    <3>5. k \in (1..(n - 1)) \union q.with
      BY <1>2, <3>1
    <3>6. k \in q.with \/ runs'[k].exit \in {"killed", "error"}
      BY <1>2, <3>1, <3>3
    <3> QED BY <1>2, <3>4, <3>5, <3>6
  <2>4. q.exit = "panic" /\ q.since = q.until => q.message.kind = "empty"
    BY <1>2, <2>1 DEF ReadOK
  <2> QED BY <2>2, <2>3, <2>4 DEF ReadOK
<1>9. MakesKeys(q) => q.message = NoFile
  BY <1>2, <1>4 DEF RunOK
<1> QED BY <1>5, <1>6, <1>7, <1>8, <1>9 DEF RunOK

-----------------------------------------------------------------------------
(* What a step makes of the run that takes it. *)

\* Which programs have a step.
LEMMA StepKind ==
  ASSUME NEW r, r.main \in Mains
  PROVE  /\ "NewKey" \in StepsOf(r) <=> MakesKeys(r)
         /\ "ReadKeys" \in StepsOf(r) <=> ~MakesKeys(r)
         /\ "ReadMessage" \in StepsOf(r) <=> Decrypts(r)
         /\ "Seal" \in StepsOf(r) <=> Encrypts(r)
         /\ "Truncate" \in StepsOf(r) <=> Writes(r)
         /\ "Write" \in StepsOf(r) <=> Writes(r)
         /\ "Open" \in StepsOf(r) => Decrypts(r) \/ r.main = test_vector
         /\ Decrypts(r) => "Open" \in StepsOf(r)
         /\ "GetPCRMap" \in StepsOf(r) <=> "pcrs" \in r.main.has
         /\ Decrypts(r) \/ Encrypts(r) \/ MakesKeys(r)
         /\ ~(Decrypts(r) /\ Encrypts(r)) /\ ~(MakesKeys(r) /\ Encrypts(r)) /\ ~(MakesKeys(r) /\ Decrypts(r))
<1>1. MakesKeys(r) => Writes(r)
  BY KindFacts
<1>2. CASE MakesKeys(r)
  <2>1. StepsOf(r) = First(r) \union NewKeyList
    BY <1>2 DEF StepsOf
  <2> QED BY <1>1, <1>2, <2>1 DEF First, NewKeyList, Decrypts, Encrypts
<1>3. CASE Decrypts(r)
  <2>1. StepsOf(r) = First(r) \union DecryptList /\ ~MakesKeys(r) /\ ~Writes(r)
    BY <1>1, <1>3 DEF StepsOf, Decrypts
  <2> QED BY <1>3, <2>1 DEF First, DecryptList, Encrypts
<1>4. CASE ~MakesKeys(r) /\ ~Decrypts(r)
  <2>1. StepsOf(r) = First(r) \union EncryptList \union AtLast(r) /\ Writes(r)
    BY <1>4 DEF StepsOf, Decrypts
  <2> QED BY <1>4, <2>1 DEF First, EncryptList, AtLast, Encrypts
<1> QED BY <1>2, <1>3, <1>4

\* A step taken well is behind the run, and no other one; one that has gone wrong
\* ends it.
LEMMA ActorAhead ==
  ASSUME TypeOK, InOrder, NEW p \in Process, NEW r, Moves(p, r), NEW h, h = Head(todo[p]),
         NEW n, n = cur[p]
  PROVE  /\ Well(p, r) =>
              /\ \A s : Pending(n, s)' <=> Ahead(p, s) /\ s # h
              /\ \A s : Passed(n, s)' <=> ~(Ahead(p, s) /\ s # h)
         /\ Wrong(p, r) => \A s : ~Pending(n, s)' /\ ~Passed(n, s)'
<1>1. cur[p] # 0 /\ n \in DOMAIN runs /\ runs'[n] = r
  BY MovesOne DEF Moves
<1>2. \A s : Pending(n, s)' <=> r.exit = "running" /\ Ahead(p, s) /\ s # h
  BY <1>1, MovesAhead
<1>3. \A s : Passed(n, s)' <=> r.exit \in {"running", "ok"} /\ ~Pending(n, s)'
  BY <1>1 DEF Passed
<1>4. Wrong(p, r) => r.exit \notin {"running", "ok"}
  BY DEF Wrong
<1>5. Well(p, r) => r.exit \in {"running", "ok"}
  BY DEF Well
<1>6. ASSUME r.exit = "ok", NEW s, Ahead(p, s) PROVE s = h
  <2>1. Len(todo[p]) = 1
    BY <1>6 DEF Moves
  <2>2. /\ h \in StepsOf(R(p)) /\ StepsOf(R(p)) \subseteq StepName
        /\ s \in StepsOf(R(p)) /\ Rank[h] <= Rank[s] /\ Rank[s] <= Rank[h]
        /\ Rank[s] = Rank[h] => s = h
    BY <1>1, <1>6, <2>1, Place
  <2>3. \A x \in StepName : Rank[x] \in Nat
    BY DEF Rank, StepName
  <2>4. Rank[s] \in Nat /\ Rank[h] \in Nat
    BY <2>2, <2>3
  <2>5. \A a, b \in Nat : a <= b /\ b <= a => a = b
    OBVIOUS
  <2> QED BY <2>2, <2>4, <2>5, Zenon
<1> QED BY <1>2, <1>3, <1>4, <1>5, <1>6

LEMMA ActorPassed ==
  ASSUME TypeOK, InOrder, NEW p \in Process, NEW r, Moves(p, r), NEW h, h = Head(todo[p]),
         NEW n, n = cur[p], Well(p, r) \/ Wrong(p, r), NEW s, Passed(n, s)'
  PROVE  Well(p, r) /\ (Passed(n, s) \/ s = h)
<1>1. Well(p, r) /\ ~(Ahead(p, s) /\ s # h)
  <2>1. Wrong(p, r) => ~Passed(n, s)'
    BY ActorAhead
  <2>2. Well(p, r) => (Passed(n, s)' <=> ~(Ahead(p, s) /\ s # h))
    BY ActorAhead
  <2> QED BY <2>1, <2>2
<1>2. cur[p] # 0
  BY DEF Moves
<1>3. Passed(n, s) <=> ~Ahead(p, s)
  BY <1>2, Behind
<1> QED BY <1>1, <1>3

LEMMA OthersStay ==
  ASSUME TypeOK, InOrder, NEW p \in Process, NEW r, Moves(p, r), NEW n \in DOMAIN runs, n # cur[p]
  PROVE  Stays(n)
<1>1. runs'[n] = runs[n]
  BY MovesOne
<1>2. (\A s : Pending(n, s)' <=> Pending(n, s)) /\ (AtWrite(n)' <=> AtWrite(n))
  BY MovesAhead
<1> QED BY <1>1, <1>2 DEF Stays

LEMMA MovesKept ==
  ASSUME TypeOK, InOrder, NEW p \in Process, NEW r, Moves(p, r)
  PROVE  Kept
<1>1. /\ DOMAIN runs' = DOMAIN runs
      /\ \A n \in DOMAIN runs : n # cur[p] => runs'[n] = runs[n]
      /\ \A n \in DOMAIN runs : /\ runs'[n].main = runs[n].main /\ runs'[n].flags = runs[n].flags
                               /\ runs'[n].with = runs[n].with /\ runs'[n].since = runs[n].since
  BY MovesOne
<1>2. runs[cur[p]].exit = "running"
  BY Behind DEF Moves, R
<1> QED BY <1>1, <1>2 DEF Kept

\* A message that is sealed stays so.
LEMMA MovesOrigin ==
  ASSUME TypeOK, InOrder, \A n \in DOMAIN runs : RunOK(n),
         NEW p \in Process, NEW r, Moves(p, r), Well(p, r) \/ Wrong(p, r)
  PROVE  OriginKept
<1> SUFFICES ASSUME NEW c, Origin(c), c.kind = "message" PROVE \E m \in DOMAIN runs' : SealedBy(m, c)'
  BY DEF OriginKept, Origin
<1>1. PICK m \in DOMAIN runs : SealedBy(m, c)
  BY DEF Origin
<1>2. /\ DOMAIN runs' = DOMAIN runs /\ runs'[cur[p]] = r
      /\ runs'[m].main = runs[m].main /\ runs'[m].flags = runs[m].flags
      /\ m # cur[p] => runs'[m] = runs[m]
  BY <1>1, MovesOne
<1>3. Encrypts(runs[m]) /\ runs[m].message = c
  BY <1>1 DEF SealedBy
<1>4. Encrypts(runs'[m])
  BY <1>2, <1>3, SameKind
<1>5. runs'[m].message = c
  <2>1. CASE m # cur[p]
    BY <1>2, <1>3, <2>1
  <2>2. CASE m = cur[p] /\ Wrong(p, r)
    BY <1>2, <1>3, <2>2 DEF Wrong, R
  <2>3. CASE m = cur[p] /\ Well(p, r)
    <3> DEFINE h == Head(todo[p])
    <3>1. R(p).main \in Mains /\ h \in StepsOf(R(p)) /\ cur[p] # 0
      BY Place DEF Moves
    <3>2. Encrypts(R(p)) /\ R(p).message = c
      BY <1>3, <2>3 DEF R
    <3>3. h # "ReadMessage"
      BY <3>1, <3>2, StepKind
    <3>4. h # "Seal"
      <4>1. SealedOK(m)
        BY <1>3 DEF RunOK
      <4>2. c # NoFile
        BY ContentFacts
      <4>3. ~Pending(m, "Seal")
        BY <1>3, <4>1, <4>2 DEF SealedOK
      <4>4. Pending(m, h)
        BY <2>3, <3>1, Behind
      <4> QED BY <4>3, <4>4
    <3>5. r.message = R(p).message
      BY <2>3, <3>3, <3>4 DEF Well, Result
    <3> QED BY <1>2, <2>3, <3>2, <3>5
  <2> QED BY <2>1, <2>2, <2>3
<1> QED BY <1>1, <1>2, <1>4, <1>5 DEF SealedBy

\* Nothing comes after Open.
LEMMA OpenIsLast ==
  ASSUME TypeOK, InOrder, NEW p \in Process, cur[p] # 0, Head(todo[p]) = "Open"
  PROVE  Len(todo[p]) = 1
<1> SUFFICES ASSUME Len(todo[p]) # 1 PROVE FALSE
  OBVIOUS
<1>1. PICK t : t = Tail(todo[p])
  OBVIOUS
<1>2. Head(t) \in StepsOf(R(p)) /\ Rank["Open"] < Rank[Head(t)]
  BY <1>1, PlaceAfter
<1>3. Head(t) \in StepName
  BY <1>2, Place
<1> QED BY <1>2, <1>3 DEF StepName, Rank

\* The keys of the run.
LEMMA ActorPair ==
  ASSUME TypeOK, InOrder, NEW p \in Process, NEW r \in Run, Moves(p, r), Well(p, r) \/ Wrong(p, r),
         NEW n, n = cur[p], RunOK(n), device' = device, events' = events \/ events' = events + 1
  PROVE  PairOK(n)'
<1> DEFINE h == Head(todo[p])
           q == R(p)
<1>1. /\ cur[p] # 0 /\ n \in DOMAIN runs /\ runs'[n] = r /\ q = runs[n]
      /\ r.main = q.main /\ r.flags = q.flags /\ r.since = q.since
  BY MovesOne DEF Moves, R
<1>2. q.main \in Mains /\ h \in StepsOf(q) /\ q \in Run
  BY <1>1, Place
<1>3. /\ MakesKeys(r) = MakesKeys(q)
      /\ ParentPass(r) = ParentPass(q) /\ KeyPass(r) = KeyPass(q) /\ PCRs(r) = PCRs(q)
  BY <1>1, SameKind
<1>4. \A s : Passed(n, s)' => Well(p, r) /\ (Passed(n, s) \/ s = h)
  BY ActorPassed
<1>5. ASSUME Well(p, r) PROVE /\ h \in {"NewKey", "ReadKeys"} \/ q.pair # NoPair => r.pair # NoPair
  <2>1. NewPair(q, n).kind = "keys" /\ NoPair.kind = "nopair"
    BY DEF NewPair, NoPair
  <2>2. h = "ReadKeys" => file[q.flags.key].kind = "keys"
    BY <1>5 DEF Well, Possible
  <2>3. r.pair = IF h = "NewKey" THEN NewPair(q, n) ELSE
                 IF h = "ReadKeys" THEN file[q.flags.key] ELSE q.pair
    BY <1>5 DEF Well, Result
  <2> QED BY <2>1, <2>2, <2>3
<1>6. PairOK(n)
  BY DEF RunOK
<1>7. q.since = events' => events' = events
  <2>1. q.since <= q.until /\ q.until <= events /\ q.since \in Nat /\ q.until \in Nat /\ events \in Nat
    BY <1>1, <1>2 DEF RunOK, BesideOK, Run, TypeOK
  <2> QED BY <2>1
<1>8. ASSUME Passed(n, IF MakesKeys(r) THEN "NewKey" ELSE "ReadKeys")' PROVE r.pair # NoPair
  <2>1. PICK s : s = IF MakesKeys(r) THEN "NewKey" ELSE "ReadKeys"
    OBVIOUS
  <2>2. Passed(n, s)'
    BY <1>1, <1>8, <2>1 DEF Passed, Pending, Ahead
  <2>3. Well(p, r) /\ (Passed(n, s) \/ s = h)
    BY <1>4, <2>2
  <2>4. CASE Passed(n, s)
    <3>1. q.pair # NoPair
      BY <1>1, <1>3, <1>6, <2>1, <2>4 DEF PairOK
    <3> QED BY <1>5, <2>3, <3>1
  <2>5. CASE s = h
    BY <1>5, <2>1, <2>3, <2>5
  <2> QED BY <2>3, <2>4, <2>5
<1>9. ASSUME MakesKeys(r), r.pair # NoPair
      PROVE  /\ r.pair.session = r.main.session /\ r.pair.pcrs = PCRs(r) /\ r.pair.auth = KeyPass(r)
             /\ r.since = events' => ParentPass(r) = device'.auth /\ r.pair.seed = device'.seed
  <2>1. CASE Well(p, r) /\ h = "NewKey"
    <3>1. r.pair = NewPair(q, n) /\ ParentPass(q) = device.auth
      BY <2>1 DEF Well, Result, Possible
    <3> QED BY <1>1, <1>3, <3>1 DEF NewPair
  <2>2. CASE ~(Well(p, r) /\ h = "NewKey")
    <3>1. h # "ReadKeys"
      BY <1>2, <1>3, <1>9, StepKind
    <3>2. r.pair = q.pair
      BY <2>2, <3>1 DEF Well, Wrong, Result
    <3>3. /\ q.pair.session = q.main.session /\ q.pair.pcrs = PCRs(q) /\ q.pair.auth = KeyPass(q)
          /\ q.since = events => ParentPass(q) = device.auth /\ q.pair.seed = device.seed
      BY <1>1, <1>3, <1>6, <1>9, <3>2 DEF PairOK
    <3> QED BY <1>1, <1>3, <1>7, <3>2, <3>3
  <2> QED BY <2>1, <2>2
<1> HIDE DEF q, h
<1> QED BY <1>1, <1>8, <1>9 DEF PairOK

\* What it has printed, and its PCRs.
LEMMA ActorPrinted ==
  ASSUME TypeOK, InOrder, NEW p \in Process, NEW r \in Run, Moves(p, r), Well(p, r) \/ Wrong(p, r),
         NEW n, n = cur[p], RunOK(n)
  PROVE  PrintedOK(n)'
<1> DEFINE h == Head(todo[p])
           q == R(p)
<1>1. /\ cur[p] # 0 /\ n \in DOMAIN runs /\ runs'[n] = r /\ q = runs[n]
      /\ r.main = q.main /\ r.flags = q.flags
  BY MovesOne DEF Moves, R
<1>2. q.exit = "running"
  BY <1>1, Behind
<1>3. PrintedOK(n)
  BY DEF RunOK
<1>4. q.printed = NoText
  BY <1>1, <1>2, <1>3 DEF PrintedOK
<1>5. \A s : Passed(n, s)' => Well(p, r) /\ (Passed(n, s) \/ s = h)
  BY ActorPassed
<1>6. ASSUME r.printed # NoText
      PROVE  /\ r.exit = "ok" /\ r.message.kind = "message" /\ r.printed = r.message.text
             /\ r.message.pair = r.pair.id /\ r.message.aad = r.flags.aad
  <2>1. Well(p, r) /\ h = "Open"
    BY <1>4, <1>6 DEF Well, Wrong, Result
  <2>2. r.message = q.message /\ r.pair = q.pair /\ r.printed = q.message.text /\ Authentic(q)
    BY <2>1 DEF Well, Result, Possible
  <2>3. r.exit \in {"running", "ok"}
    BY <2>1 DEF Well
  <2>4. Len(todo[p]) = 1
    BY <1>1, <2>1, OpenIsLast
  <2>5. r.exit # "running"
    BY <2>4 DEF Moves
  <2> QED BY <1>1, <2>2, <2>3, <2>5 DEF Authentic
<1>7. ASSUME "pcrs" \in r.main.has, Passed(n, "GetPCRMap")' PROVE r.flags.pcrs \in PCRValue
  <2>1. Well(p, r) /\ (Passed(n, "GetPCRMap") \/ h = "GetPCRMap")
    BY <1>5, <1>7
  <2>2. h = "GetPCRMap" => q.flags.pcrs \in PCRValue
    BY <2>1 DEF Well, Possible
  <2>3. Passed(n, "GetPCRMap") => q.flags.pcrs \in PCRValue
    BY <1>1, <1>3, <1>7 DEF PrintedOK
  <2> QED BY <1>1, <2>1, <2>2, <2>3
<1> HIDE DEF q, h
<1> QED BY <1>1, <1>6, <1>7 DEF PrintedOK

\* Its message, if it encrypts.
LEMMA ActorSealed ==
  ASSUME TypeOK, InOrder, NEW p \in Process, NEW r \in Run, Moves(p, r), Well(p, r) \/ Wrong(p, r),
         NEW n, n = cur[p], RunOK(n), Encrypts(r),
         device' = device, events' = events \/ events' = events + 1
  PROVE  SealedOK(n)'
<1> DEFINE h == Head(todo[p])
           q == R(p)
<1>1. /\ cur[p] # 0 /\ n \in DOMAIN runs /\ runs'[n] = r /\ q = runs[n]
      /\ r.main = q.main /\ r.flags = q.flags /\ r.since = q.since
  BY MovesOne DEF Moves, R
<1>2. q.main \in Mains /\ h \in StepsOf(q) /\ q \in Run
  BY <1>1, Place
<1>3. /\ Encrypts(q)
      /\ ParentPass(r) = ParentPass(q) /\ KeyPass(r) = KeyPass(q) /\ PCRs(r) = PCRs(q)
  BY <1>1, SameKind
<1>4. h \notin {"ReadMessage", "NewKey"} /\ "Seal" \in StepsOf(q)
  BY <1>2, <1>3, StepKind
<1>5. SealedOK(n)
  BY <1>1, <1>3 DEF RunOK
<1>6. q.since = events' => events' = events
  <2>1. q.since <= q.until /\ q.until <= events /\ q.since \in Nat /\ q.until \in Nat /\ events \in Nat
    BY <1>1, <1>2 DEF RunOK, BesideOK, Run, TypeOK
  <2> QED BY <2>1
<1>7. ASSUME r.pair = q.pair, r.message = q.message
      PROVE  device' = device => (Usable(runs[n])' <=> Usable(q))
  BY <1>1, <1>3, <1>7 DEF Usable
<1>8. CASE Well(p, r) /\ h = "Seal"
  <2>1. r.message = SealedText(q) /\ r.pair = q.pair /\ Usable(q) /\ Fits(q, q.flags.text)
    BY <1>8 DEF Well, Result, Possible
  <2>2. q.pair # NoPair
    BY <1>1, <1>8, SoFar
  <2>3. ~Pending(n, "Seal")'
    BY <1>8, ActorAhead
  <2>4. Usable(runs[n])'
    BY <1>1, <1>3, <2>1 DEF Usable
  <2>5. r.message = [kind |-> "message", len |-> r.flags.text.len, pair |-> r.pair.id,
                     aad |-> r.flags.aad, text |-> r.flags.text]
    BY <1>1, <2>1 DEF SealedText
  <2>6. r.message # NoFile
    <3>1. NoFile.kind = "none"
      BY DEF NoFile
    <3> QED BY <2>5, <3>1
  <2>7. Fits(r, r.flags.text)
    BY <1>1, <2>1 DEF Fits
  <2> HIDE DEF q, h
  <2> QED BY <1>1, <2>1, <2>2, <2>3, <2>4, <2>5, <2>6, <2>7 DEF SealedOK
<1>9. CASE ~(Well(p, r) /\ h = "Seal")
  <2>1. r.message = q.message
    BY <1>4, <1>9 DEF Well, Wrong, Result
  <2>2. Passed(n, "Seal")' => r.message # NoFile
    <3>1. Passed(n, "Seal")' => Passed(n, "Seal")
      BY <1>9, ActorPassed
    <3> QED BY <1>1, <1>5, <2>1, <3>1 DEF SealedOK
  <2>3. ASSUME r.message # NoFile
        PROVE  ~Pending(n, "Seal")' /\ r.pair = q.pair
    <3>1. ~Ahead(p, "Seal")
      <4>1. ~Pending(n, "Seal")
        BY <1>1, <1>5, <2>1, <2>3 DEF SealedOK
      <4> QED BY <1>1, <4>1, Behind
    <3>2. ~Pending(n, "Seal")'
      <4>1. Wrong(p, r) => ~Pending(n, "Seal")'
        BY ActorAhead
      <4>2. Well(p, r) => (Pending(n, "Seal")' <=> Ahead(p, "Seal") /\ "Seal" # h)
        BY ActorAhead
      <4> QED BY <3>1, <4>1, <4>2
    <3>3. h # "ReadKeys"
      <4>1. Ahead(p, "Seal") <=> "Seal" \in StepsOf(q) /\ Rank[h] <= Rank["Seal"]
        BY <1>1, Place
      <4>2. Rank["ReadKeys"] <= Rank["Seal"]
        BY DEF Rank
      <4> QED BY <1>4, <3>1, <4>1, <4>2
    <3>4. r.pair = q.pair
      BY <1>4, <3>3 DEF Well, Wrong, Result
    <3> QED BY <3>2, <3>4
  <2>4. ASSUME r.message # NoFile
        PROVE  /\ ~Pending(n, "Seal")' /\ r.pair # NoPair
               /\ r.message = [kind |-> "message", len |-> r.flags.text.len, pair |-> r.pair.id,
                               aad |-> r.flags.aad, text |-> r.flags.text]
               /\ Fits(r, r.flags.text)
               /\ r.since = events' => Usable(runs[n])'
    <3>1. /\ q.pair # NoPair
          /\ q.message = [kind |-> "message", len |-> q.flags.text.len, pair |-> q.pair.id,
                          aad |-> q.flags.aad, text |-> q.flags.text]
          /\ Fits(q, q.flags.text)
          /\ q.since = events => Usable(q)
      BY <1>1, <1>5, <2>1, <2>4 DEF SealedOK
    <3>2. ~Pending(n, "Seal")' /\ r.pair = q.pair
      BY <2>3, <2>4
    <3>3. r.since = events' => Usable(runs[n])'
      BY <1>1, <1>6, <1>7, <2>1, <3>1, <3>2
    <3>4. Fits(r, r.flags.text)
      BY <1>1, <3>1 DEF Fits
    <3> QED BY <1>1, <2>1, <3>1, <3>2, <3>3, <3>4
  <2> HIDE DEF q, h
  <2> QED BY <1>1, <2>2, <2>4 DEF SealedOK
<1> QED BY <1>8, <1>9

\* Who is to blame for a file it reads empty.
LEMMA Blame ==
  ASSUME TypeOK, InOrder, \A m \in DOMAIN runs : BesideOK(m), NEW p \in Process, cur[p] # 0,
         NEW f \in DOMAIN file, FileOK(f), file[f].kind = "empty", Decrypts(R(p)),
         NEW n, n = cur[p]
  PROVE  \E k \in (1..(n - 1)) \union runs[n].with :
           WritesTo(k, f) /\ (k \in runs[n].with \/ runs[k].exit \in {"killed", "error"})
<1>1. PICK k \in DOMAIN runs : WritesTo(k, f) /\ GivenUp(k)
  BY DEF FileOK
<1>2. /\ n \in DOMAIN runs /\ n \in Running /\ DOMAIN runs = 1..Len(runs) /\ Len(runs) \in Nat
  BY Types DEF Running
<1>3. k # n
  BY <1>1 DEF WritesTo, Decrypts, R
<1>4. ASSUME n < k PROVE k \in runs[n].with
  <2>1. n \in runs[k].with
    BY <1>1, <1>2, <1>4 DEF BesideOK
  <2> QED BY <1>1, <2>1 DEF BesideOK
<1>5. ASSUME k < n PROVE k \in runs[n].with \/ runs[k].exit \in {"killed", "error"}
  <2>1. ASSUME AtWrite(k) PROVE k \in Running
    <3>1. k # 0
      BY <1>1, <1>2
    <3> QED BY <2>1, <3>1 DEF AtWrite, Running
  <2>2. k \in Running => k \in runs[n].with
    BY <1>2, <1>5 DEF BesideOK
  <2> QED BY <1>1, <2>1, <2>2 DEF GivenUp
<1>6. k < n => k \in 1..(n - 1)
  BY <1>1, <1>2
<1>7. k < n \/ n < k
  BY <1>1, <1>2, <1>3
<1> QED BY <1>1, <1>4, <1>5, <1>6, <1>7

\* Its message, if it decrypts.
LEMMA ActorRead ==
  ASSUME TypeOK, InOrder, \A m \in DOMAIN runs : RunOK(m), \A f \in DOMAIN file : FileOK(f),
         NEW p \in Process, NEW r \in Run, Moves(p, r), Well(p, r) \/ Wrong(p, r),
         NEW n, n = cur[p], Decrypts(r), Kept, OriginKept,
         events' = events \/ events' = events + 1
  PROVE  ReadOK(n)'
<1> DEFINE h == Head(todo[p])
           q == R(p)
<1>1. /\ cur[p] # 0 /\ n \in DOMAIN runs /\ runs'[n] = r /\ q = runs[n]
      /\ r.main = q.main /\ r.flags = q.flags /\ r.since = q.since /\ r.with = q.with
  BY MovesOne DEF Moves, R
<1>2. q.main \in Mains /\ h \in StepsOf(q) /\ q \in Run /\ q.exit = "running"
  BY <1>1, Place, Behind
<1>3. Decrypts(q)
  BY <1>1, SameKind
<1>4. h # "Seal"
  BY <1>2, <1>3, StepKind
<1>5. ReadOK(n)
  BY <1>1, <1>3 DEF RunOK
<1> DEFINE f == q.flags.message
<1>6. f \in DOMAIN file
  <2>1. f \in DOMAIN InitFile
    BY <1>2, FlagFacts
  <2> QED BY <2>1 DEF TypeOK
<1>7. r.message \in {q.message, file[f]}
  BY <1>4 DEF Well, Wrong, Result
<1>8. Origin(runs[n].message)'
  <2>1. PICK c : c = r.message
    OBVIOUS
  <2>2. Origin(c)
    <3>1. Origin(q.message)
      BY <1>1, <1>5 DEF ReadOK
    <3>2. Origin(file[f])
      BY <1>6 DEF FileOK
    <3> QED BY <1>7, <2>1, <3>1, <3>2
  <2>3. Origin(c)'
    BY <2>2 DEF OriginKept
  <2> QED BY <1>1, <2>1, <2>3 DEF Origin, SealedBy
<1>9. ASSUME r.message.kind = "empty"
      PROVE  \E k \in (1..(n - 1)) \union r.with :
               /\ Writes(runs'[k]) /\ Target(runs'[k]) = r.flags.message
               /\ k \in r.with \/ runs'[k].exit \in {"killed", "error"}
  <2>1. \E k \in (1..(n - 1)) \union q.with :
          WritesTo(k, f) /\ (k \in q.with \/ runs[k].exit \in {"killed", "error"})
    <3>1. CASE r.message = q.message
      <4>1. \E k \in (1..(n - 1)) \union runs[n].with :
            /\ Writes(runs[k]) /\ Target(runs[k]) = runs[n].flags.message
            /\ k \in runs[n].with \/ runs[k].exit \in {"killed", "error"}
        BY <1>1, <1>5, <1>9, <3>1 DEF ReadOK
      <4> QED BY <1>1, <4>1 DEF WritesTo
    <3>2. CASE r.message = file[f]
      <4>1. \A m \in DOMAIN runs : BesideOK(m)
        BY DEF RunOK
      <4>2. FileOK(f) /\ file[f].kind = "empty"
        BY <1>6, <1>9, <3>2
      <4>3. PICK g \in DOMAIN file : g = f
        BY <1>6
      <4>4. \E k \in (1..(n - 1)) \union runs[n].with :
            WritesTo(k, g) /\ (k \in runs[n].with \/ runs[k].exit \in {"killed", "error"})
        BY <1>1, <1>3, <4>1, <4>2, <4>3, Blame
      <4> QED BY <1>1, <4>3, <4>4
    <3> QED BY <1>7, <3>1, <3>2
  <2>2. PICK k \in (1..(n - 1)) \union q.with :
          WritesTo(k, f) /\ (k \in q.with \/ runs[k].exit \in {"killed", "error"})
    BY <2>1
  <2>3. k \in DOMAIN runs
    <3>1. runs[n].with \subseteq DOMAIN runs
      BY <1>1 DEF RunOK, BesideOK
    <3>2. DOMAIN runs = 1..Len(runs) /\ Len(runs) \in Nat
      BY Types
    <3> QED BY <1>1, <2>2, <3>1, <3>2
  <2>4. /\ runs'[k].main = runs[k].main /\ runs'[k].flags = runs[k].flags
        /\ runs[k].exit # "running" => runs'[k].exit = runs[k].exit
    BY <2>3 DEF Kept
  <2>5. Writes(runs'[k]) /\ Target(runs'[k]) = f
    BY <2>2, <2>4, SameKind DEF WritesTo
  <2> QED BY <1>1, <2>2, <2>4, <2>5
<1>10. ASSUME r.exit = "panic", r.since = r.until PROVE r.message.kind = "empty"
  <2>1. r.until = events'
    BY <1>10 DEF Moves
  <2>2. events' # events + 1
    <3>1. q.since <= q.until /\ q.until <= events /\ q.since \in Nat /\ q.until \in Nat /\ events \in Nat
      BY <1>1, <1>2 DEF RunOK, BesideOK, Run, TypeOK
    <3> QED BY <1>1, <1>10, <2>1, <3>1
  <2>3. Wrong(p, r)
    BY <1>10 DEF Well
  <2>4. r.message = q.message /\ q.message = EmptyFile
    BY <1>4, <1>10, <2>2, <2>3 DEF Wrong
  <2> QED BY <2>4, ContentFacts
<1> HIDE DEF q, h, f
<1> QED BY <1>1, <1>8, <1>9, <1>10 DEF ReadOK

\* A step leaves everything in order about the run that takes it.
LEMMA ActorRun ==
  ASSUME TypeOK, InOrder, \A m \in DOMAIN runs : RunOK(m), \A f \in DOMAIN file : FileOK(f),
         NEW p \in Process, NEW r \in Run, Moves(p, r), Well(p, r) \/ Wrong(p, r),
         NEW n, n = cur[p], Kept, OriginKept, BesideOK(n)',
         device' = device, events' = events \/ events' = events + 1
  PROVE  RunOK(n)'
<1>1. /\ cur[p] # 0 /\ n \in DOMAIN runs /\ runs'[n] = r /\ R(p) = runs[n]
      /\ r.main = R(p).main /\ r.flags = R(p).flags
  BY MovesOne DEF Moves, R
<1>2. RunOK(n)
  BY <1>1
<1>3. PairOK(n)' /\ PrintedOK(n)'
  BY <1>2, ActorPair, ActorPrinted
<1>4. Encrypts(r) => SealedOK(n)'
  BY <1>2, ActorSealed
<1>5. Decrypts(r) => ReadOK(n)'
  BY ActorRead
<1>6. ASSUME MakesKeys(r) PROVE r.message = NoFile
  <2>1. MakesKeys(R(p))
    BY <1>1, <1>6, SameKind
  <2>2. R(p).message = NoFile
    BY <1>1, <1>2, <2>1 DEF RunOK
  <2>3. R(p).main \in Mains /\ Head(todo[p]) \in StepsOf(R(p))
    BY <1>1, Place
  <2>4. Head(todo[p]) \notin {"ReadMessage", "Seal"}
    BY <2>1, <2>3, StepKind
  <2> QED BY <2>2, <2>4 DEF Well, Wrong, Result
<1> QED BY <1>1, <1>3, <1>4, <1>5, <1>6 DEF RunOK

LEMMA MovesRuns ==
  ASSUME TypeOK, InOrder, \A n \in DOMAIN runs : RunOK(n), \A f \in DOMAIN file : FileOK(f),
         NEW p \in Process, NEW r \in Run, Moves(p, r), Well(p, r) \/ Wrong(p, r),
         events' \in Nat, device' = device, events' = events \/ events' = events + 1,
         file' \in [DOMAIN InitFile -> Content]
  PROVE  /\ TypeOK' /\ InOrder' /\ Kept /\ OriginKept
         /\ \A n \in DOMAIN runs' : RunOK(n)'
<1>1. TypeOK' /\ InOrder' /\ \A n \in DOMAIN runs : BesideOK(n)'
  <2>1. \A n \in DOMAIN runs : BesideOK(n)
    BY DEF RunOK
  <2>2. device' \in Device /\ events <= events'
    BY DEF TypeOK
  <2> QED BY <2>1, <2>2, MovesOrder
<1>2. Kept
  BY MovesKept
<1>3. OriginKept
  BY MovesOrigin
<1>4. DOMAIN runs' = DOMAIN runs
  BY MovesOne
<1>5. Counted
  BY DEF Counted
<1>6. ASSUME NEW n \in DOMAIN runs PROVE RunOK(n)'
  <2>1. CASE n = cur[p]
    BY <1>1, <1>2, <1>3, <2>1, ActorRun
  <2>2. CASE n # cur[p]
    <3>1. Stays(n)
      BY <2>2, OthersStay
    <3> QED BY <1>1, <1>2, <1>3, <1>5, <3>1, RunStays
  <2> QED BY <2>1, <2>2
<1> QED BY <1>1, <1>2, <1>3, <1>4, <1>6

-----------------------------------------------------------------------------
(* What a step makes of the files. *)

\* Truncate comes right before Write.
LEMMA AfterTruncate ==
  ASSUME TypeOK, InOrder, NEW p \in Process, cur[p] # 0, Writes(R(p)), Head(todo[p]) = "Truncate"
  PROVE  Len(todo[p]) # 1 /\ Head(Tail(todo[p])) = "Write"
<1>1. PICK h : h = Head(todo[p])
  OBVIOUS
<1>2. /\ R(p).main \in Mains /\ h \in StepsOf(R(p)) /\ StepsOf(R(p)) \subseteq StepName
      /\ Len(todo[p]) = 1 => \A x \in StepsOf(R(p)) : Rank[x] <= Rank[h]
  BY <1>1, Place
<1>3. "Write" \in StepsOf(R(p))
  BY <1>2, StepKind
<1>4. Len(todo[p]) # 1
  <2>1. ~(Rank["Write"] <= Rank["Truncate"])
    BY DEF Rank
  <2> QED BY <1>1, <1>2, <1>3, <2>1
<1>5. PICK t : t = Tail(todo[p])
  OBVIOUS
<1>6. /\ Head(t) \in StepsOf(R(p)) /\ Rank["Truncate"] < Rank[Head(t)]
      /\ Rank["Truncate"] < Rank["Write"] => Rank[Head(t)] <= Rank["Write"]
  BY <1>3, <1>4, <1>5, PlaceAfter
<1>7. Head(t) = "Write"
  BY <1>2, <1>6 DEF StepName, Rank
<1> QED BY <1>4, <1>5, <1>7

LEMMA BeforeWrite ==
  ASSUME TypeOK, InOrder, NEW p \in Process, cur[p] # 0, Writes(R(p)), Len(todo[p]) # 1,
         Head(Tail(todo[p])) = "Write"
  PROVE  Head(todo[p]) = "Truncate"
<1>1. PICK h : h = Head(todo[p])
  OBVIOUS
<1>2. R(p).main \in Mains /\ h \in StepsOf(R(p)) /\ StepsOf(R(p)) \subseteq StepName
  BY <1>1, Place
<1>3. "Truncate" \in StepsOf(R(p))
  BY <1>2, StepKind
<1>4. PICK t : t = Tail(todo[p])
  OBVIOUS
<1>5. /\ Rank[h] < Rank[Head(t)]
      /\ Rank[h] < Rank["Truncate"] => Rank[Head(t)] <= Rank["Truncate"]
  BY <1>1, <1>3, <1>4, PlaceAfter
<1>6. Head(t) = "Write" /\ h \in StepName
  BY <1>2, <1>4
<1>7. h = "Truncate"
  BY <1>5, <1>6 DEF StepName, Rank
<1> QED BY <1>1, <1>7

\* A step touches no file but that of the run that takes it, and that only to write it.
LEMMA FileAfter ==
  ASSUME TypeOK, InOrder, NEW p \in Process, cur[p] # 0, NEW r, Well(p, r) \/ Wrong(p, r),
         NEW f \in DOMAIN file, NEW h, h = Head(todo[p])
  PROVE  /\ f # Target(R(p)) \/ h \notin {"Truncate", "Write"} => file'[f] = file[f]
         /\ f = Target(R(p)) /\ h = "Truncate" =>
              file'[f] = IF Well(p, r) THEN EmptyFile ELSE file[f]
         /\ f = Target(R(p)) /\ h = "Write" /\ Well(p, r) =>
              file'[f] = IF file[f].len > Output(R(p)).len THEN Torn(file[f].len) ELSE Output(R(p))
         /\ f = Target(R(p)) /\ h = "Write" /\ Wrong(p, r) =>
              \/ file'[f] = file[f]
              \/ r.exit = "error" /\ file'[f].kind = "torn"
         /\ DOMAIN file' = DOMAIN file
<1>1. file \in [DOMAIN InitFile -> Content]
  BY DEF TypeOK
<1>2. CASE Well(p, r)
  <2>1. Written(R(p), h)
    BY <1>2 DEF Well
  <2>2. ~Wrong(p, r)
    BY <1>2 DEF Well, Wrong
  <2> QED BY <1>1, <1>2, <2>1, <2>2 DEF Written
<1>3. CASE Wrong(p, r)
  <2>1. ~Well(p, r)
    BY <1>3 DEF Well, Wrong
  <2>2. \/ file' = file
        \/ /\ h = "Write" /\ r.exit = "error"
           /\ file' = [file EXCEPT ![Target(R(p))] = Torn(IF @.len > 1 THEN @.len ELSE 1)]
    BY <1>3 DEF Wrong
  <2>3. \A l : Torn(l).kind = "torn"
    BY DEF Torn
  <2>4. CASE file' = file
    BY <1>3, <2>1, <2>4
  <2>5. CASE file' # file
    BY <1>1, <1>3, <2>1, <2>2, <2>3, <2>5
  <2> QED BY <2>4, <2>5
<1> QED BY <1>2, <1>3

\* Two runs that overlap are beside each other.
LEMMA Overlap ==
  ASSUME TypeOK, \A m \in DOMAIN runs : BesideOK(m),
         NEW k \in DOMAIN runs, NEW n \in DOMAIN runs, k # n, k \in Running
  PROVE  /\ k \in runs[n].with \/ n < k
         /\ k < n => k \in runs[n].with /\ n \in runs[k].with
<1>1. k \in Nat /\ n \in Nat
  BY Types
<1>2. k < n => k \in runs[n].with
  BY DEF BesideOK
<1>3. k \in runs[n].with => n \in runs[k].with
  BY DEF BesideOK
<1> QED BY <1>1, <1>2, <1>3

\* What the run that is about to write has to write.
LEMMA OutputFacts ==
  ASSUME TypeOK, InOrder, NEW p \in Process, AtStep(p, "Write"), RunOK(cur[p])
  PROVE  /\ Writes(R(p)) /\ Output(R(p)) \in Content /\ Output(R(p)).kind \in {"keys", "message"}
         /\ Output(R(p)).kind = "message" => Encrypts(R(p)) /\ Output(R(p)) = R(p).message
<1>1. cur[p] # 0 /\ Head(todo[p]) = "Write"
  BY DEF AtStep
<1>2. R(p).main \in Mains /\ "Write" \in StepsOf(R(p)) /\ R(p) \in Run
  BY <1>1, Place
<1>3. Writes(R(p))
  BY <1>2, StepKind
<1>4. CASE MakesKeys(R(p))
  <2>1. R(p).pair \in KeyFile
    BY <1>1, SoFar
  <2>2. R(p).pair \in Content /\ R(p).pair.kind = "keys"
    BY <2>1, ContentFacts
  <2>3. Output(R(p)) = R(p).pair
    BY <1>4 DEF Output
  <2> QED BY <1>3, <2>2, <2>3
<1>5. CASE ~MakesKeys(R(p))
  <2>1. Encrypts(R(p)) /\ Output(R(p)) = R(p).message
    BY <1>3, <1>5 DEF Encrypts, Output
  <2>2. "Seal" \in StepName /\ Rank["Seal"] < Rank["Write"]
    BY DEF Rank, StepName
  <2>3. Passed(cur[p], "Seal")
    BY <1>1, <2>2, Behind
  <2>4. SealedOK(cur[p])
    BY <2>1 DEF RunOK, R
  <2>5. R(p).message.kind = "message"
    BY <2>3, <2>4 DEF SealedOK, R
  <2>6. R(p).message \in Content
    BY <1>2 DEF Run
  <2> QED BY <1>3, <2>1, <2>5, <2>6
<1> QED BY <1>4, <1>5

\* Whoever else writes the file it is about to write was not alone.
LEMMA NotAlone ==
  ASSUME TypeOK, InOrder, \A m \in DOMAIN runs : BesideOK(m), \A m \in DOMAIN runs : WrittenOK(m),
         NEW p \in Process, AtStep(p, "Write"), Writes(R(p)), NEW n, n = cur[p],
         file[Target(R(p))] # EmptyFile
  PROVE  \E j \in runs[n].with : WritesTo(j, Target(R(p)))
<1>1. cur[p] # 0 /\ n \in DOMAIN runs /\ n \in Running /\ R(p) = runs[n]
  BY Types DEF AtStep, Running, R
<1>2. AtWrite(n)
  BY DEF AtWrite
<1>3. ~Last(n)
  BY <1>1, <1>2 DEF WrittenOK
<1>4. PICK j \in runs[n].with \union (n + 1)..Len(runs) : WritesTo(j, Target(runs[n]))
  BY <1>3 DEF Last
<1>5. ASSUME j \in (n + 1)..Len(runs) PROVE j \in runs[n].with
  <2>1. j \in DOMAIN runs /\ n < j
    BY <1>1, <1>5, Types
  <2> QED BY <1>1, <2>1, Overlap
<1> QED BY <1>1, <1>4, <1>5

\* Whose fault it is that file f holds c.
Blamed(f, c) ==
  c.kind \in {"empty", "torn"} =>
    \E k \in DOMAIN runs :
      /\ WritesTo(k, f)
      /\ \/ GivenUp(k)
         \/ c.kind = "torn" /\ \E j \in runs[k].with : WritesTo(j, f)

LEMMA FileAs ==
  ASSUME NEW f, NEW c, c = file'[f], Origin(c)', Blamed(f, c)'
  PROVE  FileOK(f)'
BY DEF Origin, SealedBy, Blamed, FileOK

\* Whoever is to blame stays so.
LEMMA BlameStays ==
  ASSUME TypeOK, \A m \in DOMAIN runs : BesideOK(m), Kept, NEW f, NEW c, Blamed(f, c),
         \A k \in DOMAIN runs : WritesTo(k, f) /\ AtWrite(k) => GivenUp(k)'
  PROVE  Blamed(f, c)'
<1>1. ASSUME NEW k \in DOMAIN runs
      PROVE  /\ k \in DOMAIN runs' /\ runs[k].with \subseteq runs'[k].with
             /\ runs[k].exit # "running" => runs'[k].exit = runs[k].exit
  BY DEF Kept
<1>2. ASSUME NEW k \in DOMAIN runs PROVE WritesTo(k, f)' = WritesTo(k, f)
  <2>1. runs'[k].main = runs[k].main /\ runs'[k].flags = runs[k].flags
    BY DEF Kept
  <2> QED BY <2>1, SameKind DEF WritesTo
<1> SUFFICES ASSUME c.kind \in {"empty", "torn"}
             PROVE  \E k \in DOMAIN runs' :
                      /\ WritesTo(k, f)'
                      /\ \/ GivenUp(k)'
                         \/ c.kind = "torn" /\ \E j \in runs'[k].with : WritesTo(j, f)'
  BY DEF Blamed
<1>3. PICK k \in DOMAIN runs :
        /\ WritesTo(k, f)
        /\ \/ GivenUp(k)
           \/ c.kind = "torn" /\ \E j \in runs[k].with : WritesTo(j, f)
  BY DEF Blamed
<1>4. CASE GivenUp(k)
  <2>1. CASE AtWrite(k)
    BY <1>1, <1>2, <1>3, <2>1
  <2>2. CASE runs[k].exit \in {"killed", "error"}
    <3>1. GivenUp(k)'
      BY <1>1, <2>2 DEF GivenUp
    <3> QED BY <1>1, <1>2, <1>3, <3>1
  <2> QED BY <1>4, <2>1, <2>2 DEF GivenUp
<1>5. CASE c.kind = "torn" /\ \E j \in runs[k].with : WritesTo(j, f)
  <2>1. PICK j \in runs[k].with : WritesTo(j, f)
    BY <1>5
  <2>2. j \in DOMAIN runs
    BY DEF BesideOK
  <2>3. j \in runs'[k].with /\ WritesTo(j, f)'
    BY <1>1, <1>2, <2>1, <2>2
  <2> QED BY <1>1, <1>2, <1>3, <1>5, <2>3
<1> QED BY <1>3, <1>4, <1>5

LEMMA MovesFile ==
  ASSUME TypeOK, InOrder, \A n \in DOMAIN runs : RunOK(n), \A n \in DOMAIN runs : WrittenOK(n),
         NEW p \in Process, NEW r \in Run, Moves(p, r), Well(p, r) \/ Wrong(p, r),
         Kept, OriginKept, NEW f \in DOMAIN file, FileOK(f)
  PROVE  FileOK(f)'
<1> DEFINE h == Head(todo[p])
           q == R(p)
<1>0. PICK n : n = cur[p]
  OBVIOUS
<1>1. /\ cur[p] # 0 /\ n \in DOMAIN runs /\ runs'[n] = r /\ q = runs[n] /\ DOMAIN runs' = DOMAIN runs
      /\ r.main = q.main /\ r.flags = q.flags /\ r.with = q.with
  BY <1>0, MovesOne DEF Moves, R
<1>2. q.main \in Mains /\ h \in StepsOf(q) /\ q \in Run
  BY <1>1, Place
<1>3. \A m \in DOMAIN runs : BesideOK(m)
  BY DEF RunOK
<1>4. PICK c : c = file'[f]
  OBVIOUS
<1>5. /\ f # Target(q) \/ h \notin {"Truncate", "Write"} => c = file[f]
      /\ f = Target(q) /\ h = "Truncate" => c = IF Well(p, r) THEN EmptyFile ELSE file[f]
      /\ f = Target(q) /\ h = "Write" /\ Well(p, r) =>
           c = IF file[f].len > Output(q).len THEN Torn(file[f].len) ELSE Output(q)
      /\ f = Target(q) /\ h = "Write" /\ Wrong(p, r) =>
           c = file[f] \/ (r.exit = "error" /\ c.kind = "torn")
  BY <1>1, <1>4, FileAfter
<1>6. Writes(q) /\ f = Target(q) => WritesTo(n, f)'
  BY <1>1, SameKind DEF WritesTo
<1>7. h \in {"Truncate", "Write"} => Writes(q)
  BY <1>2, StepKind
<1>8. CASE c = file[f] /\ ~(Well(p, r) /\ h = "Write" /\ f = Target(q))
  <2>1. Origin(c) /\ Blamed(f, c)
    BY <1>8 DEF FileOK, Blamed
  <2>2. ASSUME NEW k \in DOMAIN runs, WritesTo(k, f), AtWrite(k) PROVE GivenUp(k)'
    <3>1. CASE k # n
      <4>1. Stays(k)
        BY <1>0, <3>1, OthersStay
      <4> QED BY <2>2, <4>1 DEF Stays, GivenUp
    <3>2. CASE k = n
      <4>1. h = "Write"
        BY <1>0, <1>1, <2>2, <3>2, MovesAhead
      <4>2. Wrong(p, r)
        BY <1>1, <1>8, <2>2, <3>2, <4>1 DEF WritesTo
      <4>3. r.exit \in {"killed", "error"}
        BY <4>1, <4>2 DEF Wrong
      <4> QED BY <1>1, <3>2, <4>3 DEF GivenUp
    <3> QED BY <3>1, <3>2
  <2>3. Origin(c)' /\ Blamed(f, c)'
    <3>1. Origin(c)'
      BY <2>1 DEF OriginKept
    <3>2. Blamed(f, c)'
      BY <1>3, <2>1, <2>2, BlameStays
    <3> QED BY <3>1, <3>2
  <2> QED BY <1>4, <2>3, FileAs
<1>9. CASE h = "Truncate" /\ f = Target(q) /\ Well(p, r)
  <2>1. c.kind = "empty"
    BY <1>5, <1>9, ContentFacts
  <2>2. Origin(c)'
    BY <2>1 DEF Origin
  <2>3. Len(todo[p]) # 1 /\ Head(Tail(todo[p])) = "Write"
    BY <1>1, <1>7, <1>9, AfterTruncate
  <2>4. r.exit = "running"
    BY <1>9, <2>3 DEF Well, Moves
  <2>5. AtWrite(n)'
    BY <1>0, <1>1, <2>3, <2>4, MovesAhead
  <2>6. Blamed(f, c)'
    BY <1>1, <1>6, <1>7, <1>9, <2>5 DEF Blamed, GivenUp
  <2> QED BY <1>4, <2>2, <2>6, FileAs
<1>10. CASE h = "Write" /\ f = Target(q) /\ Wrong(p, r) /\ c # file[f]
  <2>1. r.exit = "error" /\ c.kind = "torn"
    BY <1>5, <1>10
  <2>2. Origin(c)'
    BY <2>1 DEF Origin
  <2>3. GivenUp(n)'
    BY <1>1, <2>1 DEF GivenUp
  <2>4. Blamed(f, c)'
    BY <1>1, <1>6, <1>7, <1>10, <2>3 DEF Blamed
  <2> QED BY <1>4, <2>2, <2>4, FileAs
<1>11. CASE h = "Write" /\ f = Target(q) /\ Well(p, r)
  <2>1. AtStep(p, "Write") /\ RunOK(n)
    BY <1>1, <1>11 DEF AtStep
  <2>2. /\ Output(q) \in Content /\ Output(q).kind \in {"keys", "message"}
        /\ Output(q).kind = "message" => Encrypts(q) /\ Output(q) = q.message
    BY <1>0, <2>1, OutputFacts
  <2>3. CASE c = Output(q)
    <3>1. Blamed(f, c)'
      BY <2>2, <2>3 DEF Blamed
    <3>2. Origin(c)'
      <4>1. SUFFICES ASSUME c.kind = "message" PROVE SealedBy(n, c)'
        BY <1>1 DEF Origin
      <4>2. r.message = q.message
        BY <1>11 DEF Well, Result
      <4>3. Encrypts(r)
        BY <1>1, <2>2, <2>3, <4>1, SameKind
      <4> QED BY <1>1, <2>2, <2>3, <4>1, <4>2, <4>3 DEF SealedBy
    <3> QED BY <1>4, <3>1, <3>2, FileAs
  <2>4. CASE c # Output(q)
    <3>1. c = Torn(file[f].len) /\ file[f].len > Output(q).len
      BY <1>5, <1>11, <2>4
    <3>2. c.kind = "torn"
      BY <3>1 DEF Torn
    <3>3. file[f] # EmptyFile
      <4>1. Output(q).len \in Nat
        BY <2>2, ContentFacts
      <4>2. EmptyFile.len = 0
        BY DEF EmptyFile
      <4> QED BY <3>1, <4>1, <4>2
    <3>4. PICK j \in runs[n].with : WritesTo(j, Target(q))
      BY <1>0, <1>3, <1>7, <1>11, <2>1, <3>3, NotAlone
    <3>5. j \in DOMAIN runs /\ j \in runs'[n].with
      BY <1>1, <1>3 DEF BesideOK
    <3>6. WritesTo(j, f)'
      <4>1. runs'[j].main = runs[j].main /\ runs'[j].flags = runs[j].flags
        BY <3>5 DEF Kept
      <4> QED BY <1>11, <3>4, <4>1, SameKind DEF WritesTo
    <3>7. Blamed(f, c)'
      BY <1>1, <1>6, <1>7, <1>11, <3>2, <3>5, <3>6 DEF Blamed
    <3>8. Origin(c)'
      BY <3>2 DEF Origin
    <3> QED BY <1>4, <3>7, <3>8, FileAs
  <2> QED BY <2>3, <2>4
<1> HIDE DEF q, h
<1> QED BY <1>5, <1>8, <1>9, <1>10, <1>11

\* The file of the last run that wrote it is as it should be.
LEMMA MovesWritten ==
  ASSUME TypeOK, InOrder, \A n \in DOMAIN runs : RunOK(n), NEW p \in Process, NEW r \in Run,
         Moves(p, r), Well(p, r) \/ Wrong(p, r), NEW n \in DOMAIN runs, WrittenOK(n)
  PROVE  WrittenOK(n)'
<1> DEFINE h == Head(todo[p])
           q == R(p)
<1>0. PICK m : m = cur[p]
  OBVIOUS
<1>1. /\ cur[p] # 0 /\ m \in DOMAIN runs /\ runs'[m] = r /\ q = runs[m] /\ m \in Running
      /\ r.main = q.main /\ r.flags = q.flags /\ r.with = q.with
  BY <1>0, MovesOne DEF Moves, R, Running
<1>2. q.main \in Mains /\ h \in StepsOf(q) /\ StepsOf(q) \subseteq StepName /\ q \in Run
  BY <1>1, Place
<1>3. /\ DOMAIN runs' = DOMAIN runs /\ Len(runs') = Len(runs)
      /\ \A k \in DOMAIN runs : /\ runs'[k].main = runs[k].main /\ runs'[k].flags = runs[k].flags
                               /\ runs'[k].with = runs[k].with
  BY MovesOne
<1>4. \A k \in DOMAIN runs : /\ Writes(runs'[k]) = Writes(runs[k])
                             /\ Target(runs'[k]) = Target(runs[k])
                             /\ MakesKeys(runs'[k]) = MakesKeys(runs[k])
  BY <1>3, SameKind
<1>5. \A m1 \in DOMAIN runs : BesideOK(m1)
  BY DEF RunOK
<1> DEFINE f == Target(runs[n])
<1>6. Last(n)' => Last(n)
  <2>1. SUFFICES ASSUME Last(n)', NEW k \in runs[n].with \union (n + 1)..Len(runs) PROVE ~WritesTo(k, f)
    BY DEF Last
  <2>2. k \in DOMAIN runs
    <3>1. runs[n].with \subseteq DOMAIN runs
      BY <1>5 DEF BesideOK
    <3> QED BY <3>1, Types
  <2>3. k \in runs'[n].with \union (n + 1)..Len(runs')
    BY <1>3
  <2>4. ~(Writes(runs'[k]) /\ Target(runs'[k]) = Target(runs'[n]))
    BY <2>1, <2>3 DEF Last, WritesTo
  <2> QED BY <1>4, <2>2, <2>4 DEF WritesTo
<1>7. f \in DOMAIN file
  <2>1. runs[n] \in Run
    BY Types
  <2> QED BY <2>1, FlagFacts DEF TypeOK
<1>8. h \in {"Truncate", "Write"} => Writes(q)
  BY <1>2, StepKind
<1> SUFFICES ASSUME Writes(runs[n]), Last(n)
             PROVE  /\ AtWrite(n)' => file'[f] = EmptyFile
                    /\ Passed(n, "Write")' => file'[f] = Output(runs'[n])
  BY <1>4, <1>6 DEF WrittenOK
<1>9. CASE n # m
  <2>1. Stays(n) /\ runs'[n] = runs[n]
    BY <1>0, <1>9, OthersStay, MovesOne
  <2>2. f # Target(q) \/ h \notin {"Truncate", "Write"}
    <3> SUFFICES ASSUME f = Target(q), h \in {"Truncate", "Write"} PROVE FALSE
      OBVIOUS
    <3>1. WritesTo(m, f)
      BY <1>1, <1>8 DEF WritesTo
    <3>2. m \in runs[n].with \/ n < m
      BY <1>1, <1>5, <1>9, Overlap
    <3>3. m \in runs[n].with \union (n + 1)..Len(runs)
      BY <1>1, <3>2, Types
    <3> QED BY <3>1, <3>3 DEF Last
  <2>3. file'[f] = file[f]
    BY <1>1, <1>7, <2>2, FileAfter
  <2>4. (AtWrite(n)' <=> AtWrite(n)) /\ (Passed(n, "Write")' <=> Passed(n, "Write"))
    BY <2>1 DEF Stays, Passed
  <2>5. /\ AtWrite(n) => file[f] = EmptyFile
        /\ Passed(n, "Write") => file[f] = Output(runs[n])
    BY DEF WrittenOK
  <2> QED BY <2>1, <2>3, <2>4, <2>5
<1>10. CASE n = m
  <2>1. f = Target(q) /\ Writes(q)
    BY <1>1, <1>10
  <2>2. ASSUME AtWrite(n)' PROVE file'[f] = EmptyFile
    <3>1. r.exit = "running" /\ Head(Tail(todo[p])) = "Write"
      BY <1>0, <1>1, <1>10, <2>2, MovesAhead
    <3>2. Len(todo[p]) # 1 /\ Well(p, r)
      BY <3>1 DEF Moves, Wrong
    <3>3. h = "Truncate"
      BY <1>1, <2>1, <3>1, <3>2, BeforeWrite
    <3> QED BY <1>1, <1>7, <2>1, <3>2, <3>3, FileAfter
  <2>3. ASSUME Passed(n, "Write")' PROVE file'[f] = Output(runs'[n])
    <3>1. Well(p, r) /\ (Passed(n, "Write") \/ h = "Write")
      BY <1>0, <1>10, <2>3, ActorPassed
    <3>2. ASSUME r.pair = q.pair, r.message = q.message PROVE Output(r) = Output(q)
      <4>1. MakesKeys(r) = MakesKeys(q)
        BY <1>1, SameKind
      <4> QED BY <3>2, <4>1 DEF Output
    <3>3. CASE h = "Write"
      <4>1. Output(r) = Output(q)
        BY <3>1, <3>2, <3>3 DEF Well, Result
      <4>2. AtWrite(n)
        BY <1>0, <1>1, <1>10, <3>3, MovesAhead
      <4>3. file[f] = EmptyFile
        BY <4>2 DEF WrittenOK
      <4>4. file'[f] = IF file[f].len > Output(q).len THEN Torn(file[f].len) ELSE Output(q)
        BY <1>1, <1>7, <2>1, <3>1, <3>3, FileAfter
      <4>5. Output(q) \in Content
        <5>1. AtStep(p, "Write") /\ RunOK(cur[p])
          BY <1>0, <1>1, <3>3 DEF AtStep
        <5> QED BY <5>1, OutputFacts
      <4>6. Output(q).len \in Nat /\ EmptyFile.len = 0
        BY <4>5, ContentFacts DEF EmptyFile
      <4>7. ~(file[f].len > Output(q).len)
        BY <4>3, <4>6
      <4> QED BY <1>1, <1>10, <4>1, <4>4, <4>7
    <3>4. CASE h # "Write"
      <4>1. ~Ahead(p, "Write")
        BY <1>0, <1>1, <1>10, <3>1, <3>4, Behind
      <4>2. "Write" \in StepsOf(q)
        BY <1>2, <2>1, StepKind
      <4>3. ~(Rank[h] <= Rank["Write"])
        BY <1>1, <4>1, <4>2, Place
      <4>4. h = "Open"
        BY <1>2, <4>3 DEF StepName, Rank
      <4>5. Output(r) = Output(q)
        BY <3>1, <3>2, <4>4 DEF Well, Result
      <4>6. file'[f] = file[f]
        BY <1>1, <1>7, <4>4, FileAfter
      <4>7. file[f] = Output(runs[n])
        BY <3>1, <3>4 DEF WrittenOK
      <4> QED BY <1>1, <1>10, <4>5, <4>6, <4>7
    <3> QED BY <3>3, <3>4
  <2> QED BY <2>2, <2>3
<1> QED BY <1>9, <1>10

-----------------------------------------------------------------------------
(* A program is started. *)

NewRun(main, f) ==
  [main |-> main, flags |-> f, with |-> Running, since |-> events, until |-> events,
   exit |-> "running", pair |-> NoPair, message |-> NoFile, printed |-> NoText]

\* Shell p starts run n of program main.
Begun(p, n, main, f) ==
  /\ cur[p] = 0 /\ n = Len(runs) + 1 /\ main \in Mains /\ f \in Flags
  /\ runs' = Append(
       [k \in DOMAIN runs |->
          IF k \in Running THEN [runs[k] EXCEPT !.with = @ \union {n}] ELSE runs[k]],
       NewRun(main, f))
  /\ cur' = [cur EXCEPT ![p] = n] /\ todo' = [todo EXCEPT ![p] = main.steps]
  /\ file' = file /\ device' = device /\ events' = events

LEMMA StartBegins ==
  ASSUME NEW p \in Process, Start(p)
  PROVE  \E n, main, f : Begun(p, n, main, f)
<1>1. PICK main \in UNION Suite, f \in Flags :
        LET n == Len(runs) + 1
        IN /\ cur[p] = 0
           /\ runs' = Append(
                [k \in DOMAIN runs |->
                   IF k \in Running THEN [runs[k] EXCEPT !.with = @ \union {n}] ELSE runs[k]],
                NewRun(main, f))
           /\ cur' = [cur EXCEPT ![p] = n] /\ todo' = [todo EXCEPT ![p] = main.steps]
           /\ file' = file /\ device' = device /\ events' = events
  BY DEF Start, NewRun
<1>2. main \in Mains
  BY SuiteAssumption
<1> QED BY <1>1, <1>2 DEF Begun

\* The runs there were before go on beside the new one.
Joins(n, r) ==
  /\ n \in Nat /\ n \notin DOMAIN runs /\ DOMAIN runs' = DOMAIN runs \union {n}
  /\ Len(runs') = n /\ runs' \in Seq(Run) /\ runs'[n] = r
  /\ \A k \in DOMAIN runs :
       /\ runs'[k].main = runs[k].main /\ runs'[k].flags = runs[k].flags
       /\ runs'[k].since = runs[k].since /\ runs'[k].until = runs[k].until
       /\ runs'[k].exit = runs[k].exit /\ runs'[k].pair = runs[k].pair
       /\ runs'[k].message = runs[k].message /\ runs'[k].printed = runs[k].printed
       /\ runs'[k].with = runs[k].with \union (IF k \in Running THEN {n} ELSE {})
  /\ Running \subseteq DOMAIN runs

LEMMA BegunRuns ==
  ASSUME TypeOK, NEW p \in Process, NEW n, NEW main, NEW f, Begun(p, n, main, f)
  PROVE  Joins(n, NewRun(main, f))
<1> DEFINE grown == [k \in DOMAIN runs |->
                       IF k \in Running THEN [runs[k] EXCEPT !.with = @ \union {n}] ELSE runs[k]]
<1>1. /\ DOMAIN runs = 1..Len(runs) /\ Len(runs) \in Nat /\ n = Len(runs) + 1
      /\ \A k \in DOMAIN runs : runs[k] \in Run
  BY Types DEF Begun
<1>2. Running \subseteq DOMAIN runs
  BY Types DEF Running
<1>3. NewRun(main, f) \in Run
  <2>1. Running \subseteq Nat
    BY <1>1, <1>2
  <2>2. NoFile \in Content /\ events \in Nat
    BY ContentFacts DEF TypeOK
  <2> QED BY <2>1, <2>2 DEF NewRun, Run, Begun
<1>4. \A k \in DOMAIN runs : grown[k] \in Run
  <2>1. TAKE k \in DOMAIN runs
  <2>2. runs[k] \in Run /\ n \in Nat
    BY <1>1
  <2>3. runs[k].with \union {n} \in SUBSET Nat
    BY <2>2 DEF Run
  <2>4. [runs[k] EXCEPT !.with = @ \union {n}] \in Run
    BY <2>2, <2>3 DEF Run
  <2> QED BY <2>2, <2>4
<1>5. \A k \in DOMAIN runs :
        /\ grown[k].main = runs[k].main /\ grown[k].flags = runs[k].flags
        /\ grown[k].since = runs[k].since /\ grown[k].until = runs[k].until
        /\ grown[k].exit = runs[k].exit /\ grown[k].pair = runs[k].pair
        /\ grown[k].message = runs[k].message /\ grown[k].printed = runs[k].printed
        /\ grown[k].with = runs[k].with \union (IF k \in Running THEN {n} ELSE {})
  <2>1. TAKE k \in DOMAIN runs
  <2>2. runs[k] \in Run
    BY <1>1
  <2> QED BY <2>2 DEF Run
<1>6. grown \in Seq(Run) /\ Len(grown) = Len(runs)
  BY <1>1, <1>4
<1>7. runs' = Append(grown, NewRun(main, f))
  BY DEF Begun
<1> HIDE DEF grown
<1>8. /\ runs' \in Seq(Run) /\ Len(runs') = n /\ runs'[n] = NewRun(main, f)
      /\ \A k \in DOMAIN runs : runs'[k] = grown[k]
  BY <1>1, <1>3, <1>6, <1>7
<1>9. DOMAIN runs' = DOMAIN runs \union {n} /\ n \in Nat /\ n \notin DOMAIN runs
  BY <1>1, <1>8
<1> QED BY <1>2, <1>5, <1>8, <1>9 DEF Joins

\* They stay as they are.
LEMMA BegunStays ==
  ASSUME TypeOK, NEW p \in Process, NEW n, NEW main, NEW f, Begun(p, n, main, f)
  PROVE  /\ \A k \in DOMAIN runs : Stays(k)
         /\ Kept /\ OriginKept /\ Counted
<1>1. /\ DOMAIN runs' = DOMAIN runs \union {n} /\ n \notin DOMAIN runs
      /\ \A k \in DOMAIN runs :
              /\ runs'[k].main = runs[k].main /\ runs'[k].flags = runs[k].flags
              /\ runs'[k].since = runs[k].since /\ runs'[k].until = runs[k].until
              /\ runs'[k].exit = runs[k].exit /\ runs'[k].pair = runs[k].pair
              /\ runs'[k].message = runs[k].message /\ runs'[k].printed = runs[k].printed
              /\ runs'[k].with = runs[k].with \union (IF k \in Running THEN {n} ELSE {})
  BY BegunRuns DEF Joins
<1>2. /\ cur \in [Process -> Nat] /\ todo \in [Process -> Seq(StepName)]
      /\ cur' = [cur EXCEPT ![p] = n] /\ todo' = [todo EXCEPT ![p] = main.steps]
      /\ cur[p] = 0
  BY DEF TypeOK, Begun
<1>3. \A q \in Process : q # p => cur'[q] = cur[q] /\ todo'[q] = todo[q]
  BY <1>2
<1>4. ASSUME NEW k \in DOMAIN runs PROVE Stays(k)
  <2>1. k # 0 /\ k # n
    BY <1>1, Types
  <2>2. \A q \in Process : (cur'[q] = k <=> cur[q] = k) /\ (cur[q] = k => q # p)
    BY <1>2, <1>3, <2>1
  <2>3. \A s : Pending(k, s)' <=> Pending(k, s)
    BY <1>3, <2>2 DEF Pending, Ahead
  <2>4. AtWrite(k)' <=> AtWrite(k)
    BY <1>3, <2>1, <2>2 DEF AtWrite, AtStep
  <2> QED BY <1>1, <2>3, <2>4 DEF Stays
<1>5. Kept
  BY <1>1 DEF Kept
<1>6. ASSUME NEW c, Origin(c) PROVE Origin(c)'
  <2>1. ASSUME NEW m \in DOMAIN runs, SealedBy(m, c) PROVE SealedBy(m, c)'
    <3>1. Encrypts(runs'[m]) = Encrypts(runs[m]) /\ runs'[m].message = runs[m].message
      BY <1>1, SameKind
    <3> QED BY <2>1, <3>1 DEF SealedBy
  <2> QED BY <1>1, <1>6, <2>1 DEF Origin
<1>7. Counted
  BY DEF Begun, Counted
<1> QED BY <1>4, <1>5, <1>6, <1>7 DEF OriginKept

\* The steps the new run has ahead.
LEMMA BegunAhead ==
  ASSUME TypeOK, NEW p \in Process, NEW n, NEW main, NEW f, Begun(p, n, main, f)
  PROVE  /\ main.steps \in Seq(StepName) /\ main.steps # <<>>
         /\ main.steps = SubSeq(main.steps, 1, Len(main.steps)) /\ 1 \in 1..Len(main.steps)
         /\ \A s \in StepsOf(NewRun(main, f)) : ~Passed(n, s)'
         /\ ~AtWrite(n)'
<1> DEFINE s == main.steps
           S == StepsOf(NewRun(main, f))
<1>1. NewRun(main, f).main = main /\ main \in Mains
  BY DEF NewRun, Begun
<1>2. Rises(s) /\ Consists(s, S)
  <2>1. PICK r : r = NewRun(main, f)
    OBVIOUS
  <2> QED BY <1>1, <2>1, KindFacts
<1>3. /\ cur \in [Process -> Nat] /\ todo \in [Process -> Seq(StepName)]
      /\ cur' = [cur EXCEPT ![p] = n] /\ todo' = [todo EXCEPT ![p] = s]
  BY DEF TypeOK, Begun
<1>4. \A q \in Process : cur'[q] = n <=> q = p
  <2>1. \A q \in Process : cur[q] # n
    BY Types DEF Begun
  <2> QED BY <1>3, <2>1
<1>5. todo'[p] = s /\ cur'[p] = n
  BY <1>3
<1> HIDE DEF s, S
<1>6. s \in Seq(StepName) /\ s # <<>>
  BY <1>2 DEF Rises
<1>7. Len(s) \in Nat /\ Len(s) >= 1 /\ 1 \in 1..Len(s)
  BY <1>6
<1>8. SubSeq(s, 1, Len(s)) = s
  BY <1>6, <1>7
<1>9. ASSUME NEW x \in S PROVE ~Passed(n, x)'
  <2>1. \E i \in 1..Len(s) : s[i] = x
    BY <1>2 DEF Consists
  <2>2. Ahead(p, x)'
    BY <1>5, <2>1 DEF Ahead
  <2>3. Pending(n, x)'
    BY <1>5, <2>2 DEF Pending
  <2> QED BY <2>3 DEF Passed
<1>10. ~AtWrite(n)'
  <2>1. Begins(s, S, Head(s))
    BY <1>2, <1>7, <1>8, RankInList
  <2>2. Head(s) \in StepName
    BY <2>1 DEF Begins
  <2>3. ASSUME NEW x \in S PROVE Rank[Head(s)] <= Rank[x]
    <3>1. \E i \in 1..Len(s) : s[i] = x
      BY <1>2 DEF Consists
    <3> QED BY <2>1, <3>1 DEF Begins, Has
  <2>4. "Write" \in S => "Truncate" \in S
    BY <1>1, StepKind DEF S
  <2>5. Head(s) # "Write"
    <3>1. ~(Rank["Write"] <= Rank["Truncate"])
      BY DEF Rank
    <3>2. Head(s) \in S
      BY <2>1 DEF Begins
    <3> QED BY <2>3, <2>4, <3>1, <3>2
  <2> QED BY <1>4, <1>5, <2>5 DEF AtWrite, AtStep
<1> QED BY <1>6, <1>7, <1>8, <1>9, <1>10 DEF s, S

LEMMA BegunOrder ==
  ASSUME TypeOK, InOrder, \A k \in DOMAIN runs : BesideOK(k),
         NEW p \in Process, NEW n, NEW main, NEW f, Begun(p, n, main, f)
  PROVE  TypeOK' /\ InOrder' /\ \A k \in DOMAIN runs' : BesideOK(k)'
<1>1. /\ n \in Nat /\ n \notin DOMAIN runs /\ DOMAIN runs' = DOMAIN runs \union {n}
      /\ Len(runs') = n /\ runs' \in Seq(Run) /\ runs'[n] = NewRun(main, f)
      /\ Running \subseteq DOMAIN runs
  <2>1. Joins(n, NewRun(main, f))
    BY BegunRuns
  <2> QED BY <2>1 DEF Joins
<1>2. \A k \in DOMAIN runs :
        /\ runs'[k].main = runs[k].main /\ runs'[k].exit = runs[k].exit
        /\ runs'[k].since = runs[k].since /\ runs'[k].until = runs[k].until
        /\ runs'[k].with = runs[k].with \union (IF k \in Running THEN {n} ELSE {})
  <2>1. Joins(n, NewRun(main, f))
    BY BegunRuns
  <2> QED BY <2>1 DEF Joins
<1>3. /\ NewRun(main, f).exit = "running" /\ NewRun(main, f).with = Running
      /\ NewRun(main, f).main = main
      /\ NewRun(main, f).since = events /\ NewRun(main, f).until = events
  BY DEF NewRun
<1>4. /\ main.steps \in Seq(StepName) /\ main.steps # <<>>
      /\ main.steps = SubSeq(main.steps, 1, Len(main.steps)) /\ 1 \in 1..Len(main.steps)
  BY BegunAhead
<1>5. /\ cur \in [Process -> Nat] /\ todo \in [Process -> Seq(StepName)]
      /\ cur' = [cur EXCEPT ![p] = n] /\ todo' = [todo EXCEPT ![p] = main.steps]
      /\ cur[p] = 0 /\ n = Len(runs) + 1
      /\ \A q \in Process : cur[q] \in 0..Len(runs) /\ (cur[q] # 0 <=> todo[q] # <<>>)
      /\ \A k \in DOMAIN runs : runs[k].exit = "running" <=> k \in Running
      /\ DOMAIN runs = 1..Len(runs) /\ Len(runs) \in Nat
  BY Types DEF TypeOK, Begun
<1>6. /\ \A q \in Process : q # p => cur'[q] = cur[q] /\ todo'[q] = todo[q]
      /\ cur'[p] = n /\ todo'[p] = main.steps
  BY <1>5
<1>7. Running' = Running \union {n}
  <2>1. Running' = {cur'[q] : q \in Process} \ {0} /\ Running = {cur[q] : q \in Process} \ {0}
    BY DEF Running
  <2>2. n # 0
    BY <1>5
  <2> QED BY <1>5, <1>6, <2>1, <2>2
<1>8. TypeOK'
  <2>1. \A q \in Process : cur'[q] \in 0..Len(runs') /\ (cur'[q] # 0 <=> todo'[q] # <<>>)
    <3>1. TAKE q \in Process
    <3>2. CASE q = p
      BY <1>1, <1>4, <1>5, <1>6, <3>2
    <3>3. CASE q # p
      BY <1>1, <1>5, <1>6, <3>3
    <3> QED BY <3>2, <3>3
  <2>2. \A k \in DOMAIN runs' : runs'[k].exit = "running" <=> k \in Running'
    BY <1>1, <1>2, <1>3, <1>5, <1>7
  <2>3. cur' \in [Process -> Nat] /\ todo' \in [Process -> Seq(StepName)]
    BY <1>1, <1>4, <1>5
  <2>4. file' \in [DOMAIN InitFile -> Content] /\ device' \in Device /\ events' \in Nat
    BY DEF Begun, TypeOK
  <2> QED BY <1>1, <2>1, <2>2, <2>3, <2>4 DEF TypeOK
<1>9. InOrder'
  <2>1. \A q, s \in Process : cur'[q] = cur'[s] /\ cur'[q] # 0 => q = s
    <3>1. \A q \in Process : cur[q] # n
      BY <1>5
    <3>2. \A q, s \in Process : cur[q] = cur[s] /\ cur[q] # 0 => q = s
      BY DEF InOrder
    <3> QED BY <1>6, <3>1, <3>2
  <2>2. ASSUME NEW q \in Process, cur'[q] # 0
        PROVE  \E i \in 1..Len(R(q)'.main.steps) :
                 todo'[q] = SubSeq(R(q)'.main.steps, i, Len(R(q)'.main.steps))
    <3>1. CASE q = p
      <4>1. R(q)'.main = main
        BY <1>1, <1>3, <1>6, <3>1 DEF R
      <4> QED BY <1>4, <1>6, <3>1, <4>1
    <3>2. CASE q # p
      <4>1. cur'[q] = cur[q] /\ cur[q] # 0 /\ cur[q] \in DOMAIN runs
        BY <1>5, <1>6, <2>2, <3>2
      <4>2. R(q)'.main = R(q).main
        BY <1>2, <4>1 DEF R
      <4>3. \E i \in 1..Len(R(q).main.steps) :
              todo[q] = SubSeq(R(q).main.steps, i, Len(R(q).main.steps))
        BY <4>1 DEF InOrder
      <4> QED BY <1>6, <3>2, <4>2, <4>3
    <3> QED BY <3>1, <3>2
  <2> QED BY <2>1, <2>2 DEF InOrder
<1>10. BesideOK(n)'
  <2>1. runs'[n].with = Running /\ runs'[n].since = events /\ runs'[n].until = events
    BY <1>1, <1>3
  <2>2. \A m \in Running : n \in runs'[m].with
    BY <1>1, <1>2
  <2>3. \A m \in Running' : m < n => m \in Running
    BY <1>1, <1>7
  <2>4. events <= events /\ events' = events
    BY DEF TypeOK, Begun
  <2> QED BY <1>1, <2>1, <2>2, <2>3, <2>4 DEF BesideOK
<1>11. ASSUME NEW k \in DOMAIN runs PROVE BesideOK(k)'
  <2>1. BesideOK(k) /\ k # n /\ k <= Len(runs) /\ k \in Nat
    BY <1>1, <1>5
  <2>2. runs'[k].with = runs[k].with \union (IF k \in Running THEN {n} ELSE {})
    BY <1>2
  <2>3. runs'[k].with \subseteq DOMAIN runs' \ {k}
    BY <1>1, <2>1, <2>2 DEF BesideOK
  <2>4. ASSUME NEW m \in runs'[k].with PROVE k \in runs'[m].with
    <3>1. CASE m \in runs[k].with
      BY <1>2, <2>1, <3>1 DEF BesideOK
    <3>2. CASE m = n
      <4>1. k \in Running
        BY <1>1, <2>1, <2>2, <2>4, <3>2 DEF BesideOK
      <4> QED BY <1>1, <1>3, <3>2, <4>1
    <3> QED BY <2>2, <2>4, <3>1, <3>2
  <2>5. ASSUME NEW m \in Running', m < k PROVE m \in runs'[k].with
    <3>1. m \in Running
      BY <1>5, <1>7, <2>1, <2>5
    <3> QED BY <2>1, <2>2, <2>5, <3>1 DEF BesideOK
  <2>6. runs'[k].since <= runs'[k].until /\ runs'[k].until <= events'
    BY <1>2, <2>1 DEF BesideOK, Begun
  <2> QED BY <2>3, <2>4, <2>5, <2>6 DEF BesideOK
<1> QED BY <1>1, <1>8, <1>9, <1>10, <1>11

\* The new run has not got hold of anything.
LEMMA BegunNew ==
  ASSUME TypeOK, NEW p \in Process, NEW n, NEW main, NEW f, Begun(p, n, main, f), BesideOK(n)'
  PROVE  RunOK(n)' /\ WrittenOK(n)'
<1> DEFINE r == NewRun(main, f)
<1>1. runs'[n] = r /\ n \in DOMAIN runs'
  <2>1. Joins(n, r)
    BY BegunRuns
  <2> QED BY <2>1 DEF Joins
<1>2. /\ r.main = main /\ main \in Mains /\ r.exit = "running" /\ r.pair = NoPair
      /\ r.message = NoFile /\ r.printed = NoText
  BY DEF NewRun, Begun
<1>3. (\A s \in StepsOf(r) : ~Passed(n, s)') /\ ~AtWrite(n)'
  BY BegunAhead
<1>4. /\ (IF MakesKeys(r) THEN "NewKey" ELSE "ReadKeys") \in StepsOf(r)
      /\ Encrypts(r) => "Seal" \in StepsOf(r)
      /\ Writes(r) => "Write" \in StepsOf(r)
      /\ "pcrs" \in r.main.has => "GetPCRMap" \in StepsOf(r)
  <2>1. PICK q : q = r
    OBVIOUS
  <2> QED BY <1>2, <2>1, StepKind
<1> HIDE DEF r
<1>5. PairOK(n)'
  <2>1. ~Passed(n, IF MakesKeys(runs[n]) THEN "NewKey" ELSE "ReadKeys")'
    <3>1. PICK s : s = IF MakesKeys(runs'[n]) THEN "NewKey" ELSE "ReadKeys"
      OBVIOUS
    <3>2. ~Passed(n, s)'
      BY <1>1, <1>3, <1>4, <3>1
    <3> QED BY <3>1, <3>2 DEF Passed, Pending, Ahead
  <2> QED BY <1>1, <1>2, <2>1 DEF PairOK
<1>6. PrintedOK(n)'
  BY <1>1, <1>2, <1>3, <1>4 DEF PrintedOK
<1>7. Encrypts(r) => SealedOK(n)'
  BY <1>1, <1>2, <1>3, <1>4 DEF SealedOK
<1>8. Decrypts(r) => ReadOK(n)'
  <2>1. NoFile.kind = "none"
    BY DEF NoFile
  <2> QED BY <1>1, <1>2, <2>1 DEF ReadOK, Origin
<1>9. WrittenOK(n)'
  BY <1>1, <1>3, <1>4 DEF WrittenOK
<1> QED BY <1>1, <1>2, <1>5, <1>6, <1>7, <1>8, <1>9 DEF RunOK

-----------------------------------------------------------------------------
(* Steps that touch no file. *)

LEMMA QuietFile ==
  ASSUME TypeOK, \A k \in DOMAIN runs : BesideOK(k), \A k \in DOMAIN runs : Stays(k),
         Kept, OriginKept, file' = file, NEW f, FileOK(f)
  PROVE  FileOK(f)'
<1>1. PICK c : c = file[f]
  OBVIOUS
<1>2. Origin(c) /\ Blamed(f, c)
  BY <1>1 DEF FileOK, Blamed
<1>3. \A k \in DOMAIN runs : AtWrite(k) => GivenUp(k)'
  BY DEF Stays, GivenUp
<1>4. Blamed(f, c)'
  BY <1>2, <1>3, BlameStays
<1>5. Origin(c)'
  BY <1>2 DEF OriginKept
<1> QED BY <1>1, <1>4, <1>5, FileAs

LEMMA QuietWritten ==
  ASSUME TypeOK, \A k \in DOMAIN runs : BesideOK(k), NEW n \in DOMAIN runs, Stays(n),
         Kept, file' = file, Len(runs') \in Nat, Len(runs) <= Len(runs'), WrittenOK(n)
  PROVE  WrittenOK(n)'
<1>1. /\ runs'[n].main = runs[n].main /\ runs'[n].flags = runs[n].flags
      /\ runs'[n].pair = runs[n].pair /\ runs'[n].message = runs[n].message
      /\ runs[n].with \subseteq runs'[n].with
  BY DEF Stays
<1>2. /\ Writes(runs'[n]) = Writes(runs[n]) /\ Target(runs'[n]) = Target(runs[n])
      /\ MakesKeys(runs'[n]) = MakesKeys(runs[n])
  BY <1>1, SameKind
<1>3. Output(runs'[n]) = Output(runs[n])
  BY <1>1, <1>2 DEF Output
<1>4. (AtWrite(n)' <=> AtWrite(n)) /\ (Passed(n, "Write")' <=> Passed(n, "Write"))
  BY DEF Stays, Passed
<1>5. Last(n)' => Last(n)
  <2> SUFFICES ASSUME Last(n)', NEW k \in runs[n].with \union (n + 1)..Len(runs)
               PROVE  ~WritesTo(k, Target(runs[n]))
    BY DEF Last
  <2>1. k \in DOMAIN runs
    <3>1. runs[n].with \subseteq DOMAIN runs
      BY DEF BesideOK
    <3> QED BY <3>1, Types
  <2>2. k \in runs'[n].with \union (n + 1)..Len(runs')
    BY <1>1, Types
  <2>3. ~(Writes(runs'[k]) /\ Target(runs'[k]) = Target(runs'[n]))
    BY <2>2 DEF Last, WritesTo
  <2>4. runs'[k].main = runs[k].main /\ runs'[k].flags = runs[k].flags
    BY <2>1 DEF Kept
  <2>5. Writes(runs'[k]) = Writes(runs[k]) /\ Target(runs'[k]) = Target(runs[k])
    BY <2>4, SameKind
  <2> QED BY <1>2, <2>3, <2>5 DEF WritesTo
<1> QED BY <1>2, <1>3, <1>4, <1>5 DEF WrittenOK

\* A start keeps the parts of the invariant.
LEMMA StartKeeps ==
  ASSUME TypeOK, InOrder, \A k \in DOMAIN runs : RunOK(k), \A k \in DOMAIN runs : WrittenOK(k),
         \A g \in DOMAIN file : FileOK(g),
         NEW p \in Process, NEW n, NEW main, NEW f, Begun(p, n, main, f)
  PROVE  /\ TypeOK' /\ InOrder' /\ \A k \in DOMAIN runs' : RunOK(k)' /\ WrittenOK(k)'
         /\ \A g \in DOMAIN file' : FileOK(g)'
<1>1. \A k \in DOMAIN runs : BesideOK(k)
  BY DEF RunOK
<1>2. TypeOK' /\ InOrder' /\ \A k \in DOMAIN runs' : BesideOK(k)'
  BY <1>1, BegunOrder
<1>3. (\A k \in DOMAIN runs : Stays(k)) /\ Kept /\ OriginKept /\ Counted
  BY BegunStays
<1>4. DOMAIN runs' = DOMAIN runs \union {n} /\ Len(runs') = n /\ n = Len(runs) + 1 /\ Len(runs) \in Nat
  <2>1. Joins(n, NewRun(main, f))
    BY BegunRuns
  <2> QED BY <2>1, Types DEF Joins, Begun
<1>5. file' = file
  BY DEF Begun
<1>6. ASSUME NEW k \in DOMAIN runs PROVE RunOK(k)' /\ WrittenOK(k)'
  <2>1. RunOK(k)'
    BY <1>2, <1>3, <1>4, RunStays
  <2>2. Len(runs') \in Nat /\ Len(runs) <= Len(runs')
    BY <1>4
  <2>3. WrittenOK(k)'
    BY <1>1, <1>3, <1>5, <2>2, QuietWritten
  <2> QED BY <2>1, <2>3
<1>7. RunOK(n)' /\ WrittenOK(n)'
  BY <1>2, <1>4, BegunNew
<1>8. ASSUME NEW g \in DOMAIN file' PROVE FileOK(g)'
  <2>1. FileOK(g)
    BY <1>5
  <2> QED BY <1>1, <1>3, <1>5, <2>1, QuietFile
<1> QED BY <1>2, <1>4, <1>6, <1>7, <1>8

\* So does an event that changes the device.
DeviceStep == ExtendPCR \/ ChangeOwner

LEMMA DeviceStays ==
  ASSUME TypeOK, DeviceStep
  PROVE  /\ runs' = runs /\ cur' = cur /\ todo' = todo /\ file' = file /\ events' = events + 1
         /\ device' \in Device
         /\ \A k \in DOMAIN runs : Stays(k)
         /\ Kept /\ OriginKept /\ Counted
<1>1. runs' = runs /\ cur' = cur /\ todo' = todo /\ file' = file /\ events' = events + 1
  BY DEF DeviceStep, ExtendPCR, ChangeOwner, Happens
<1>2. device' \in Device
  <2>1. device \in Device
    BY DEF TypeOK
  <2>2. CASE ExtendPCR
    <3>1. PICK v \in PCRValue : device' = [device EXCEPT !.pcr = v]
      BY <2>2 DEF ExtendPCR
    <3>2. v \in STRING
      BY ValueAssumption
    <3> QED BY <2>1, <3>1, <3>2 DEF Device
  <2>3. CASE ChangeOwner
    <3>1. \A a \in Password : a \in STRING
      BY ValueAssumption
    <3>2. NoPassword \in Password
      BY PasswordAssumption
    <3>3. CASE \E a \in Password : device' = [device EXCEPT !.auth = a]
      BY <2>1, <3>1, <3>3 DEF Device
    <3>4. CASE device' = [device EXCEPT !.auth = NoPassword, !.seed = @ + 1]
      <4>1. NoPassword \in STRING
        BY <3>1, <3>2
      <4>2. device.seed + 1 \in Nat
        BY <2>1 DEF Device
      <4> QED BY <2>1, <3>4, <4>1, <4>2 DEF Device
    <3> QED BY <2>3, <3>3, <3>4 DEF ChangeOwner
  <2> QED BY <2>2, <2>3 DEF DeviceStep
<1>3. ASSUME NEW k \in DOMAIN runs PROVE Stays(k)
  <2>1. \A s : Pending(k, s)' <=> Pending(k, s)
    BY <1>1 DEF Pending, Ahead
  <2>2. AtWrite(k)' <=> AtWrite(k)
    BY <1>1 DEF AtWrite, AtStep
  <2> QED BY <1>1, <2>1, <2>2 DEF Stays
<1>4. Kept
  BY <1>1 DEF Kept
<1>5. OriginKept
  BY <1>1 DEF OriginKept, Origin, SealedBy
<1>6. Counted
  BY <1>1 DEF Counted
<1> QED BY <1>1, <1>2, <1>3, <1>4, <1>5, <1>6

LEMMA DeviceKeeps ==
  ASSUME TypeOK, InOrder, \A k \in DOMAIN runs : RunOK(k), \A k \in DOMAIN runs : WrittenOK(k),
         \A g \in DOMAIN file : FileOK(g), DeviceStep
  PROVE  /\ TypeOK' /\ InOrder' /\ \A k \in DOMAIN runs' : RunOK(k)' /\ WrittenOK(k)'
         /\ \A g \in DOMAIN file' : FileOK(g)'
<1>1. \A k \in DOMAIN runs : BesideOK(k)
  BY DEF RunOK
<1>2. /\ runs' = runs /\ cur' = cur /\ todo' = todo /\ file' = file /\ events' = events + 1
      /\ device' \in Device
      /\ \A k \in DOMAIN runs : Stays(k)
      /\ Kept /\ OriginKept /\ Counted
  BY DeviceStays
<1>3. TypeOK'
  <2>1. events' \in Nat
    BY <1>2 DEF TypeOK
  <2> QED BY <1>2, <2>1 DEF TypeOK, Running
<1>4. InOrder'
  BY <1>2 DEF InOrder, R
<1>5. ASSUME NEW k \in DOMAIN runs PROVE BesideOK(k)'
  <2>1. BesideOK(k) /\ runs[k] \in Run /\ events \in Nat
    BY <1>1, Types DEF TypeOK
  <2>2. runs[k].until <= events'
    BY <1>2, <2>1 DEF BesideOK, Run
  <2> QED BY <1>2, <2>1, <2>2 DEF BesideOK, Running
<1>6. ASSUME NEW k \in DOMAIN runs PROVE RunOK(k)' /\ WrittenOK(k)'
  <2>1. RunOK(k)'
    BY <1>2, <1>5, RunStays
  <2>2. Len(runs') \in Nat /\ Len(runs) <= Len(runs')
    BY <1>2, Types
  <2>3. WrittenOK(k)'
    BY <1>1, <1>2, <2>2, QuietWritten
  <2> QED BY <2>1, <2>3
<1>7. ASSUME NEW g \in DOMAIN file' PROVE FileOK(g)'
  <2>1. FileOK(g)
    BY <1>2
  <2> QED BY <1>1, <1>2, <2>1, QuietFile
<1> QED BY <1>2, <1>3, <1>4, <1>6, <1>7

-----------------------------------------------------------------------------
(* What one run hands on to the next. *)

Basic ==
  /\ TypeOK /\ InOrder /\ \A k \in DOMAIN runs : RunOK(k) /\ WrittenOK(k)
  /\ \A f \in DOMAIN file : FileOK(f)

\* A run that has succeeded has passed all steps.
LEMMA AllPassed ==
  ASSUME TypeOK, NEW m \in DOMAIN runs, Succeeded(m)
  PROVE  m \notin Running /\ \A s : Passed(m, s)
<1>1. m \notin Running /\ m # 0
  BY Types DEF TypeOK, Succeeded
<1>2. \A s : ~Pending(m, s)
  BY <1>1 DEF Pending, Running
<1> QED BY <1>1, <1>2 DEF Passed, Succeeded

\* Who wrote after run m, which run n follows.
LEMMA OnlyDecrypts ==
  ASSUME TypeOK, \A k \in DOMAIN runs : BesideOK(k),
         NEW m \in DOMAIN runs, NEW n \in DOMAIN runs, Follows(m, n),
         NEW k \in runs[m].with \union (m + 1)..Len(runs), k # n
  PROVE  k \in DOMAIN runs /\ Decrypts(runs[k])
<1>1. /\ m < n /\ runs[n].exit = "running" /\ n \in Nat /\ m \in Nat
      /\ \A j \in (m + 1)..(n - 1) \union runs[m].with \union runs[n].with : Decrypts(runs[j])
  <2>1. DOMAIN runs = 1..Len(runs) /\ Len(runs) \in Nat
    BY Types
  <2>2. n \in Nat /\ m \in Nat
    BY <2>1
  <2>3. NextTo(m, n) /\ runs[n].exit = "running"
    BY DEF Follows
  <2> QED BY <2>2, <2>3 DEF NextTo
<1>2. n \in Running
  BY <1>1 DEF TypeOK
<1>3. runs[m].with \subseteq DOMAIN runs /\ DOMAIN runs = 1..Len(runs) /\ Len(runs) \in Nat
  BY Types DEF BesideOK
<1>4. k \in DOMAIN runs
  BY <1>1, <1>3
<1>5. ASSUME n < k PROVE k \in runs[n].with
  <2>1. n \in runs[k].with
    BY <1>2, <1>4, <1>5 DEF BesideOK
  <2> QED BY <1>4, <2>1 DEF BesideOK
<1>6. k \in (m + 1)..(n - 1) \union runs[m].with \union runs[n].with
  BY <1>1, <1>3, <1>5
<1> QED BY <1>1, <1>4, <1>6

\* What the run that follows finds on file.
OnFile(m, n) ==
  /\ MakesKeys(runs[m]) /\ Encrypts(runs[n]) =>
       file[runs[n].flags.key] = runs[m].pair /\ runs[m].pair \in KeyFile
  /\ Encrypts(runs[m]) /\ Decrypts(runs[n]) =>
       /\ file[runs[n].flags.message] = runs[m].message
       /\ runs[m].message = SealedText(runs[m])
       /\ file[runs[n].flags.key] = runs[m].pair /\ runs[m].pair \in KeyFile

LEMMA FindsOnFile ==
  ASSUME Basic, FilesApart, \A k \in DOMAIN runs : KeysKept(k),
         NEW m \in DOMAIN runs, NEW n \in DOMAIN runs, Follows(m, n)
  PROVE  OnFile(m, n)
<1>1. /\ TypeOK /\ RunOK(m) /\ WrittenOK(m)
      /\ \A k \in DOMAIN runs : BesideOK(k)
  BY DEF Basic, RunOK
<1>2. runs[m].flags = runs[n].flags /\ Succeeded(m) /\ m < n
  BY DEF Follows, SameCommandLine, NextTo
<1>3. \A s : Passed(m, s)
  BY <1>1, <1>2, AllPassed
<1>4. runs[m].flags \in Flags /\ runs[n].flags \in Flags /\ runs[m] \in Run /\ runs[m].main \in Mains
  BY <1>1, Types
<1>5. ASSUME NEW k \in runs[m].with \union (m + 1)..Len(runs), k # n
      PROVE  k \in DOMAIN runs /\ Decrypts(runs[k])
  BY <1>1, <1>5, OnlyDecrypts
<1>6. runs[m].pair \in KeyFile
  <2>1. runs[m].pair # NoPair
    <3>1. PICK s : s = IF MakesKeys(runs[m]) THEN "NewKey" ELSE "ReadKeys"
      OBVIOUS
    <3>2. Passed(m, s)
      BY <1>3
    <3>3. PairOK(m)
      BY <1>1 DEF RunOK
    <3> QED BY <3>1, <3>2, <3>3 DEF PairOK
  <2> QED BY <1>4, <2>1 DEF Run
<1>7. ASSUME Writes(runs[m]), ~WritesTo(n, Target(runs[m]))
      PROVE  file[Target(runs[m])] = Output(runs[m])
  <2>1. \A k \in runs[m].with \union (m + 1)..Len(runs) : ~WritesTo(k, Target(runs[m]))
    BY <1>5, <1>7 DEF WritesTo, Decrypts
  <2>2. Last(m)
    BY <2>1 DEF Last
  <2> QED BY <1>1, <1>3, <1>7, <2>2 DEF WrittenOK
<1>8. ASSUME MakesKeys(runs[m]), Encrypts(runs[n])
      PROVE  file[runs[n].flags.key] = runs[m].pair
  <2>1. Writes(runs[m]) /\ Target(runs[m]) = runs[n].flags.key /\ Output(runs[m]) = runs[m].pair
    BY <1>2, <1>4, <1>8, KindFacts DEF Target, Output
  <2>2. Target(runs[n]) = runs[n].flags.message
    BY <1>8 DEF Encrypts, Target
  <2>3. ~WritesTo(n, Target(runs[m]))
    BY <1>4, <2>1, <2>2 DEF FilesApart, WritesTo
  <2> QED BY <1>7, <2>1, <2>3
<1>9. ASSUME Encrypts(runs[m]), Decrypts(runs[n])
      PROVE  /\ file[runs[n].flags.message] = runs[m].message
             /\ runs[m].message = SealedText(runs[m])
             /\ file[runs[n].flags.key] = runs[m].pair
  <2>1. Writes(runs[m]) /\ Target(runs[m]) = runs[n].flags.message /\ Output(runs[m]) = runs[m].message
    BY <1>2, <1>9 DEF Encrypts, Target, Output
  <2>2. ~WritesTo(n, Target(runs[m]))
    BY <1>9 DEF WritesTo, Decrypts
  <2>3. file[runs[n].flags.message] = runs[m].message
    BY <1>7, <2>1, <2>2
  <2>4. runs[m].message = SealedText(runs[m])
    <3>1. SealedOK(m) /\ Passed(m, "Seal")
      BY <1>1, <1>3, <1>9 DEF RunOK
    <3> QED BY <3>1 DEF SealedOK, SealedText
  <2>5. file[runs[n].flags.key] = runs[m].pair
    <3>1. runs[m].pair # NoPair
      BY <1>6, ContentFacts
    <3>2. \/ file[runs[m].flags.key] = runs[m].pair
          \/ \E k \in runs[m].with \union (m + 1)..Len(runs) :
               MakesKeys(runs[k]) /\ runs[k].flags.key = runs[m].flags.key
      BY <1>9, <3>1 DEF KeysKept
    <3>3. ASSUME NEW k \in runs[m].with \union (m + 1)..Len(runs) PROVE ~MakesKeys(runs[k])
      <4>1. k \in DOMAIN runs /\ Decrypts(runs[k])
        BY <1>5, <1>9
      <4>2. runs[k].main \in Mains
        BY <1>1, <4>1, Types
      <4> QED BY <4>1, <4>2, StepKind
    <3> QED BY <1>2, <3>2, <3>3
  <2> QED BY <2>3, <2>4, <2>5
<1> QED BY <1>6, <1>8, <1>9 DEF OnFile

-----------------------------------------------------------------------------
(* The keys stay on file. *)

\* newkey was run on the key file of run n since, or beside it.
Replaced(n) ==
  \E k \in runs[n].with \union (n + 1)..Len(runs) :
    MakesKeys(runs[k]) /\ runs[k].flags.key = runs[n].flags.key

LEMMA ReplacedStays ==
  ASSUME TypeOK, \A k \in DOMAIN runs : BesideOK(k), Kept, Len(runs') \in Nat, Len(runs) <= Len(runs'),
         NEW n \in DOMAIN runs, Replaced(n)
  PROVE  Replaced(n)'
<1>1. PICK k \in runs[n].with \union (n + 1)..Len(runs) :
         MakesKeys(runs[k]) /\ runs[k].flags.key = runs[n].flags.key
  BY DEF Replaced
<1>2. DOMAIN runs = 1..Len(runs) /\ Len(runs) \in Nat /\ runs[n].with \subseteq DOMAIN runs
  BY Types DEF BesideOK
<1>3. n \in Nat /\ k \in DOMAIN runs
  BY <1>1, <1>2
<1>4. /\ runs'[k].main = runs[k].main /\ runs'[k].flags = runs[k].flags
      /\ runs'[n].flags = runs[n].flags /\ runs[n].with \subseteq runs'[n].with
  BY <1>3 DEF Kept
<1>5. MakesKeys(runs'[k])
  BY <1>1, <1>4, SameKind
<1>6. k \in runs'[n].with \union (n + 1)..Len(runs')
  BY <1>1, <1>2, <1>3, <1>4
<1> QED BY <1>1, <1>4, <1>5, <1>6 DEF Replaced

LEMMA QuietKeys ==
  ASSUME TypeOK, \A k \in DOMAIN runs : BesideOK(k), NEW n \in DOMAIN runs, Stays(n),
         Kept, file' = file, Len(runs') \in Nat, Len(runs) <= Len(runs'), KeysKept(n)
  PROVE  KeysKept(n)'
<1>1. /\ runs'[n].main = runs[n].main /\ runs'[n].flags = runs[n].flags
      /\ runs'[n].pair = runs[n].pair
  BY DEF Stays
<1>2. Encrypts(runs'[n]) = Encrypts(runs[n])
  BY <1>1, SameKind
<1>3. Replaced(n) => Replaced(n)'
  BY ReplacedStays
<1> QED BY <1>1, <1>2, <1>3 DEF KeysKept, Replaced

LEMMA MovesKeys ==
  ASSUME TypeOK, InOrder, \A k \in DOMAIN runs : BesideOK(k), FilesApart, Kept,
         NEW p \in Process, NEW r \in Run, Moves(p, r), Well(p, r) \/ Wrong(p, r),
         NEW n \in DOMAIN runs, KeysKept(n)
  PROVE  KeysKept(n)'
<1> SUFFICES ASSUME Encrypts(runs'[n]), runs'[n].pair # NoPair
             PROVE  file'[runs'[n].flags.key] = runs'[n].pair \/ Replaced(n)'
  BY DEF KeysKept, Replaced
<1>0. PICK a : a = cur[p]
  OBVIOUS
<1>1. /\ a # 0 /\ a \in DOMAIN runs /\ runs'[a] = r /\ R(p) = runs[a] /\ Len(runs') = Len(runs)
      /\ r.main = R(p).main /\ r.flags = R(p).flags
      /\ n # a => runs'[n] = runs[n]
      /\ runs'[n].main = runs[n].main /\ runs'[n].flags = runs[n].flags
  BY <1>0, MovesOne DEF Moves, R
<1>2. PICK h : h = Head(todo[p])
  OBVIOUS
<1>3. /\ R(p).main \in Mains /\ h \in StepsOf(R(p)) /\ R(p) \in Run /\ R(p).flags \in Flags
      /\ runs[n].flags \in Flags /\ runs[n] \in Run /\ a \in Running
      /\ Len(runs) \in Nat /\ DOMAIN runs = 1..Len(runs)
  BY <1>0, <1>1, <1>2, Place, Types DEF Running
<1>4. PICK f : f = runs[n].flags.key
  OBVIOUS
<1>5. f \in DOMAIN file
  BY <1>3, <1>4, FlagFacts DEF TypeOK
<1>6. f # Target(R(p)) \/ h \notin {"Truncate", "Write"} => file'[f] = file[f]
  BY <1>0, <1>1, <1>2, <1>5, FileAfter
<1>7. Replaced(n) => Replaced(n)'
  BY <1>1, <1>3, ReplacedStays
<1>8. Encrypts(runs[n])
  BY <1>1, SameKind
<1>9. runs[n].pair # NoPair => file[f] = runs[n].pair \/ Replaced(n)
  BY <1>4, <1>8 DEF KeysKept, Replaced
<1>10. CASE n = a
  <2>1. file'[f] = file[f]
    <3>1. Target(R(p)) = R(p).flags.message
      BY <1>1, <1>8, <1>10 DEF Encrypts, Target
    <3> QED BY <1>1, <1>3, <1>4, <1>6, <1>10, <3>1 DEF FilesApart
  <2>2. h # "NewKey"
    BY <1>1, <1>3, <1>8, <1>10, StepKind
  <2>3. r.pair = R(p).pair \/ r.pair = file[f]
    BY <1>1, <1>2, <1>4, <1>10, <2>2 DEF Well, Wrong, Result
  <2>4. CASE r.pair = file[f]
    BY <1>1, <1>4, <1>10, <2>1, <2>4
  <2>5. CASE r.pair = R(p).pair
    BY <1>1, <1>4, <1>7, <1>9, <1>10, <2>1, <2>5
  <2> QED BY <2>3, <2>4, <2>5
<1>11. CASE n # a
  <2>1. CASE f # Target(R(p)) \/ h \notin {"Truncate", "Write"}
    BY <1>1, <1>4, <1>6, <1>7, <1>9, <1>11, <2>1
  <2>2. CASE f = Target(R(p)) /\ h \in {"Truncate", "Write"}
    <3>1. MakesKeys(R(p)) /\ R(p).flags.key = f
      <4>1. R(p).flags.message # f
        BY <1>3, <1>4 DEF FilesApart
      <4> QED BY <2>2, <4>1 DEF Target
    <3>2. a \in runs[n].with \/ n < a
      BY <1>1, <1>3, <1>11, Overlap
    <3>3. a \in runs[n].with \union (n + 1)..Len(runs)
      BY <1>1, <1>3, <3>2
    <3>4. Replaced(n)
      BY <1>1, <1>4, <3>1, <3>3 DEF Replaced
    <3> QED BY <1>7, <3>4
  <2> QED BY <2>1, <2>2
<1> QED BY <1>10, <1>11

-----------------------------------------------------------------------------
(* What is handed on. *)

LEMMA NextToBefore ==
  ASSUME TypeOK, \A k \in DOMAIN runs : BesideOK(k), Kept,
         NEW m \in DOMAIN runs, NEW n \in DOMAIN runs, NextTo(m, n)'
  PROVE  NextTo(m, n) /\ m < n /\ m # n /\ m \notin runs[n].with
<1>1. /\ DOMAIN runs = 1..Len(runs) /\ Len(runs) \in Nat
      /\ runs[m].with \subseteq DOMAIN runs /\ runs[n].with \subseteq DOMAIN runs
  BY Types DEF BesideOK
<1>2. runs[m].with \subseteq runs'[m].with /\ runs[n].with \subseteq runs'[n].with
  BY DEF Kept
<1>3. m \in Nat /\ n \in Nat
  BY <1>1
<1>4. /\ m < n /\ m \notin runs'[n].with
      /\ \A k \in (m + 1)..(n - 1) \union runs'[m].with \union runs'[n].with : Decrypts(runs'[k])
  BY DEF NextTo
<1>5. ASSUME NEW k \in (m + 1)..(n - 1) \union runs[m].with \union runs[n].with
      PROVE  Decrypts(runs[k])
  <2>1. k \in DOMAIN runs
    BY <1>1, <1>3
  <2>2. runs'[k].main = runs[k].main /\ runs'[k].flags = runs[k].flags
    BY <2>1 DEF Kept
  <2>3. Decrypts(runs'[k]) = Decrypts(runs[k])
    BY <2>2, SameKind
  <2> QED BY <1>2, <1>4, <2>3
<1> QED BY <1>2, <1>3, <1>4, <1>5 DEF NextTo

\* Run n follows m after a step only if it did before it.
LEMMA MovesFollows ==
  ASSUME TypeOK, InOrder, \A k \in DOMAIN runs : BesideOK(k), Kept,
         NEW p \in Process, NEW r, Moves(p, r), events' = events \/ events' = events + 1,
         NEW m \in DOMAIN runs, NEW n \in DOMAIN runs, runs[n].exit = "running",
         NextTo(m, n)', SameCommandLine(m, n)', Succeeded(m)', runs'[m].since = events'
  PROVE  m # cur[p] /\ Follows(m, n) /\ events' = events
<1>1. NextTo(m, n) /\ m < n /\ m # n /\ m \notin runs[n].with
  BY NextToBefore
<1>2. m # cur[p]
  <2>1. ASSUME m = cur[p] PROVE m \in Running
    BY <2>1 DEF Moves, Running
  <2> QED BY <1>1, <2>1, Overlap
<1>3. /\ runs'[m] = runs[m] /\ runs'[n].main = runs[n].main /\ runs'[n].flags = runs[n].flags
  BY <1>2, MovesOne
<1>4. SameCommandLine(m, n) /\ Succeeded(m)
  BY <1>3 DEF SameCommandLine, Succeeded
<1>5. events \in Nat /\ runs[m] \in Run /\ BesideOK(m)
  BY Types DEF TypeOK
<1>6. runs[m].since <= events /\ runs[m].since \in Nat
  BY <1>5 DEF BesideOK, Run
<1>7. events' = events
  BY <1>3, <1>5, <1>6
<1> QED BY <1>1, <1>2, <1>3, <1>4, <1>7 DEF Follows

LEMMA MovesHanded ==
  ASSUME Basic, FilesApart, \A k \in DOMAIN runs : KeysKept(k), Kept,
         NEW p \in Process, NEW r, Moves(p, r), Well(p, r) \/ Wrong(p, r),
         events' = events \/ events' = events + 1,
         NEW m \in DOMAIN runs, NEW n \in DOMAIN runs, HandedOn(m, n)
  PROVE  HandedOn(m, n)'
<1> SUFFICES ASSUME Follows(m, n)'
             PROVE  /\ MakesKeys(runs'[m]) /\ Encrypts(runs'[n]) /\ Passed(n, "ReadKeys")' =>
                         runs'[n].pair = runs'[m].pair
                    /\ Encrypts(runs'[m]) /\ runs'[m].main # test_vector /\ Decrypts(runs'[n]) =>
                         /\ Passed(n, "ReadMessage")' => runs'[n].message = runs'[m].message
                         /\ Passed(n, "ReadKeys")' => runs'[n].pair = runs'[m].pair
  BY DEF HandedOn
<1>1. TypeOK /\ InOrder /\ (\A k \in DOMAIN runs : BesideOK(k))
  BY DEF Basic, RunOK
<1>2. PICK a : a = cur[p]
  OBVIOUS
<1>3. /\ a # 0 /\ a \in DOMAIN runs /\ runs'[a] = r /\ R(p) = runs[a]
      /\ r.main = R(p).main /\ r.flags = R(p).flags
      /\ \A k \in DOMAIN runs : k # a => runs'[k] = runs[k]
  BY <1>1, <1>2, MovesOne DEF Moves, R
<1>4. runs[n].exit = "running"
  <2>1. runs[a].exit = "running"
    BY <1>1, <1>2, <1>3, Behind
  <2>2. runs'[n].exit = "running"
    BY DEF Follows
  <2> QED BY <1>3, <2>1, <2>2
<1>5. m # a /\ Follows(m, n) /\ events' = events
  <2>1. NextTo(m, n)' /\ SameCommandLine(m, n)' /\ Succeeded(m)' /\ runs'[m].since = events'
    BY DEF Follows
  <2> QED BY <1>1, <1>2, <1>4, <2>1, MovesFollows
<1>6. /\ MakesKeys(runs[m]) /\ Encrypts(runs[n]) /\ Passed(n, "ReadKeys") => runs[n].pair = runs[m].pair
      /\ Encrypts(runs[m]) /\ runs[m].main # test_vector /\ Decrypts(runs[n]) =>
           /\ Passed(n, "ReadMessage") => runs[n].message = runs[m].message
           /\ Passed(n, "ReadKeys") => runs[n].pair = runs[m].pair
  BY <1>5 DEF HandedOn
<1>7. runs'[m] = runs[m]
  BY <1>3, <1>5
<1>8. CASE n # a
  <2>1. runs'[n] = runs[n]
    BY <1>3, <1>8
  <2>2. Stays(n)
    BY <1>1, <1>2, <1>8, OthersStay
  <2>3. \A s : Passed(n, s)' <=> Passed(n, s)
    BY <2>2 DEF Stays, Passed
  <2> QED BY <1>6, <1>7, <2>1, <2>3
<1>9. CASE n = a
  <2>1. PICK h : h = Head(todo[p])
    OBVIOUS
  <2>2. R(p).main \in Mains /\ h \in StepsOf(R(p))
    BY <1>1, <1>2, <1>3, <2>1, Place
  <2>3. \A s : Passed(n, s)' => Well(p, r) /\ (Passed(n, s) \/ s = h)
    BY <1>1, <1>2, <1>9, <2>1, ActorPassed
  <2>4. ~Passed(n, h)
    BY <1>1, <1>2, <1>3, <1>9, <2>1, Behind
  <2>5. OnFile(m, n)
    BY <1>5, FindsOnFile
  <2>6. /\ Encrypts(runs'[n]) = Encrypts(R(p)) /\ Decrypts(runs'[n]) = Decrypts(R(p))
    BY <1>3, <1>9, SameKind
  <2>7. Well(p, r) => Result(R(p), h, a, r)
    BY <1>2, <2>1 DEF Well
  <2>8. /\ Encrypts(R(p)) \/ Decrypts(R(p)) => h # "NewKey"
        /\ Decrypts(R(p)) => h # "Seal"
    BY <2>2, StepKind
  <2>9. ASSUME Encrypts(R(p)) \/ Decrypts(R(p)), Passed(n, "ReadKeys")'
        PROVE  \/ Passed(n, "ReadKeys") /\ r.pair = R(p).pair
               \/ r.pair = file[R(p).flags.key]
    BY <2>3, <2>4, <2>7, <2>8, <2>9 DEF Result
  <2>10. ASSUME Decrypts(R(p)), Passed(n, "ReadMessage")'
         PROVE  \/ Passed(n, "ReadMessage") /\ r.message = R(p).message
                \/ r.message = file[R(p).flags.message]
    BY <2>3, <2>4, <2>7, <2>8, <2>10 DEF Result
  <2>11. /\ MakesKeys(runs[m]) /\ Encrypts(R(p)) => file[R(p).flags.key] = runs[m].pair
         /\ Encrypts(runs[m]) /\ Decrypts(R(p)) =>
              /\ file[R(p).flags.message] = runs[m].message
              /\ file[R(p).flags.key] = runs[m].pair
    BY <1>3, <1>9, <2>5 DEF OnFile
  <2> QED BY <1>3, <1>6, <1>7, <1>9, <2>6, <2>9, <2>10, <2>11
<1> QED BY <1>8, <1>9

LEMMA QuietHanded ==
  ASSUME TypeOK, \A k \in DOMAIN runs : BesideOK(k), \A k \in DOMAIN runs : Stays(k), Kept, Counted,
         NEW m \in DOMAIN runs, NEW n \in DOMAIN runs, HandedOn(m, n)
  PROVE  HandedOn(m, n)'
<1> SUFFICES ASSUME Follows(m, n)' PROVE HandedOn(m, n)'
  BY DEF HandedOn
<1>1. Stays(m) /\ Stays(n)
  OBVIOUS
<1>2. NextTo(m, n)
  BY NextToBefore DEF Follows
<1>3. SameCommandLine(m, n) /\ Succeeded(m) /\ runs[n].exit = "running" /\ runs[m].since = events'
  BY <1>1 DEF Follows, SameCommandLine, Succeeded, Stays
<1>4. runs[m].since = events
  <2>1. events \in Nat /\ runs[m] \in Run /\ BesideOK(m)
    BY Types DEF TypeOK
  <2>2. runs[m].since <= events /\ runs[m].since \in Nat
    BY <2>1 DEF BesideOK, Run
  <2> QED BY <1>3, <2>1, <2>2 DEF Counted
<1>5. Follows(m, n)
  BY <1>2, <1>3, <1>4 DEF Follows
<1>6. \A s : Passed(n, s)' <=> Passed(n, s)
  BY <1>1 DEF Stays, Passed
<1>7. /\ runs'[m].main = runs[m].main /\ runs'[m].flags = runs[m].flags
      /\ runs'[n].main = runs[n].main /\ runs'[n].flags = runs[n].flags
      /\ runs'[m].pair = runs[m].pair /\ runs'[n].pair = runs[n].pair
      /\ runs'[m].message = runs[m].message /\ runs'[n].message = runs[n].message
  BY <1>1 DEF Stays
<1>8. /\ MakesKeys(runs'[m]) = MakesKeys(runs[m]) /\ Encrypts(runs'[m]) = Encrypts(runs[m])
      /\ Encrypts(runs'[n]) = Encrypts(runs[n]) /\ Decrypts(runs'[n]) = Decrypts(runs[n])
  BY <1>7, SameKind
<1> QED BY <1>5, <1>6, <1>7, <1>8 DEF HandedOn

-----------------------------------------------------------------------------
(* Three commands in a row. *)

LEMMA SameProgram ==
  ASSUME NEW r, NEW q, r.main \in Mains, q.main \in Mains, r.main.session = q.main.session,
         r.flags = q.flags
  PROVE  /\ r.main.has = q.main.has
         /\ ParentPass(r) = ParentPass(q) /\ KeyPass(r) = KeyPass(q) /\ PCRs(r) = PCRs(q)
<1>1. r.main.has = q.main.has
  BY MainFacts
<1> QED BY <1>1 DEF ParentPass, KeyPass, PCRs

\* Nothing keeps the run that follows from succeeding.
LEMMA MovesSucceed ==
  ASSUME Basic, FilesApart, \A k \in DOMAIN runs : KeysKept(k),
         NEW p \in Process, cur[p] # 0,
         NEW m \in DOMAIN runs, NEW n \in DOMAIN runs, n = cur[p], Follows(m, n), HandedOn(m, n)
  PROVE  /\ /\ MakesKeys(runs[m]) /\ Encrypts(runs[n]) /\ runs[n].main # test_vector
            /\ PCRs(runs[n]) \in {"any", device.pcr} /\ Fits(runs[n], runs[n].flags.text)
            => Possible(R(p), Head(todo[p]))
         /\ /\ Encrypts(runs[m]) /\ runs[m].main # test_vector /\ Decrypts(runs[n])
            => /\ Possible(R(p), Head(todo[p]))
               /\ Head(todo[p]) = "Open" => runs[n].message.text = runs[m].flags.text
<1> DEFINE q == runs[n]
           d == runs[m]
<1>0. PICK h : h = Head(todo[p])
  OBVIOUS
<1>1. TypeOK /\ InOrder /\ RunOK(m) /\ RunOK(n)
  BY DEF Basic
<1>2. /\ q.main \in Mains /\ d.main \in Mains /\ h \in StepsOf(q) /\ h \in StepName /\ R(p) = q
      /\ \A x \in StepName : Rank[x] < Rank[h] => Passed(n, x)
  <2>1. R(p) = q
    BY DEF R
  <2>2. h \in StepsOf(R(p)) /\ StepsOf(R(p)) \subseteq StepName
    BY <1>0, <1>1, Place
  <2>3. q.main \in Mains /\ d.main \in Mains
    BY <1>1, Types
  <2>4. \A x \in StepName : Rank[x] < Rank[h] => Passed(n, x)
    BY <1>0, <1>1, Behind
  <2> QED BY <2>1, <2>2, <2>3, <2>4
<1>3. /\ q.flags = d.flags /\ q.main.session = d.main.session /\ Succeeded(m) /\ d.since = events
  BY DEF Follows, SameCommandLine
<1>4. /\ q.main.has = d.main.has
      /\ ParentPass(q) = ParentPass(d) /\ KeyPass(q) = KeyPass(d) /\ PCRs(q) = PCRs(d)
  BY <1>2, <1>3, SameProgram
<1>5. \A s : Passed(m, s)
  BY <1>1, <1>3, AllPassed
<1>6. h = "Seal" => Passed(n, "ReadKeys")
  BY <1>2 DEF StepName, Rank
<1>7. h = "Open" => Passed(n, "ReadKeys") /\ Passed(n, "ReadMessage")
  BY <1>2 DEF StepName, Rank
<1>8. OnFile(m, n)
  BY FindsOnFile
<1>9. ASSUME h = "GetPCRMap" PROVE q.flags.pcrs \in PCRValue
  <2>1. "pcrs" \in q.main.has
    BY <1>2, <1>9, StepKind
  <2>2. PrintedOK(m)
    BY <1>1 DEF RunOK
  <2> QED BY <1>3, <1>4, <1>5, <2>1, <2>2 DEF PrintedOK
<1> HIDE DEF q, d
<1>10. ASSUME MakesKeys(d), Encrypts(q), q.main # test_vector, PCRs(q) \in {"any", device.pcr},
              Fits(q, q.flags.text)
       PROVE  Possible(q, h)
  <2>1. h \notin {"NewKey", "ReadMessage", "Open"}
    BY <1>2, <1>10, StepKind
  <2>2. d.pair \in KeyFile /\ file[q.flags.key] = d.pair
    BY <1>8, <1>10 DEF OnFile, q, d
  <2>3. file[q.flags.key].kind = "keys"
    BY <2>2, ContentFacts
  <2>4. ASSUME h = "Seal" PROVE Usable(q)
    <3>1. q.pair = d.pair
      BY <1>6, <1>10, <2>4 DEF HandedOn, q, d
    <3>2. PairOK(m) /\ d.pair # NoPair
      BY <1>1, <2>2, ContentFacts DEF RunOK
    <3>3. /\ d.pair.session = d.main.session /\ d.pair.pcrs = PCRs(d) /\ d.pair.auth = KeyPass(d)
          /\ ParentPass(d) = device.auth /\ d.pair.seed = device.seed
      BY <1>3, <1>10, <3>2 DEF PairOK, d
    <3> QED BY <1>3, <1>4, <1>10, <3>1, <3>3 DEF Usable
  <2> QED BY <1>9, <1>10, <2>1, <2>3, <2>4 DEF Possible, q
<1>11. ASSUME Encrypts(d), d.main # test_vector, Decrypts(q)
       PROVE  Possible(q, h) /\ (h = "Open" => q.message.text = d.flags.text)
  <2>1. h \notin {"NewKey", "Seal"}
    BY <1>2, <1>11, StepKind
  <2>2. /\ d.pair \in KeyFile /\ file[q.flags.key] = d.pair
        /\ file[q.flags.message] = d.message /\ d.message = SealedText(d)
    BY <1>8, <1>11 DEF OnFile, q, d
  <2>3. file[q.flags.key].kind = "keys"
    BY <2>2, ContentFacts
  <2>4. d.message.kind = "message" /\ d.message.pair = d.pair.id /\ d.message.aad = d.flags.aad
        /\ d.message.text = d.flags.text
    BY <2>2 DEF SealedText
  <2>5. file[q.flags.message] # NoFile
    BY <2>2, <2>4, ContentFacts
  <2>6. ASSUME h = "Open"
         PROVE  Authentic(q) /\ Usable(q) /\ Fits(q, q.message.text) /\ q.message.text = d.flags.text
    <3>1. q.pair = d.pair /\ q.message = d.message
      BY <1>7, <1>11, <2>6 DEF HandedOn, q, d
    <3>2. SealedOK(m)
      BY <1>1, <1>11 DEF RunOK, d
    <3>3. d.message # NoFile
      BY <2>4, ContentFacts
    <3>4. Usable(d) /\ Fits(d, d.flags.text)
      BY <1>3, <3>2, <3>3 DEF SealedOK, d
    <3> QED BY <1>3, <1>4, <2>4, <3>1, <3>4 DEF Authentic, Usable, Fits
  <2> QED BY <1>9, <2>1, <2>3, <2>5, <2>6 DEF Possible, q
<1> QED BY <1>0, <1>2, <1>10, <1>11 DEF q, d

\* What three commands in a row promise of two of them.
Works(m, n) ==
  InARow(m, n) /\ SameCommandLine(m, n) /\ Succeeded(m) /\ runs[n].exit # "running" =>
    /\ MakesKeys(runs[m]) /\ Encrypts(runs[n]) /\ runs[n].main # test_vector
         /\ PCRs(runs[n]) \in {"any", device.pcr} /\ events = runs[n].until
         /\ Fits(runs[n], runs[n].flags.text) => Succeeded(n)
    /\ Encrypts(runs[m]) /\ runs[m].main # test_vector /\ Decrypts(runs[n]) =>
         Succeeded(n) /\ runs[n].printed = runs[m].flags.text

LEMMA QuietWorks ==
  ASSUME TypeOK, \A k \in DOMAIN runs : BesideOK(k), \A k \in DOMAIN runs : Stays(k), Kept, Counted,
         NEW m \in DOMAIN runs, NEW n \in DOMAIN runs, Works(m, n)
  PROVE  Works(m, n)'
<1> SUFFICES ASSUME InARow(m, n)', SameCommandLine(m, n)', Succeeded(m)', runs'[n].exit # "running"
             PROVE  Works(m, n)'
  BY DEF Works
<1>1. Stays(m) /\ Stays(n)
  OBVIOUS
<1>2. /\ runs'[m].main = runs[m].main /\ runs'[m].flags = runs[m].flags
      /\ runs'[n].main = runs[n].main /\ runs'[n].flags = runs[n].flags
      /\ runs'[m].since = runs[m].since /\ runs'[n].until = runs[n].until
      /\ runs'[m].exit = runs[m].exit /\ runs'[n].exit = runs[n].exit
      /\ runs'[n].printed = runs[n].printed
  BY <1>1 DEF Stays
<1>3. InARow(m, n)
  BY <1>2, NextToBefore DEF InARow
<1>4. SameCommandLine(m, n) /\ Succeeded(m) /\ runs[n].exit # "running"
  BY <1>2 DEF SameCommandLine, Succeeded
<1>5. events' = runs'[n].until => events' = events /\ device' = device
  <2>1. events \in Nat /\ runs[n] \in Run /\ BesideOK(n)
    BY Types DEF TypeOK
  <2>2. runs[n].until <= events /\ runs[n].until \in Nat
    BY <2>1 DEF BesideOK, Run
  <2> QED BY <1>2, <2>1, <2>2 DEF Counted
<1>6. /\ MakesKeys(runs'[m]) = MakesKeys(runs[m]) /\ Encrypts(runs'[m]) = Encrypts(runs[m])
      /\ Encrypts(runs'[n]) = Encrypts(runs[n]) /\ Decrypts(runs'[n]) = Decrypts(runs[n])
      /\ PCRs(runs'[n]) = PCRs(runs[n])
  BY <1>2, SameKind
<1>7. Fits(runs'[n], runs'[n].flags.text) <=> Fits(runs[n], runs[n].flags.text)
  BY <1>2 DEF Fits
<1> QED BY <1>2, <1>3, <1>4, <1>5, <1>6, <1>7 DEF Works, Succeeded

LEMMA MovesWorks ==
  ASSUME Basic, FilesApart, \A k \in DOMAIN runs : KeysKept(k), Kept,
         NEW p \in Process, NEW r, Moves(p, r), Well(p, r) \/ Wrong(p, r), device' = device,
         events' = events \/ events' = events + 1,
         NEW m \in DOMAIN runs, NEW n \in DOMAIN runs, HandedOn(m, n), Works(m, n)
  PROVE  Works(m, n)'
<1> SUFFICES ASSUME InARow(m, n)', SameCommandLine(m, n)', Succeeded(m)', runs'[n].exit # "running"
             PROVE  Works(m, n)'
  BY DEF Works
<1>1. TypeOK /\ InOrder /\ (\A k \in DOMAIN runs : BesideOK(k))
  BY DEF Basic, RunOK
<1>2. PICK a : a = cur[p]
  OBVIOUS
<1>3. /\ cur[p] # 0 /\ a \in DOMAIN runs /\ runs'[a] = r /\ R(p) = runs[a]
      /\ r.main = R(p).main /\ r.flags = R(p).flags
      /\ \A k \in DOMAIN runs : k # a => runs'[k] = runs[k]
      /\ runs[a].exit = "running"
  <2>1. cur[p] # 0
    BY DEF Moves
  <2>2. R(p).exit = "running"
    BY <1>1, <2>1, Behind
  <2> QED BY <1>1, <1>2, <2>1, <2>2, MovesOne DEF Moves, R
<1>4. NextTo(m, n)' /\ runs'[m].since = runs'[n].until
  BY DEF InARow
<1>5. NextTo(m, n) /\ m # n /\ m < n /\ m \notin runs[n].with
  BY <1>1, <1>4, NextToBefore
<1>6. m # a
  <2>1. a \in Running
    BY <1>2, <1>3 DEF Running
  <2> QED BY <1>1, <1>5, <2>1, Overlap
<1>7. runs'[m] = runs[m]
  BY <1>3, <1>6
<1>8. CASE n # a
  <2>1. runs'[n] = runs[n]
    BY <1>3, <1>8
  <2>2. InARow(m, n) /\ SameCommandLine(m, n) /\ Succeeded(m) /\ runs[n].exit # "running"
    BY <1>4, <1>5, <1>7, <2>1 DEF InARow, SameCommandLine, Succeeded
  <2>3. events' = runs[n].until => events' = events
    <3>1. events \in Nat /\ runs[n] \in Run /\ BesideOK(n)
      BY <1>1, Types DEF TypeOK
    <3>2. runs[n].until <= events /\ runs[n].until \in Nat
      BY <3>1 DEF BesideOK, Run
    <3> QED BY <3>1, <3>2
  <2> QED BY <1>7, <2>1, <2>2, <2>3 DEF Works, Succeeded
<1>9. CASE n = a
  <2>1. r.exit # "running" /\ r.until = events' /\ (r.exit = "ok" => Len(todo[p]) = 1)
    BY <1>3, <1>9 DEF Moves
  <2>2. runs'[m].since = events'
    BY <1>3, <1>4, <1>9, <2>1
  <2>3. Follows(m, n) /\ events' = events
    BY <1>1, <1>3, <1>4, <1>9, <2>2, MovesFollows
  <2>4. PICK h : h = Head(todo[p])
    OBVIOUS
  <2>5. /\ /\ MakesKeys(runs[m]) /\ Encrypts(runs[n]) /\ runs[n].main # test_vector
           /\ PCRs(runs[n]) \in {"any", device.pcr} /\ Fits(runs[n], runs[n].flags.text)
           => Possible(R(p), h)
        /\ /\ Encrypts(runs[m]) /\ runs[m].main # test_vector /\ Decrypts(runs[n])
           => Possible(R(p), h) /\ (h = "Open" => runs[n].message.text = runs[m].flags.text)
    BY <1>2, <1>3, <1>9, <2>3, <2>4, MovesSucceed
  <2>6. Possible(R(p), h) => Well(p, r) /\ r.exit = "ok" /\ Len(todo[p]) = 1
    <3>1. events \in Nat
      BY <1>1 DEF TypeOK
    <3>2. Possible(R(p), h) => ~Wrong(p, r)
      BY <2>3, <2>4, <3>1 DEF Wrong
    <3> QED BY <2>1, <3>2 DEF Well
  <2>7. ASSUME Len(todo[p]) = 1, Decrypts(runs[n]) PROVE h = "Open"
    <3>1. /\ R(p).main \in Mains /\ h \in StepsOf(R(p)) /\ StepsOf(R(p)) \subseteq StepName
          /\ \A x \in StepsOf(R(p)) : Rank[x] <= Rank[h]
      BY <1>1, <1>3, <2>4, <2>7, Place
    <3>2. "Open" \in StepsOf(R(p))
      BY <1>3, <1>9, <2>7, <3>1, StepKind
    <3> QED BY <3>1, <3>2 DEF StepName, Rank
  <2>8. Well(p, r) /\ h = "Open" => r.printed = runs[n].message.text
    BY <1>3, <1>9, <2>4 DEF Well, Result
  <2>9. /\ Encrypts(runs'[n]) = Encrypts(runs[n]) /\ Decrypts(runs'[n]) = Decrypts(runs[n])
        /\ PCRs(runs'[n]) = PCRs(runs[n]) /\ runs'[n].main = runs[n].main
    BY <1>3, <1>9, SameKind
  <2>11. Fits(runs'[n], runs'[n].flags.text) <=> Fits(runs[n], runs[n].flags.text)
    BY <1>3, <1>9 DEF Fits
  <2>10. /\ MakesKeys(runs[m]) /\ Encrypts(runs[n]) /\ runs[n].main # test_vector
            /\ PCRs(runs[n]) \in {"any", device.pcr} /\ Fits(runs[n], runs[n].flags.text)
            => r.exit = "ok"
         /\ Encrypts(runs[m]) /\ runs[m].main # test_vector /\ Decrypts(runs[n]) =>
              r.exit = "ok" /\ r.printed = runs[m].flags.text
    BY <2>5, <2>6, <2>7, <2>8
  <2> QED BY <1>3, <1>7, <1>9, <2>9, <2>10, <2>11 DEF Works, Succeeded
<1> QED BY <1>8, <1>9

-----------------------------------------------------------------------------
(* The theorems. *)

\* What holds if keys and messages have different names.
Apart ==
  /\ \A n \in DOMAIN runs : KeysKept(n)
  /\ \A m, n \in DOMAIN runs : HandedOn(m, n) /\ Works(m, n)

LEMMA IInvIs == IInv <=> Basic /\ (FilesApart => Apart)
<1>1. ThreeCommandsWork <=> \A m, n \in DOMAIN runs : Works(m, n)
  BY DEF ThreeCommandsWork, Works
<1> QED BY <1>1 DEF IInv, Basic, Apart

LEMMA BasicRuns ==
  ASSUME Basic
  PROVE  /\ TypeOK /\ InOrder /\ \A f \in DOMAIN file : FileOK(f)
         /\ \A k \in DOMAIN runs : RunOK(k) /\ WrittenOK(k) /\ BesideOK(k)
BY DEF Basic, RunOK

\* Steps of the shells.
LEMMA ShellKeeps ==
  ASSUME Basic, NEW p \in Process, ShellStep(p)
  PROVE  Basic' /\ (FilesApart /\ Apart => Apart')
<1>1. /\ TypeOK /\ InOrder /\ \A f \in DOMAIN file : FileOK(f)
      /\ \A k \in DOMAIN runs : RunOK(k)
      /\ \A k \in DOMAIN runs : WrittenOK(k)
      /\ \A k \in DOMAIN runs : BesideOK(k)
  BY BasicRuns
<1>2. /\ cur[p] # 0 /\ cur[p] \in DOMAIN runs /\ events' \in Nat /\ device' = device
      /\ events' = events \/ events' = events + 1
      /\ file' \in [DOMAIN InitFile -> Content]
      /\ \E r \in Run : Moves(p, r) /\ (Well(p, r) \/ Wrong(p, r))
  BY <1>1, ShellTakes
<1>3. PICK r \in Run : Moves(p, r) /\ (Well(p, r) \/ Wrong(p, r))
  BY <1>2
<1>4. TypeOK' /\ InOrder' /\ Kept /\ OriginKept /\ \A n \in DOMAIN runs' : RunOK(n)'
  BY <1>1, <1>2, <1>3, MovesRuns
<1>5. DOMAIN runs' = DOMAIN runs /\ DOMAIN file' = DOMAIN file
  <2>1. DOMAIN runs' = DOMAIN runs
    BY <1>1, <1>3, MovesOne
  <2>2. DOMAIN file = DOMAIN InitFile /\ DOMAIN file' = DOMAIN InitFile
    BY <1>1, <1>2 DEF TypeOK
  <2> QED BY <2>1, <2>2
<1>6. ASSUME NEW n \in DOMAIN runs PROVE WrittenOK(n)'
  <2>1. WrittenOK(n)
    BY <1>1
  <2> QED BY <1>1, <1>3, <2>1, MovesWritten
<1>7. ASSUME NEW f \in DOMAIN file PROVE FileOK(f)'
  <2>1. FileOK(f)
    BY <1>1
  <2> QED BY <1>1, <1>3, <1>4, <2>1, MovesFile
<1>8. Basic'
  BY <1>4, <1>5, <1>6, <1>7 DEF Basic
<1>9. ASSUME FilesApart, Apart PROVE Apart'
  <2>1. /\ \A n \in DOMAIN runs : KeysKept(n)
        /\ \A m, n \in DOMAIN runs : HandedOn(m, n) /\ Works(m, n)
    BY <1>9 DEF Apart
  <2>2. ASSUME NEW n \in DOMAIN runs PROVE KeysKept(n)'
    <3>1. KeysKept(n)
      BY <2>1
    <3> QED BY <1>1, <1>3, <1>4, <1>9, <3>1, MovesKeys
  <2>3. ASSUME NEW m \in DOMAIN runs, NEW n \in DOMAIN runs PROVE HandedOn(m, n)' /\ Works(m, n)'
    <3>1. HandedOn(m, n) /\ Works(m, n)
      BY <2>1
    <3>2. HandedOn(m, n)'
      BY <1>2, <1>3, <1>4, <1>9, <2>1, <3>1, MovesHanded
    <3>3. Works(m, n)'
      BY <1>2, <1>3, <1>4, <1>9, <2>1, <3>1, MovesWorks
    <3> QED BY <3>2, <3>3
  <2> QED BY <1>5, <2>2, <2>3 DEF Apart
<1> QED BY <1>8, <1>9

\* A start.
LEMMA StartKeepsAll ==
  ASSUME Basic, NEW p \in Process, Start(p)
  PROVE  Basic' /\ (FilesApart /\ Apart => Apart')
<1>1. /\ TypeOK /\ InOrder /\ \A f \in DOMAIN file : FileOK(f)
      /\ \A k \in DOMAIN runs : RunOK(k)
      /\ \A k \in DOMAIN runs : WrittenOK(k)
      /\ \A k \in DOMAIN runs : BesideOK(k)
  BY BasicRuns
<1>2. \E n, main, f : Begun(p, n, main, f)
  BY StartBegins
<1>3. PICK n, main, f : Begun(p, n, main, f)
  BY <1>2
<1>4. /\ TypeOK' /\ InOrder' /\ \A k \in DOMAIN runs' : RunOK(k)' /\ WrittenOK(k)'
      /\ \A g \in DOMAIN file' : FileOK(g)'
  BY <1>1, <1>3, StartKeeps
<1>5. Basic'
  BY <1>4 DEF Basic
<1>6. /\ \A k \in DOMAIN runs : Stays(k)
      /\ Kept /\ OriginKept /\ Counted
  BY <1>1, <1>3, BegunStays
<1>7. /\ DOMAIN runs = 1..Len(runs) /\ Len(runs) \in Nat /\ n = Len(runs) + 1 /\ Len(runs') = n
      /\ DOMAIN runs' = DOMAIN runs \union {n} /\ n \notin DOMAIN runs
      /\ runs'[n] = NewRun(main, f) /\ file' = file /\ main \in Mains
  <2>1. Joins(n, NewRun(main, f))
    BY <1>1, <1>3, BegunRuns
  <2>2. DOMAIN runs = 1..Len(runs) /\ Len(runs) \in Nat
    BY <1>1, Types
  <2> QED BY <1>3, <2>1, <2>2 DEF Joins, Begun
<1>8. runs'[n].pair = NoPair /\ runs'[n].exit = "running" /\ runs'[n].main = main
  BY <1>7 DEF NewRun
<1>9. ASSUME NEW m \in DOMAIN runs', NEW k \in DOMAIN runs', NextTo(m, k)' PROVE m \in DOMAIN runs
  <2>1. m < k
    BY <1>9 DEF NextTo
  <2> QED BY <1>7, <1>9, <2>1
<1>10. ASSUME NEW m \in DOMAIN runs' PROVE HandedOn(m, n)' /\ Works(m, n)'
  <2>1. \A s \in StepsOf(NewRun(main, f)) : ~Passed(n, s)'
    BY <1>1, <1>3, BegunAhead
  <2>2. PICK r : r = runs'[n]
    OBVIOUS
  <2>3. /\ Encrypts(r) => "ReadKeys" \in StepsOf(r)
        /\ Decrypts(r) => "ReadKeys" \in StepsOf(r) /\ "ReadMessage" \in StepsOf(r)
    BY <1>7, <1>8, <2>2, StepKind
  <2>4. /\ Encrypts(runs'[n]) => ~Passed(n, "ReadKeys")'
        /\ Decrypts(runs'[n]) => ~Passed(n, "ReadKeys")' /\ ~Passed(n, "ReadMessage")'
    BY <1>7, <2>1, <2>2, <2>3
  <2>5. HandedOn(m, n)'
    BY <2>4 DEF HandedOn
  <2>6. Works(m, n)'
    BY <1>8 DEF Works
  <2> QED BY <2>5, <2>6
<1>11. ASSUME FilesApart, Apart PROVE Apart'
  <2>1. /\ \A k \in DOMAIN runs : KeysKept(k)
        /\ \A m, k \in DOMAIN runs : HandedOn(m, k) /\ Works(m, k)
    BY <1>11 DEF Apart
  <2>2. ASSUME NEW k \in DOMAIN runs PROVE KeysKept(k)'
    <3>1. KeysKept(k) /\ Len(runs') \in Nat /\ Len(runs) <= Len(runs')
      BY <1>7, <2>1
    <3> QED BY <1>1, <1>6, <1>7, <3>1, QuietKeys
  <2>3. KeysKept(n)'
    BY <1>8 DEF KeysKept
  <2>4. ASSUME NEW m \in DOMAIN runs, NEW k \in DOMAIN runs PROVE HandedOn(m, k)' /\ Works(m, k)'
    <3>1. HandedOn(m, k) /\ Works(m, k)
      BY <2>1
    <3>2. HandedOn(m, k)'
      BY <1>1, <1>6, <3>1, QuietHanded
    <3>3. Works(m, k)'
      BY <1>1, <1>6, <3>1, QuietWorks
    <3> QED BY <3>2, <3>3
  <2>5. ASSUME NEW k \in DOMAIN runs PROVE HandedOn(n, k)' /\ Works(n, k)'
    <3>1. ~NextTo(n, k)'
      BY <1>7, <1>9
    <3> QED BY <3>1 DEF HandedOn, Works, Follows, InARow
  <2> QED BY <1>7, <1>10, <2>2, <2>3, <2>4, <2>5 DEF Apart
<1> QED BY <1>5, <1>11

\* A change of the device.
LEMMA DeviceKeepsAll ==
  ASSUME Basic, DeviceStep
  PROVE  Basic' /\ (FilesApart /\ Apart => Apart')
<1>1. /\ TypeOK /\ InOrder /\ \A f \in DOMAIN file : FileOK(f)
      /\ \A k \in DOMAIN runs : RunOK(k)
      /\ \A k \in DOMAIN runs : WrittenOK(k)
      /\ \A k \in DOMAIN runs : BesideOK(k)
  BY BasicRuns
<1>2. /\ TypeOK' /\ InOrder' /\ \A k \in DOMAIN runs' : RunOK(k)' /\ WrittenOK(k)'
      /\ \A g \in DOMAIN file' : FileOK(g)'
  BY <1>1, DeviceKeeps
<1>3. Basic'
  BY <1>2 DEF Basic
<1>4. /\ \A k \in DOMAIN runs : Stays(k)
      /\ Kept /\ OriginKept /\ Counted /\ runs' = runs /\ file' = file
  BY <1>1, DeviceStays
<1>5. Len(runs') \in Nat /\ Len(runs) <= Len(runs')
  BY <1>1, <1>4, Types
<1>6. ASSUME FilesApart, Apart PROVE Apart'
  <2>1. /\ \A k \in DOMAIN runs : KeysKept(k)
        /\ \A m, k \in DOMAIN runs : HandedOn(m, k) /\ Works(m, k)
    BY <1>6 DEF Apart
  <2>2. ASSUME NEW k \in DOMAIN runs PROVE KeysKept(k)'
    <3>1. KeysKept(k)
      BY <2>1
    <3> QED BY <1>1, <1>4, <1>5, <3>1, QuietKeys
  <2>3. ASSUME NEW m \in DOMAIN runs, NEW k \in DOMAIN runs PROVE HandedOn(m, k)' /\ Works(m, k)'
    <3>1. HandedOn(m, k) /\ Works(m, k)
      BY <2>1
    <3>2. HandedOn(m, k)'
      BY <1>1, <1>4, <3>1, QuietHanded
    <3>3. Works(m, k)'
      BY <1>1, <1>4, <3>1, QuietWorks
    <3> QED BY <3>2, <3>3
  <2> QED BY <1>4, <2>2, <2>3 DEF Apart
<1> QED BY <1>3, <1>6

\* At the start nothing has been run, and what is on file is whole.
LEMMA InitIInv == Init => IInv
<1> SUFFICES ASSUME Init PROVE IInv
  OBVIOUS
<1>1. /\ file = InitFile /\ device = InitDevice /\ runs = <<>> /\ events = 0
      /\ cur = [p \in Process |-> 0] /\ todo = [p \in Process |-> <<>>]
  BY DEF Init
<1>2. DOMAIN runs = {} /\ Len(runs) = 0 /\ runs \in Seq(Run)
  BY <1>1
<1>3. \A p \in Process : cur[p] = 0 /\ todo[p] = <<>>
  <2>1. PICK t : t = <<>>
    OBVIOUS
  <2>2. cur = [q \in Process |-> 0] /\ todo = [q \in Process |-> t]
    BY <1>1, <2>1, Zenon
  <2>3. \A p \in Process : cur[p] = 0 /\ todo[p] = t
    BY <2>2
  <2> QED BY <2>1, <2>3, Zenon
<1>4. file \in [DOMAIN InitFile -> Content] /\ \A f \in DOMAIN file : file[f].kind \in {"none", "keys"}
  <2>1. InitFile \in [DOMAIN InitFile -> {NoFile} \union KeyFile]
    BY FileAssumption
  <2>2. \A c \in {NoFile} \union KeyFile : c \in Content /\ c.kind \in {"none", "keys"}
    BY ContentFacts
  <2> QED BY <1>1, <2>1, <2>2
<1>5. TypeOK
  <2>1. device \in Device /\ events \in Nat
    BY <1>1, DeviceAssumption
  <2>2. cur \in [Process -> Nat] /\ todo \in [Process -> Seq(StepName)]
    <3>1. <<>> \in Seq(StepName)
      OBVIOUS
    <3> QED BY <1>1, <3>1
  <2> QED BY <1>2, <1>3, <1>4, <2>1, <2>2 DEF TypeOK
<1>6. InOrder
  BY <1>3 DEF InOrder
<1>7. \A f \in DOMAIN file : FileOK(f)
  BY <1>4 DEF FileOK, Origin
<1>8. Basic
  BY <1>2, <1>5, <1>6, <1>7 DEF Basic
<1>9. Apart
  BY <1>2 DEF Apart
<1> QED BY <1>8, <1>9, IInvIs

LEMMA NextIInv == IInv /\ [Next]_vars => IInv'
<1> SUFFICES ASSUME IInv, [Next]_vars PROVE IInv'
  OBVIOUS
<1>1. Basic /\ (FilesApart => Apart)
  BY IInvIs
<1>2. Basic' /\ (FilesApart /\ Apart => Apart')
  <2>1. ASSUME NEW p \in Process, Start(p) PROVE Basic' /\ (FilesApart /\ Apart => Apart')
    BY <1>1, <2>1, StartKeepsAll
  <2>2. ASSUME NEW p \in Process, ShellStep(p) PROVE Basic' /\ (FilesApart /\ Apart => Apart')
    BY <1>1, <2>2, ShellKeeps
  <2>3. ASSUME DeviceStep PROVE Basic' /\ (FilesApart /\ Apart => Apart')
    BY <1>1, <2>3, DeviceKeepsAll
  <2>4. ASSUME UNCHANGED vars PROVE Basic' /\ (FilesApart /\ Apart => Apart')
    <3>1. file' = file /\ runs' = runs /\ cur' = cur /\ todo' = todo /\ device' = device
          /\ events' = events
      BY <2>4 DEF vars
    <3>2. Basic'
      BY <1>1, <3>1 DEF Basic, TypeOK, Running, InOrder, R, RunOK, BesideOK, PairOK, SealedOK, ReadOK,
        PrintedOK, WrittenOK, FileOK, Origin, SealedBy, Passed, Pending, Ahead, AtWrite, AtStep, Usable,
        GivenUp, WritesTo, Last
    <3>3. Apart => Apart'
      <4>1. ASSUME NEW n \in DOMAIN runs, KeysKept(n) PROVE KeysKept(n)'
        BY <3>1, <4>1 DEF KeysKept
      <4>2. ASSUME NEW m, NEW n PROVE Follows(m, n)' = Follows(m, n)
        BY <3>1 DEF Follows, NextTo, SameCommandLine, Succeeded
      <4>3. ASSUME NEW n, NEW s PROVE Passed(n, s)' = Passed(n, s)
        BY <3>1 DEF Passed, Pending, Ahead
      <4>4. ASSUME NEW m, NEW n, HandedOn(m, n) PROVE HandedOn(m, n)'
        BY <3>1, <4>2, <4>3, <4>4 DEF HandedOn
      <4>5. ASSUME NEW m, NEW n, Works(m, n) PROVE Works(m, n)'
        BY <3>1, <4>5 DEF Works, InARow, NextTo, SameCommandLine, Succeeded
      <4> QED BY <3>1, <4>1, <4>4, <4>5 DEF Apart
    <3> QED BY <3>2, <3>3
  <2> QED BY <2>1, <2>2, <2>3, <2>4 DEF Next, ShellStep, DeviceStep
<1>3. IInv' <=> Basic' /\ (FilesApart => Apart')
  <2>1. ThreeCommandsWork' <=> \A m, n \in DOMAIN runs' : Works(m, n)'
    BY DEF ThreeCommandsWork, Works
  <2> QED BY <2>1 DEF IInv, Basic, Apart
<1> QED BY <1>1, <1>2, <1>3

\* The invariant: what each run has got hold of and where it is in its program,
\* what each file holds and who is to blame if it is not whole, and, if keys and
\* messages have different names, what newkey, encrypt and decrypt hand on.
THEOREM Invariant == Spec => []IInv
BY InitIInv, NextIInv, PTL DEF Spec

\* What IInv implies of the state.
LEMMA PrintedWasSealed == IInv => OnlySealedPrinted
<1> SUFFICES ASSUME IInv, NEW n \in DOMAIN runs, runs[n].printed # NoText
             PROVE  \E m \in DOMAIN runs :
                      /\ Encrypts(runs[m]) /\ runs[m].message = runs[n].message
                      /\ runs[m].pair.id = runs[n].pair.id
                      /\ runs[m].flags.aad = runs[n].flags.aad /\ runs[m].flags.text = runs[n].printed
  BY DEF OnlySealedPrinted
<1>1. TypeOK /\ \A k \in DOMAIN runs : RunOK(k)
  BY IInvIs, BasicRuns
<1>2. PICK c : c = runs[n].message
  OBVIOUS
<1>3. /\ c.kind = "message" /\ runs[n].printed = c.text /\ c.pair = runs[n].pair.id
      /\ c.aad = runs[n].flags.aad
  BY <1>1, <1>2 DEF RunOK, PrintedOK
<1>4. c # NoFile
  BY <1>3, ContentFacts
<1>5. \E m \in DOMAIN runs : SealedBy(m, c)
  <2>1. runs[n].main \in Mains
    BY <1>1, Types
  <2>2. Decrypts(runs[n]) \/ Encrypts(runs[n]) \/ MakesKeys(runs[n])
    BY <2>1, StepKind
  <2>3. CASE MakesKeys(runs[n])
    BY <1>1, <1>2, <1>4, <2>3 DEF RunOK
  <2>4. CASE Encrypts(runs[n])
    BY <1>2, <2>4 DEF SealedBy
  <2>5. CASE Decrypts(runs[n])
    BY <1>1, <1>2, <1>3, <2>5 DEF RunOK, ReadOK, Origin
  <2> QED BY <2>2, <2>3, <2>4, <2>5
<1>6. PICK m \in DOMAIN runs : SealedBy(m, c)
  BY <1>5
<1>7. Encrypts(runs[m]) /\ runs[m].message = c /\ SealedOK(m)
  BY <1>1, <1>6 DEF SealedBy, RunOK
<1>8. c.pair = runs[m].pair.id /\ c.aad = runs[m].flags.aad /\ c.text = runs[m].flags.text
  BY <1>4, <1>7 DEF SealedOK
<1> QED BY <1>2, <1>3, <1>7, <1>8

LEMMA FilesAreWhole == IInv => WholeFiles
<1> SUFFICES ASSUME IInv, NEW f \in DOMAIN file, file[f].kind \in {"empty", "torn"}
             PROVE  \E k \in DOMAIN runs :
                      /\ Writes(runs[k]) /\ Target(runs[k]) = f
                      /\ \/ Unfinished(k)
                         \/ \E j \in runs[k].with : Writes(runs[j]) /\ Target(runs[j]) = f
  BY DEF WholeFiles
<1>1. TypeOK /\ FileOK(f)
  BY IInvIs, BasicRuns
<1>2. PICK k \in DOMAIN runs :
        /\ WritesTo(k, f)
        /\ \/ GivenUp(k)
           \/ file[f].kind = "torn" /\ \E j \in runs[k].with : WritesTo(j, f)
  BY <1>1 DEF FileOK
<1>3. ASSUME GivenUp(k) PROVE Unfinished(k)
  <2>1. ASSUME AtWrite(k) PROVE runs[k].exit = "running"
    <3>1. k # 0
      BY <1>1, Types
    <3>2. k \in Running
      BY <2>1, <3>1 DEF AtWrite, Running
    <3> QED BY <1>1, <3>2 DEF TypeOK
  <2> QED BY <1>2, <1>3, <2>1 DEF GivenUp, Unfinished, WritesTo
<1> QED BY <1>2, <1>3 DEF WritesTo

LEMMA OnlyUnfinishedPanic == IInv => PanicsOnlyOnUnfinished
<1> SUFFICES ASSUME IInv, NEW n \in DOMAIN runs, Decrypts(runs[n]), runs[n].exit = "panic",
                    runs[n].since = runs[n].until
             PROVE  \E k \in (1..(n - 1)) \union runs[n].with :
                      /\ Writes(runs[k]) /\ Target(runs[k]) = runs[n].flags.message
                      /\ k \in runs[n].with \/ Unfinished(k)
  BY DEF PanicsOnlyOnUnfinished
<1>1. ReadOK(n)
  <2>1. RunOK(n)
    BY IInvIs, BasicRuns
  <2> QED BY <2>1 DEF RunOK
<1>2. PICK k \in (1..(n - 1)) \union runs[n].with :
        /\ Writes(runs[k]) /\ Target(runs[k]) = runs[n].flags.message
        /\ k \in runs[n].with \/ runs[k].exit \in {"killed", "error"}
  BY <1>1 DEF ReadOK
<1> QED BY <1>2 DEF Unfinished

LEMMA KeysStayOnFile == FilesApart /\ IInv => OnlyNewKeyStrands
<1> SUFFICES ASSUME FilesApart, IInv, NEW n \in DOMAIN runs, Encrypts(runs[n]), Succeeded(n)
             PROVE  \/ file[runs[n].flags.key] = runs[n].pair
                    \/ \E k \in runs[n].with \union (n + 1)..Len(runs) :
                         MakesKeys(runs[k]) /\ runs[k].flags.key = runs[n].flags.key
  BY DEF OnlyNewKeyStrands
<1>1. TypeOK /\ RunOK(n) /\ KeysKept(n)
  BY IInvIs, BasicRuns DEF Apart
<1>2. PairOK(n) /\ \A s : Passed(n, s)
  BY <1>1, AllPassed DEF RunOK
<1>3. ~MakesKeys(runs[n])
  BY DEF Encrypts
<1>4. runs[n].pair # NoPair
  BY <1>2, <1>3 DEF PairOK
<1> QED BY <1>1, <1>4 DEF KeysKept

\* The runs, files and shells of the programs stay what they are taken to be, and a
\* shell waits for its program, which alone has steps to take.
THEOREM TypeCorrect == Spec => []TypeOK
<1>1. IInv => TypeOK
  BY DEF IInv
<1> QED BY <1>1, Invariant, PTL

\* What a program prints, another one sealed with the same keys and additional
\* data, whatever was done to the files: "msg := string(ptext)" of each decrypt.
THEOREM PrintsOnlyWhatWasSealed == Spec => []OnlySealedPrinted
BY Invariant, PrintedWasSealed, PTL

\* os.WriteFile of newkey and encrypt leaves an empty or a mixed file only if the
\* program was stopped or another wrote the file at the same time.
THEOREM FilesStayWhole == Spec => []WholeFiles
BY Invariant, FilesAreWhole, PTL

\* Splitting a file at the nonce's length panics only beside or after a program
\* that did not finish it, or when the library is to blame.
THEOREM OnlyUnfinishedFilesPanic == Spec => []PanicsOnlyOnUnfinished
BY Invariant, OnlyUnfinishedPanic, PTL

\* If keys and messages have different names, nothing but newkey makes a message
\* that encrypt has written unreadable, as far as the files go.
THEOREM OnlyNewKeyStrandsMessages ==
  ASSUME FilesApart
  PROVE  Spec => []OnlyNewKeyStrands
<1>1. IInv => OnlyNewKeyStrands
  BY KeysStayOnFile
<1> QED BY <1>1, Invariant, PTL

\* If keys and messages have different names, newkey, encrypt and decrypt with the
\* same flags work in a row, for every policy and a text that fits one command,
\* or any text without a policy, whatever was on file before, and whoever decrypts
\* meanwhile.
THEOREM ThreeCommandsInARow ==
  ASSUME FilesApart
  PROVE  Spec => []ThreeCommandsWork
<1>1. IInv => ThreeCommandsWork
  BY DEF IInv
<1> QED BY <1>1, Invariant, PTL
=============================================================================
