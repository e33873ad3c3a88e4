------------------------ MODULE TPMAEADLoads_proofs ------------------------
(***************************************************************************)
(* Proofs about what calls of TPMAEAD have loaded: that a call finds what  *)
(* it has loaded where it put it, that the device's slots are enough for   *)
(* it, and what it may leave behind; and that a call to which nothing      *)
(* happens fails only if its caller has done something wrong.              *)
(***************************************************************************)
EXTENDS TPMAEADService_proofs, FiniteSetTheorems

-----------------------------------------------------------------------------
(* What is in use at each step. *)

\* A variable is in use from its loading step to its flush.
LEMMA UseFrom ==
  ASSUME HandleInv, NEW c \in Client, NEW cmd, NEW v, AtStep(c, cmd, v),
         NEW p, p = PlaceOf(call[c].op, <<cmd, v>>), NEW w
  PROVE  InUse(c, w) <=>
           /\ LoadingStep(w) \in StepsOf(call[c]) /\ PlaceOf(call[c].op, LoadingStep(w)) < p
           /\ <<"FlushContext", w>> \in StepsOf(call[c]) =>
                p <= PlaceOf(call[c].op, <<"FlushContext", w>>)
           /\ w = "sequence" => Ahead(c, TagStep)
<1>1. /\ p \in Nat
      /\ \A m \in StepsOf(call[c]) :
           /\ PlaceOf(call[c].op, m) \in Nat
           /\ Taken(c, m) <=> PlaceOf(call[c].op, m) < p
  BY Position
<1>2. \A m : Taken(c, m) => m \in StepsOf(call[c])
  BY DEF Taken
<1>3. Taken(c, LoadingStep(w)) <=>
        LoadingStep(w) \in StepsOf(call[c]) /\ PlaceOf(call[c].op, LoadingStep(w)) < p
  BY <1>1, <1>2
<1>4. ~Taken(c, <<"FlushContext", w>>) <=>
        (<<"FlushContext", w>> \in StepsOf(call[c]) =>
           p <= PlaceOf(call[c].op, <<"FlushContext", w>>))
  BY <1>1, <1>2
<1> QED BY <1>3, <1>4 DEF InUse, TagStep

\* The steps that load and those that flush, by function.
LEMMA LoadingSteps ==
  /\ LoadingStep("primary") = <<"CreatePrimary", "primary">>
  /\ LoadingStep("aes") = <<"Load", "aes">> /\ LoadingStep("hmac") = <<"Load", "hmac">>
  /\ LoadingStep("sequence") = <<"HmacStart", "hmac">>
  /\ \A v \in SessionVariable : LoadingStep(v) = <<"StartAuthSession", v>>
BY DEF LoadingStep, SessionVariable

\* What Seal loads, and what of it Seal flushes.
LEMMA SealLoads ==
  ASSUME NEW a, a.op = "Seal"
  PROVE  /\ \A v \in Variable \ {"trial"} : LoadingStep(v) \in StepsOf(a)
         /\ LoadingStep("trial") \notin StepsOf(a)
         /\ \A v \in Variable : <<"FlushContext", v>> \in StepsOf(a) <=> v \in {"aes", "aesSession"}
<1>1. StepsOf(a) = SealSteps(a.session.kind, a.pt.len)
  BY DEF StepsOf
<1>2. \A v \in Variable \ {"trial"} : LoadingStep(v) \in StepsOf(a)
  BY <1>1, LoadingSteps DEF SealSteps, CryptSteps, SessionSteps, Variable, ObjectVariable, SessionVariable
<1>3. LoadingStep("trial") \notin StepsOf(a)
  BY <1>1, LoadingSteps, WhoseSteps DEF SessionVariable
<1>4. \A v \in Variable : <<"FlushContext", v>> \in StepsOf(a) <=> v \in {"aes", "aesSession"}
  BY <1>1 DEF SealSteps, CryptSteps, SessionSteps, Variable, ObjectVariable, SessionVariable
<1> QED BY <1>2, <1>3, <1>4

\* What Open loads, and what of it Open flushes.
LEMMA OpenLoads ==
  ASSUME NEW a, a.op = "Open"
  PROVE  /\ \A v \in Variable \ {"trial"} : LoadingStep(v) \in StepsOf(a)
         /\ LoadingStep("trial") \notin StepsOf(a)
         /\ \A v \in Variable : <<"FlushContext", v>> \in StepsOf(a) <=> v \in {"hmac", "hmacSession"}
<1>1. StepsOf(a) = OpenSteps(a.session.kind, a.ct.pt.len)
  BY DEF StepsOf
<1>2. \A v \in Variable \ {"trial"} : LoadingStep(v) \in StepsOf(a)
  BY <1>1, LoadingSteps DEF OpenSteps, CryptSteps, SessionSteps, Variable, ObjectVariable, SessionVariable
<1>3. LoadingStep("trial") \notin StepsOf(a)
  BY <1>1, LoadingSteps, WhoseSteps DEF SessionVariable
<1>4. \A v \in Variable : <<"FlushContext", v>> \in StepsOf(a) <=> v \in {"hmac", "hmacSession"}
  BY <1>1 DEF OpenSteps, CryptSteps, SessionSteps, Variable, ObjectVariable, SessionVariable
<1> QED BY <1>2, <1>3, <1>4

\* NewKey loads a primary and a trial session and flushes neither of them
\* itself.
LEMMA NewKeyLoads ==
  ASSUME NEW a, a.op = "NewKey"
  PROVE  /\ \A v \in Variable : LoadingStep(v) \in StepsOf(a) <=> v \in {"primary", "trial"}
         /\ \A v \in Variable : <<"FlushContext", v>> \notin StepsOf(a)
<1>1. StepsOf(a) = NewKeySteps(a.session.kind)
  BY DEF StepsOf
<1>2. \A v \in {"primary", "trial"} : LoadingStep(v) \in StepsOf(a)
  BY <1>1, LoadingSteps DEF NewKeySteps, SessionSteps, SessionVariable
<1>3. \A v \in {"aes", "hmac", "sequence"} : LoadingStep(v) \notin StepsOf(a)
  BY LoadingSteps, WhoseSteps
<1>4. \A v \in {"aesSession", "hmacSession"} : LoadingStep(v) \notin StepsOf(a)
  BY <1>1, LoadingSteps DEF NewKeySteps, SessionSteps, SessionVariable
<1>5. \A v \in Variable : <<"FlushContext", v>> \notin StepsOf(a)
  BY <1>1 DEF NewKeySteps, SessionSteps
<1> QED BY <1>2, <1>3, <1>4, <1>5 DEF Variable, ObjectVariable, SessionVariable

\* NewAESCTRHMAC loads nothing.
LEMMA NewAEADLoads ==
  ASSUME NEW a, a.op \notin {"NewKey", "Seal", "Open"}
  PROVE  \A v \in Variable : LoadingStep(v) \notin StepsOf(a) /\ <<"FlushContext", v>> \notin StepsOf(a)
<1>1. StepsOf(a) \in {NewAEADSteps, {}}
  BY DEF StepsOf
<1>2. \A v \in Variable : LoadingStep(v)[1] \in {"CreatePrimary", "Load", "HmacStart", "StartAuthSession"}
  BY LoadingSteps DEF Variable, ObjectVariable, SessionVariable
<1> QED BY <1>1, <1>2 DEF NewAEADSteps

\* What is in use at a step of Seal, by the step's place, ...
LEMMA SealUse ==
  ASSUME HandleInv, NEW c \in Client, NEW cmd, NEW v, AtStep(c, cmd, v), call[c].op = "Seal",
         NEW p, p = PlaceOf("Seal", <<cmd, v>>)
  PROVE  /\ p \in Nat
         /\ InUse(c, "primary") <=> 3 < p
         /\ InUse(c, "aes") <=> 4 < p /\ p <= 10
         /\ InUse(c, "aesSession") <=> 5 < p /\ p <= 11
         /\ InUse(c, "hmac") <=> 12 < p
         /\ InUse(c, "hmacSession") <=> 13 < p
         /\ InUse(c, "sequence") <=> 18 < p /\ p <= 20
         /\ ~InUse(c, "trial")
<1> DEFINE P(m) == PlaceOf("Seal", m)
<1>1. /\ \A u \in Variable \ {"trial"} : LoadingStep(u) \in StepsOf(call[c])
      /\ LoadingStep("trial") \notin StepsOf(call[c])
      /\ \A u \in Variable : <<"FlushContext", u>> \in StepsOf(call[c]) <=> u \in {"aes", "aesSession"}
  BY SealLoads
<1>2. ASSUME NEW u \in Variable
      PROVE  InUse(c, u) <=>
               /\ LoadingStep(u) \in StepsOf(call[c]) /\ P(LoadingStep(u)) < p
               /\ <<"FlushContext", u>> \in StepsOf(call[c]) => p <= P(<<"FlushContext", u>>)
               /\ u = "sequence" => Ahead(c, TagStep)
  BY UseFrom
<1>3. Variable = {"primary", "aes", "hmac", "sequence", "trial", "aesSession", "hmacSession"}
  BY DEF Variable, ObjectVariable, SessionVariable
<1>4. p \in Nat /\ (Ahead(c, TagStep) <=> p <= 20)
  BY SealPosition
<1>5. /\ P(LoadingStep("primary")) = 3 /\ P(LoadingStep("aes")) = 4 /\ P(LoadingStep("hmac")) = 12
      /\ P(LoadingStep("sequence")) = 18
      /\ P(LoadingStep("aesSession")) = 5 /\ P(LoadingStep("hmacSession")) = 13
      /\ P(<<"FlushContext", "aes">>) = 10 /\ P(<<"FlushContext", "aesSession">>) = 11
  BY SealPlaces, LoadingSteps DEF SessionAt, SessionVariable
<1> HIDE DEF P
<1>6. /\ InUse(c, "primary") <=> 3 < p
      /\ InUse(c, "hmac") <=> 12 < p
      /\ InUse(c, "hmacSession") <=> 13 < p
      /\ ~InUse(c, "trial")
  BY <1>1, <1>2, <1>3, <1>5
<1>7. /\ InUse(c, "aes") <=> 4 < p /\ p <= 10
      /\ InUse(c, "aesSession") <=> 5 < p /\ p <= 11
      /\ InUse(c, "sequence") <=> 18 < p /\ p <= 20
  BY <1>1, <1>2, <1>3, <1>4, <1>5
<1> QED BY <1>4, <1>6, <1>7

\* ... of Open, ...
LEMMA OpenUse ==
  ASSUME HandleInv, NEW c \in Client, NEW cmd, NEW v, AtStep(c, cmd, v), call[c].op = "Open",
         NEW p, p = PlaceOf("Open", <<cmd, v>>)
  PROVE  /\ p \in Nat
         /\ InUse(c, "primary") <=> 3 < p
         /\ InUse(c, "hmac") <=> 4 < p /\ p <= 14
         /\ InUse(c, "hmacSession") <=> 5 < p /\ p <= 13
         /\ InUse(c, "sequence") <=> 10 < p /\ p <= 12
         /\ InUse(c, "aes") <=> 16 < p
         /\ InUse(c, "aesSession") <=> 17 < p
         /\ ~InUse(c, "trial")
<1> DEFINE P(m) == PlaceOf("Open", m)
<1>1. /\ \A u \in Variable \ {"trial"} : LoadingStep(u) \in StepsOf(call[c])
      /\ LoadingStep("trial") \notin StepsOf(call[c])
      /\ \A u \in Variable : <<"FlushContext", u>> \in StepsOf(call[c]) <=> u \in {"hmac", "hmacSession"}
  BY OpenLoads
<1>2. ASSUME NEW u \in Variable
      PROVE  InUse(c, u) <=>
               /\ LoadingStep(u) \in StepsOf(call[c]) /\ P(LoadingStep(u)) < p
               /\ <<"FlushContext", u>> \in StepsOf(call[c]) => p <= P(<<"FlushContext", u>>)
               /\ u = "sequence" => Ahead(c, TagStep)
  BY UseFrom
<1>3. Variable = {"primary", "aes", "hmac", "sequence", "trial", "aesSession", "hmacSession"}
  BY DEF Variable, ObjectVariable, SessionVariable
<1>4. p \in Nat /\ (Ahead(c, TagStep) <=> p <= 12)
  BY OpenPosition
<1>5. /\ P(LoadingStep("primary")) = 3 /\ P(LoadingStep("aes")) = 16 /\ P(LoadingStep("hmac")) = 4
      /\ P(LoadingStep("sequence")) = 10
      /\ P(LoadingStep("aesSession")) = 17 /\ P(LoadingStep("hmacSession")) = 5
      /\ P(<<"FlushContext", "hmac">>) = 14 /\ P(<<"FlushContext", "hmacSession">>) = 13
  BY OpenPlaces, LoadingSteps DEF SessionAt, SessionVariable
<1> HIDE DEF P
<1>6. /\ InUse(c, "primary") <=> 3 < p
      /\ InUse(c, "aes") <=> 16 < p
      /\ InUse(c, "aesSession") <=> 17 < p
      /\ ~InUse(c, "trial")
  BY <1>1, <1>2, <1>3, <1>5
<1>7. /\ InUse(c, "hmac") <=> 4 < p /\ p <= 14
      /\ InUse(c, "hmacSession") <=> 5 < p /\ p <= 13
      /\ InUse(c, "sequence") <=> 10 < p /\ p <= 12
  BY <1>1, <1>2, <1>3, <1>4, <1>5
<1> QED BY <1>4, <1>6, <1>7

\* ... of NewKey, ...
LEMMA NewKeyUse ==
  ASSUME HandleInv, NEW c \in Client, NEW cmd, NEW v, AtStep(c, cmd, v), call[c].op = "NewKey",
         NEW p, p = PlaceOf("NewKey", <<cmd, v>>)
  PROVE  /\ p \in Nat
         /\ InUse(c, "primary") <=> 7 < p
         /\ InUse(c, "trial") <=> 2 < p
         /\ \A w \in Variable : InUse(c, w) => w \in {"primary", "trial"}
<1> DEFINE P(m) == PlaceOf("NewKey", m)
<1>1. /\ \A u \in Variable : LoadingStep(u) \in StepsOf(call[c]) <=> u \in {"primary", "trial"}
      /\ \A u \in Variable : <<"FlushContext", u>> \notin StepsOf(call[c])
  BY NewKeyLoads
<1>2. ASSUME NEW u \in Variable
      PROVE  InUse(c, u) <=>
               /\ LoadingStep(u) \in StepsOf(call[c]) /\ P(LoadingStep(u)) < p
               /\ <<"FlushContext", u>> \in StepsOf(call[c]) => p <= P(<<"FlushContext", u>>)
               /\ u = "sequence" => Ahead(c, TagStep)
  BY UseFrom
<1>3. {"primary", "trial"} \subseteq Variable
  BY DEF Variable, ObjectVariable, SessionVariable
<1>4. p \in Nat
  BY NewKeyPosition
<1>5. P(LoadingStep("primary")) = 7 /\ P(LoadingStep("trial")) = 2
  BY NewKeyPlaces, LoadingSteps DEF SessionAt, SessionVariable
<1> HIDE DEF P
<1> QED BY <1>1, <1>2, <1>3, <1>4, <1>5

\* ... and of NewAESCTRHMAC.
LEMMA NewAEADUse ==
  ASSUME NEW c, call[c].op \notin {"NewKey", "Seal", "Open"}
  PROVE  \A w \in Variable : ~InUse(c, w)
<1> DEFINE a == call[c]
<1>1. a.op \notin {"NewKey", "Seal", "Open"}
  OBVIOUS
<1>2. \A w \in Variable : LoadingStep(w) \notin StepsOf(a)
  BY <1>1, NewAEADLoads
<1> QED BY <1>2 DEF InUse, Taken

\* A command finds in use what it names, and a flush what it flushes.
Finds(c, cmd, v) ==
  /\ cmd \in {"Create", "Load"} => InUse(c, "primary")
  /\ cmd \in UsesKey \union {"ReadPublic"} => v \in {"aes", "hmac"} /\ InUse(c, v)
  /\ cmd \in UsesKey => InUse(c, SessionOf[v])
  /\ cmd \in {"SequenceUpdate", "SequenceComplete"} => v = "sequence" /\ InUse(c, v)
  /\ cmd \in {"PolicyPCR", "PolicyAuthValue", "PolicyGetDigest"} => v \in SessionVariable /\ InUse(c, v)
  /\ cmd = "FlushContext" => InUse(c, v)

\* This is so in Seal, ...
LEMMA SealFinds ==
  ASSUME HandleInv, NEW c \in Client, NEW cmd, NEW v, AtStep(c, cmd, v), call[c].op = "Seal"
  PROVE  Finds(c, cmd, v)
<1> DEFINE m == <<cmd, v>>
<1>1. m \in SealSteps(call[c].session.kind, call[c].pt.len) \union {Optional}
  BY Position DEF StepsOf
<1>2. m[1] = cmd /\ m[2] = v
  OBVIOUS
<1> HIDE DEF m
<1>3. cmd = "Load" => v \in {"aes", "hmac"}
  BY StepOfOp
<1>4. cmd = "EncryptDecrypt2" => v = "aes"
  BY <1>1, <1>2 DEF SealSteps, CryptSteps, SessionSteps, Optional
<1>5. cmd \in {"HmacStart", "ReadPublic"} => v = "hmac"
  BY <1>1, <1>2 DEF SealSteps, CryptSteps, SessionSteps, Optional
<1>6. cmd \in {"SequenceUpdate", "SequenceComplete"} => v = "sequence"
  BY <1>1, <1>2 DEF SealSteps, CryptSteps, SessionSteps, Optional
<1>7. cmd \in {"PolicyPCR", "PolicyAuthValue", "PolicyGetDigest"} =>
        v \in {"aesSession", "hmacSession"} /\ cmd # "PolicyGetDigest"
  BY <1>1, <1>2 DEF SealSteps, CryptSteps, SessionSteps, Optional
<1>8. cmd = "FlushContext" => v \in {"aes", "aesSession"}
  BY <1>1, <1>2 DEF SealSteps, CryptSteps, SessionSteps, Optional
<1>9. cmd # "Create"
  BY StepOfOp
<1> DEFINE p == PlaceOf("Seal", <<cmd, v>>)
<1>10. /\ p \in Nat
       /\ InUse(c, "primary") <=> 3 < p
       /\ InUse(c, "aes") <=> 4 < p /\ p <= 10
       /\ InUse(c, "aesSession") <=> 5 < p /\ p <= 11
       /\ InUse(c, "hmac") <=> 12 < p
       /\ InUse(c, "hmacSession") <=> 13 < p
       /\ InUse(c, "sequence") <=> 18 < p /\ p <= 20
  BY SealUse
<1>11. cmd = "Load" => InUse(c, "primary")
  BY <1>3, <1>10, SealPlaces
<1>12. cmd \in UsesKey \union {"ReadPublic"} => v \in {"aes", "hmac"} /\ InUse(c, v)
  BY <1>4, <1>5, <1>10, SealPlaces DEF UsesKey
<1>13. cmd \in UsesKey => InUse(c, SessionOf[v])
  BY <1>4, <1>5, <1>10, SealPlaces DEF UsesKey, SessionOf
<1>14. cmd \in {"SequenceUpdate", "SequenceComplete"} => v = "sequence" /\ InUse(c, v)
  BY <1>6, <1>10, SealPlaces
<1>15. cmd \in {"PolicyPCR", "PolicyAuthValue", "PolicyGetDigest"} => v \in SessionVariable /\ InUse(c, v)
  BY <1>7, <1>10, SealPlaces DEF SessionAt, SessionVariable
<1>16. cmd = "FlushContext" => InUse(c, v)
  BY <1>8, <1>10, SealPlaces
<1> QED BY <1>9, <1>11, <1>12, <1>13, <1>14, <1>15, <1>16 DEF Finds

\* ... in Open, ...
LEMMA OpenFinds ==
  ASSUME HandleInv, NEW c \in Client, NEW cmd, NEW v, AtStep(c, cmd, v), call[c].op = "Open"
  PROVE  Finds(c, cmd, v)
<1> DEFINE m == <<cmd, v>>
<1>1. m \in OpenSteps(call[c].session.kind, call[c].ct.pt.len) \union {Optional}
  BY Position DEF StepsOf
<1>2. m[1] = cmd /\ m[2] = v
  OBVIOUS
<1> HIDE DEF m
<1>3. cmd = "Load" => v \in {"aes", "hmac"}
  BY StepOfOp
<1>4. cmd = "EncryptDecrypt2" => v = "aes"
  BY <1>1, <1>2 DEF OpenSteps, CryptSteps, SessionSteps, Optional
<1>5. cmd \in {"HmacStart", "ReadPublic"} => v = "hmac"
  BY <1>1, <1>2 DEF OpenSteps, CryptSteps, SessionSteps, Optional
<1>6. cmd \in {"SequenceUpdate", "SequenceComplete"} => v = "sequence"
  BY <1>1, <1>2 DEF OpenSteps, CryptSteps, SessionSteps, Optional
<1>7. cmd \in {"PolicyPCR", "PolicyAuthValue", "PolicyGetDigest"} =>
        v \in {"aesSession", "hmacSession"} /\ cmd # "PolicyGetDigest"
  BY <1>1, <1>2 DEF OpenSteps, CryptSteps, SessionSteps, Optional
<1>8. cmd = "FlushContext" => v \in {"hmac", "hmacSession"}
  BY <1>1, <1>2 DEF OpenSteps, CryptSteps, SessionSteps, Optional
<1>9. cmd # "Create"
  BY StepOfOp
<1> DEFINE p == PlaceOf("Open", <<cmd, v>>)
<1>10. /\ p \in Nat
       /\ InUse(c, "primary") <=> 3 < p
       /\ InUse(c, "hmac") <=> 4 < p /\ p <= 14
       /\ InUse(c, "hmacSession") <=> 5 < p /\ p <= 13
       /\ InUse(c, "sequence") <=> 10 < p /\ p <= 12
       /\ InUse(c, "aes") <=> 16 < p
       /\ InUse(c, "aesSession") <=> 17 < p
  BY OpenUse
<1>11. cmd = "Load" => InUse(c, "primary")
  BY <1>3, <1>10, OpenPlaces
<1>12. cmd \in UsesKey \union {"ReadPublic"} => v \in {"aes", "hmac"} /\ InUse(c, v)
  BY <1>4, <1>5, <1>10, OpenPlaces DEF UsesKey
<1>13. cmd \in UsesKey => InUse(c, SessionOf[v])
  BY <1>4, <1>5, <1>10, OpenPlaces DEF UsesKey, SessionOf
<1>14. cmd \in {"SequenceUpdate", "SequenceComplete"} => v = "sequence" /\ InUse(c, v)
  BY <1>6, <1>10, OpenPlaces
<1>15. cmd \in {"PolicyPCR", "PolicyAuthValue", "PolicyGetDigest"} => v \in SessionVariable /\ InUse(c, v)
  BY <1>7, <1>10, OpenPlaces DEF SessionAt, SessionVariable
<1>16. cmd = "FlushContext" => InUse(c, v)
  BY <1>8, <1>10, OpenPlaces
<1> QED BY <1>9, <1>11, <1>12, <1>13, <1>14, <1>15, <1>16 DEF Finds

\* ... and in NewKey ...
LEMMA NewKeyFinds ==
  ASSUME HandleInv, NEW c \in Client, NEW cmd, NEW v, AtStep(c, cmd, v), call[c].op = "NewKey"
  PROVE  Finds(c, cmd, v)
<1> DEFINE m == <<cmd, v>>
<1>1. m \in NewKeySteps(call[c].session.kind) \union {Optional}
  BY Position DEF StepsOf
<1>2. m[1] = cmd /\ m[2] = v
  OBVIOUS
<1>3. cmd \in CommandsOf("NewKey")
  BY StepOfFunction DEF HandleInv, IInv, ClientOK, AtStep
<1>4. cmd \notin UsesKey \union {"Load", "ReadPublic", "SequenceUpdate", "SequenceComplete", "FlushContext"}
  BY <1>3 DEF CommandsOf, SessionCommands, UsesKey
<1>5. cmd = "Create" => v \in {"aes", "hmac"}
  BY StepOfOp
<1> HIDE DEF m
<1>6. cmd \in {"PolicyPCR", "PolicyAuthValue", "PolicyGetDigest"} => v = "trial"
  BY <1>1, <1>2 DEF NewKeySteps, SessionSteps, Optional
<1> DEFINE p == PlaceOf("NewKey", <<cmd, v>>)
<1>7. p \in Nat /\ (7 < p => InUse(c, "primary")) /\ (2 < p => InUse(c, "trial"))
  BY NewKeyUse
<1>8. cmd = "Create" => InUse(c, "primary")
  BY <1>5, <1>7, NewKeyPlaces
<1>9. cmd \in {"PolicyPCR", "PolicyAuthValue", "PolicyGetDigest"} => v \in SessionVariable /\ InUse(c, v)
  BY <1>6, <1>7, NewKeyPlaces DEF SessionAt, SessionVariable
<1> QED BY <1>4, <1>8, <1>9 DEF Finds

\* ... and so in all calls.
LEMMA NamedInUse ==
  ASSUME HandleInv, NEW c \in Client, NEW cmd, NEW v, AtStep(c, cmd, v)
  PROVE  Finds(c, cmd, v)
<1>1. CASE call[c].op \notin {"Seal", "Open", "NewKey"}
  <2>1. cmd \in CommandsOf(call[c].op)
    BY StepOfFunction DEF HandleInv, IInv, ClientOK, AtStep
  <2>2. cmd \in {"Dial", "CheckKeys"}
    BY <1>1, <2>1 DEF CommandsOf
  <2> QED BY <2>2 DEF UsesKey, Finds
<1> QED BY <1>1, SealFinds, OpenFinds, NewKeyFinds

-----------------------------------------------------------------------------
(* How steps change what is in use. *)

\* Steps that load, flush or use up something are taken once.
LEMMA UseOnce ==
  /\ \A w \in Variable : LoadingStep(w) \notin Repeated /\ <<"FlushContext", w>> \notin Repeated
  /\ TagStep \notin Repeated
  /\ \A w, u \in Variable : LoadingStep(w) # <<"FlushContext", u>> /\ LoadingStep(w) # TagStep
  /\ \A w, u \in Variable : LoadingStep(w) = LoadingStep(u) => w = u
<1>1. Variable = {"primary", "aes", "hmac", "sequence", "trial", "aesSession", "hmacSession"}
  BY DEF Variable, ObjectVariable, SessionVariable
<1>2. \A w \in Variable : LoadingStep(w) \notin Repeated /\ <<"FlushContext", w>> \notin Repeated
  BY <1>1, LoadingSteps DEF Repeated, Optional, SessionVariable
<1>3. TagStep \notin Repeated
  BY DEF TagStep, Repeated, Optional
<1>4. \A w, u \in Variable : LoadingStep(w) # <<"FlushContext", u>> /\ LoadingStep(w) # TagStep
  BY <1>1, LoadingSteps DEF TagStep, SessionVariable
<1>5. \A w, u \in Variable : LoadingStep(w) = LoadingStep(u) => w = u
  BY <1>1, LoadingSteps DEF SessionVariable
<1> QED BY <1>2, <1>3, <1>4, <1>5

\* A step changes the use of what it loads, flushes or uses up only.
LEMMA UseAfter ==
  ASSUME HandleInv, NEW c \in Client, NEW cmd, NEW v, AtStep(c, cmd, v), Proceed(c),
         call' = call, outcome' = outcome, NEW w \in Variable
  PROVE  /\ LoadingStep(w) = <<cmd, v>> => ~InUse(c, w)
         /\ LoadingStep(w) # <<cmd, v>> /\ InUse(c, w)' => InUse(c, w)
         /\ InUse(c, w) /\ ~InUse(c, w)' =>
              <<cmd, v>> = <<"FlushContext", w>> \/ (w = "sequence" /\ <<cmd, v>> = TagStep)
         /\ <<cmd, v>> = <<"FlushContext", w>> \/ (w = "sequence" /\ <<cmd, v>> = TagStep) => ~InUse(c, w)'
<1>1. /\ \A m : m # <<cmd, v>> => (Ahead(c, m)' <=> Ahead(c, m))
      /\ <<cmd, v>> \notin Repeated => ~Ahead(c, <<cmd, v>>)'
      /\ \A m : m # <<cmd, v>> => (Taken(c, m)' <=> Taken(c, m))
  BY PositionAfter
<1>2. Ahead(c, <<cmd, v>>) /\ ~Taken(c, <<cmd, v>>)
  BY AtAhead DEF Taken, HandleInv, IInv
<1>3. <<cmd, v>> # Optional => <<cmd, v>> \in StepsOf(call[c])
  BY Position
<1>4. <<cmd, v>> \notin Repeated => Taken(c, <<cmd, v>>)'
  BY <1>1, <1>3 DEF Taken, Repeated
<1> DEFINE L == LoadingStep(w)
           F == <<"FlushContext", w>>
<1>5. /\ L \notin Repeated /\ F \notin Repeated /\ TagStep \notin Repeated
      /\ L # F /\ L # TagStep /\ F # TagStep
  BY UseOnce DEF TagStep
<1>6. /\ InUse(c, w) <=> Taken(c, L) /\ ~Taken(c, F) /\ (w = "sequence" => Ahead(c, TagStep))
      /\ InUse(c, w)' <=> Taken(c, L)' /\ ~Taken(c, F)' /\ (w = "sequence" => Ahead(c, TagStep)')
  BY DEF InUse, TagStep, LoadingStep
<1> HIDE DEF L, F
<1>7. L = <<cmd, v>> => ~InUse(c, w)
  BY <1>2, <1>6
<1>8. L # <<cmd, v>> /\ InUse(c, w)' => InUse(c, w)
  BY <1>1, <1>2, <1>6
<1>9. InUse(c, w) /\ ~InUse(c, w)' => <<cmd, v>> = F \/ (w = "sequence" /\ <<cmd, v>> = TagStep)
  BY <1>1, <1>2, <1>6
<1>10. <<cmd, v>> = F \/ (w = "sequence" /\ <<cmd, v>> = TagStep) => ~InUse(c, w)'
  BY <1>1, <1>4, <1>5, <1>6
<1> QED BY <1>7, <1>8, <1>9, <1>10 DEF L, F

\* What a step loads comes into use.
LEMMA LoadInUse ==
  ASSUME HandleInv, NEW c \in Client, NEW w \in Variable, NEW cmd, NEW v,
         AtStep(c, cmd, v), LoadingStep(w) = <<cmd, v>>, Proceed(c), call' = call, outcome' = outcome
  PROVE  InUse(c, w)'
<1> DEFINE m == <<cmd, v>>
           P(x) == PlaceOf(call[c].op, x)
           F == <<"FlushContext", w>>
<1>1. m \in StepsOf(call[c])
  BY Position, UseOnce DEF Repeated
<1>2. P(m) \in Nat /\ \A x \in StepsOf(call[c]) : P(x) \in Nat /\ (Taken(c, x) <=> P(x) < P(m))
  BY Position
<1>3. F \in StepsOf(call[c]) => P(m) < P(F)
  <2>1. CASE call[c].op = "Seal"
    <3>1. F \in StepsOf(call[c]) => w \in {"aes", "aesSession"}
      BY <2>1, SealLoads
    <3> QED BY <2>1, <3>1, LoadingSteps, SealPlaces DEF SessionAt, SessionVariable
  <2>2. CASE call[c].op = "Open"
    <3>1. F \in StepsOf(call[c]) => w \in {"hmac", "hmacSession"}
      BY <2>2, OpenLoads
    <3> QED BY <2>2, <3>1, LoadingSteps, OpenPlaces DEF SessionAt, SessionVariable
  <2>3. CASE call[c].op \notin {"Seal", "Open"}
    BY <2>3, NewKeyLoads, NewAEADLoads
  <2> QED BY <2>1, <2>2, <2>3
<1>4. w = "sequence" => Ahead(c, TagStep)
  <2> SUFFICES ASSUME w = "sequence" PROVE Ahead(c, TagStep)
    OBVIOUS
  <2>1. cmd = "HmacStart" /\ v = "hmac"
    BY LoadingSteps
  <2>2. call[c].op \in {"Seal", "Open"}
    BY <1>1, <2>1, WhoseSteps
  <2> QED BY <2>1, <2>2, SealPosition, OpenPosition, SealPlaces, OpenPlaces
<1>5. ~Taken(c, F)
  BY <1>2, <1>3 DEF Taken
<1>6. /\ \A x : x # m => (Ahead(c, x)' <=> Ahead(c, x))
      /\ m \notin Repeated => ~Ahead(c, m)'
      /\ \A x : x # m => (Taken(c, x)' <=> Taken(c, x))
  BY PositionAfter
<1>7. m \notin Repeated /\ m # F /\ m # TagStep
  BY UseOnce
<1>8. Taken(c, m)' /\ ~Taken(c, F)' /\ (w = "sequence" => Ahead(c, TagStep)')
  BY <1>1, <1>4, <1>5, <1>6, <1>7 DEF Taken
<1>9. LoadingStep(w)' = m
  BY DEF LoadingStep
<1> QED BY <1>8, <1>9 DEF InUse, TagStep

\* What a load finds in use leaves it a slot.
LEMMA UseAtLoads ==
  ASSUME HandleInv, NEW c \in Client, NEW cmd, NEW v, AtStep(c, cmd, v)
  PROVE  /\ cmd \in Loads => \A w \in ObjectVariable : InUse(c, w) => w \in {"primary", "hmac"}
         /\ cmd = "StartAuthSession" => \A w \in SessionVariable : ~InUse(c, w)
<1> DEFINE m == <<cmd, v>>
<1>1. cmd # "SequenceUpdate" => m \in StepsOf(call[c])
  BY StepOfOp
<1>2. m[1] = cmd /\ m[2] = v
  OBVIOUS
<1>3. CASE call[c].op = "Seal"
  <2>1. cmd # "SequenceUpdate" => m \in SealSteps(call[c].session.kind, call[c].pt.len)
    BY <1>1, <1>3 DEF StepsOf
  <2> HIDE DEF m
  <2>2. cmd = "CreatePrimary" => v = "primary"
    BY <1>2, <2>1 DEF SealSteps, CryptSteps, SessionSteps
  <2>3. cmd = "HmacStart" => v = "hmac"
    BY <1>2, <2>1 DEF SealSteps, CryptSteps, SessionSteps
  <2>4. cmd = "Load" => v \in {"aes", "hmac"}
    BY StepOfOp
  <2>5. cmd = "StartAuthSession" => v \in {"aesSession", "hmacSession"}
    BY <1>2, <2>1 DEF SealSteps, CryptSteps, SessionSteps
  <2> DEFINE p == PlaceOf("Seal", <<cmd, v>>)
  <2>6. /\ p \in Nat
        /\ InUse(c, "aes") <=> 4 < p /\ p <= 10
        /\ InUse(c, "aesSession") <=> 5 < p /\ p <= 11
        /\ InUse(c, "hmacSession") <=> 13 < p
        /\ InUse(c, "sequence") <=> 18 < p /\ p <= 20
        /\ ~InUse(c, "trial")
    BY <1>3, SealUse
  <2>7. cmd \in Loads => ~InUse(c, "aes") /\ ~InUse(c, "sequence")
    BY <2>2, <2>3, <2>4, <2>6, SealPlaces DEF Loads
  <2>8. cmd = "StartAuthSession" => ~InUse(c, "aesSession") /\ ~InUse(c, "hmacSession")
    BY <2>5, <2>6, SealPlaces DEF SessionAt
  <2> QED BY <2>6, <2>7, <2>8 DEF ObjectVariable, SessionVariable
<1>4. CASE call[c].op = "Open"
  <2>1. cmd # "SequenceUpdate" => m \in OpenSteps(call[c].session.kind, call[c].ct.pt.len)
    BY <1>1, <1>4 DEF StepsOf
  <2> HIDE DEF m
  <2>2. cmd = "CreatePrimary" => v = "primary"
    BY <1>2, <2>1 DEF OpenSteps, CryptSteps, SessionSteps
  <2>3. cmd = "HmacStart" => v = "hmac"
    BY <1>2, <2>1 DEF OpenSteps, CryptSteps, SessionSteps
  <2>4. cmd = "Load" => v \in {"aes", "hmac"}
    BY StepOfOp
  <2>5. cmd = "StartAuthSession" => v \in {"aesSession", "hmacSession"}
    BY <1>2, <2>1 DEF OpenSteps, CryptSteps, SessionSteps
  <2> DEFINE p == PlaceOf("Open", <<cmd, v>>)
  <2>6. /\ p \in Nat
        /\ InUse(c, "hmacSession") <=> 5 < p /\ p <= 13
        /\ InUse(c, "sequence") <=> 10 < p /\ p <= 12
        /\ InUse(c, "aes") <=> 16 < p
        /\ InUse(c, "aesSession") <=> 17 < p
        /\ ~InUse(c, "trial")
    BY <1>4, OpenUse
  <2>7. cmd \in Loads => ~InUse(c, "aes") /\ ~InUse(c, "sequence")
    BY <2>2, <2>3, <2>4, <2>6, OpenPlaces DEF Loads
  <2>8. cmd = "StartAuthSession" => ~InUse(c, "aesSession") /\ ~InUse(c, "hmacSession")
    BY <2>5, <2>6, OpenPlaces DEF SessionAt
  <2> QED BY <2>6, <2>7, <2>8 DEF ObjectVariable, SessionVariable
<1>5. CASE call[c].op = "NewKey"
  <2> DEFINE p == PlaceOf("NewKey", <<cmd, v>>)
  <2>1. /\ p \in Nat /\ (InUse(c, "trial") => 2 < p)
        /\ \A w \in Variable : InUse(c, w) => w \in {"primary", "trial"}
    BY <1>5, NewKeyUse
  <2>2. cmd # "SequenceUpdate" => m \in NewKeySteps(call[c].session.kind)
    BY <1>1, <1>5 DEF StepsOf
  <2>3. cmd = "StartAuthSession" => v = "trial"
    <3> HIDE DEF m
    <3> QED BY <1>2, <2>2 DEF NewKeySteps, SessionSteps
  <2>4. cmd = "StartAuthSession" => ~InUse(c, "trial")
    BY <2>1, <2>3, NewKeyPlaces DEF SessionAt
  <2> QED BY <2>1, <2>4 DEF Variable, ObjectVariable, SessionVariable
<1>6. CASE call[c].op \notin {"Seal", "Open", "NewKey"}
  BY <1>6, NewAEADUse DEF Variable
<1> QED BY <1>3, <1>4, <1>5, <1>6

-----------------------------------------------------------------------------
(* Steps of others. *)

\* A step of d leaves loaded what other calls have loaded.
Spares(d) ==
  /\ \A o \in objects : o.owner \in Client \ {d} => o \in objects'
  /\ \A s \in sessions : s.owner \in Client \ {d} => \E t \in sessions' : t.handle = s.handle

\* Making d's things nobody's spares the others', ...
LEMMA OrphanSpares ==
  ASSUME NEW d,
         \A o \in Orphan(d, objects) : o.owner \in Client \ {d} => o \in objects',
         \A s \in Orphan(d, sessions) : s.owner \in Client \ {d} => s \in sessions'
  PROVE  Spares(d)
<1>1. \A o \in objects : o.owner # d => o \in Orphan(d, objects)
  BY DEF Orphan
<1>2. \A s \in sessions : s.owner # d => s \in Orphan(d, sessions)
  BY DEF Orphan
<1> QED BY <1>1, <1>2 DEF Spares

\* ... a flush does if only things of d are at its handle, ...
LEMMA FlushSpares ==
  ASSUME NEW d, NEW h, Flush(h), \A x \in Loadings : x.handle = h => x.owner = d
  PROVE  Spares(d)
BY DEF Spares, Flush, Loadings

\* ... and so does closing d's connection.
LEMMA RemainingSpares ==
  ASSUME HandleInv, NEW d \in Client, NEW x \in Loadings, x.owner \in Client \ {d}
  PROVE  /\ x \in objects => x \in Remaining(d, objects)
         /\ x \in sessions => x \in Remaining(d, sessions)
         /\ x \in Orphan(d, objects) => x \in Remaining(d, Orphan(d, objects))
         /\ x \in Orphan(d, sessions) => x \in Remaining(d, Orphan(d, sessions))
<1>1. x.handle \in Own(x.owner)
  BY DEF HandleInv, OwnersOK
<1>2. Transport = "rm" => x.handle[2] # d
  BY <1>1, HandleShape DEF Own, SpaceOf
<1> QED BY <1>2 DEF Remaining

\* What is at the handles of a served call is its own.
LEMMA HeldOwn ==
  ASSUME HandleInv, NEW d \in served, NEW x \in Loadings,
         Deferred(d, x.handle) \/ (\E v \in Variable : var[d][v] = x.handle)
  PROVE  x.owner = d
<1>1. d \in Client
  BY DEF HandleInv, IInv, TypeOK, TPMTypeOK
<1> QED BY <1>1 DEF HandleInv, OwnersOK

\* Local steps load nothing.
LEMMA StillLoaded ==
  ASSUME NEW d, LocalStep(d)
  PROVE  UNCHANGED <<objects, sessions>>
<1>1. ASSUME NEW cmd, NEW ok, NEW why, Check(d, cmd, ok, why) PROVE UNCHANGED <<objects, sessions>>
  BY <1>1 DEF Check, Fail, tpmVars
<1>2. CASE CheckLengths(d) \/ CheckTag(d)
  BY <1>1, <1>2 DEF CheckLengths, CheckTag
<1>3. CASE CheckKeys(d)
  BY <1>1, <1>3, Zenon DEF CheckKeys
<1>4. CASE Dial(d) \/ Defer(d)
  BY <1>4 DEF Dial, Defer, tpmVars
<1> QED BY <1>2, <1>3, <1>4 DEF LocalStep

\* Every step of d spares what is not its own.
LEMMA StepSpares ==
  ASSUME HandleInv, NEW d \in Client, StepOf(d)
  PROVE  Spares(d)
<1>1. TypeOK
  BY DEF HandleInv, IInv
<1>2. objects \subseteq objects' /\ sessions \subseteq sessions' => Spares(d)
  BY DEF Spares
<1>3. CASE Calls(d)
  <2> PICK a, program : Start(d, a, program)
    BY <1>1, <1>3, CallStarts
  <2> QED BY OrphanSpares DEF Start
<1>4. CASE LocalStep(d)
  <2>1. UNCHANGED <<objects, sessions>>
    BY <1>4, StillLoaded
  <2> QED BY <1>2, <2>1
<1>5. CASE PolicyGetDigest(d) \/ ReadPublic(d) \/ SequenceUpdate(d) \/ (\E v \in {"aes", "hmac"} : Create(d, v))
  BY <1>2, <1>5 DEF PolicyGetDigest, ReadPublic, SequenceUpdate, Create
<1>6. CASE SequenceComplete(d)
  <2> PICK q \in Loaded(d, "sequence", "sequence") : objects' = objects \ {q}
    BY <1>6 DEF SequenceComplete
  <2>1. d \in served /\ sessions' = sessions
    BY <1>6 DEF SequenceComplete, Executes, Served
  <2>2. q \in Loadings /\ q.handle = var[d]["sequence"] /\ "sequence" \in Variable
    BY DEF Loaded, ObjectsAt, Loadings, Variable, ObjectVariable
  <2>3. q.owner = d
    BY <2>1, <2>2, HeldOwn
  <2> QED BY <2>1, <2>3 DEF Spares
<1>7. ASSUME NEW v \in SessionVariable, StartAuthSession(d, v) PROVE Spares(d)
  <2>1. objects' = objects /\ sessions \subseteq sessions'
    BY <1>7 DEF StartAuthSession
  <2> QED BY <1>2, <2>1
<1>8. CASE (\E v \in SessionVariable : PolicyPCR(d, v) \/ PolicyAuthValue(d, v)) \/ EncryptDecrypt2(d)
  <2>1. objects' = objects
    BY <1>8 DEF PolicyPCR, PolicyAuthValue, EncryptDecrypt2
  <2> PICK f : /\ \A s \in sessions : f[s].handle = s.handle /\ f[s].owner = s.owner
               /\ sessions' = {f[s] : s \in sessions}
    BY <1>1, <1>8, SessionsInPlace
  <2> QED BY <2>1 DEF Spares
<1>9. CASE CreatePrimary(d) \/ (\E v \in {"aes", "hmac"} : Load(d, v)) \/ HmacStart(d)
  <2>1. \E v, kind, key : LoadObject(d, v, kind, key)
    BY <1>9 DEF CreatePrimary, Load, HmacStart
  <2>2. objects \subseteq objects'
    BY <2>1 DEF LoadObject
  <2>3. CASE CreatePrimary(d) \/ (\E v \in {"aes", "hmac"} : Load(d, v))
    BY <1>2, <2>2, <2>3 DEF CreatePrimary, Load
  <2>4. CASE HmacStart(d)
    <3> PICK f : /\ \A s \in sessions : f[s].handle = s.handle /\ f[s].owner = s.owner
                 /\ sessions' = {f[s] : s \in sessions}
      BY <1>1, <2>4, SessionsInPlace
    <3> QED BY <2>2 DEF Spares
  <2> QED BY <1>9, <2>3, <2>4
<1>10. CASE CommandRefused(d) \/ CommandLost(d) \/ CommandFault(d)
  BY <1>2, <1>10 DEF CommandRefused, CommandLost, CommandFault, Fail, tpmVars
<1>11. CASE FlushContext(d)
  <2> PICK v \in Variable : IF Connected(d) THEN Served(d) /\ Flush(var[d][v]) ELSE UNCHANGED <<objects, sessions>>
    BY <1>11 DEF FlushContext
  <2>1. CASE Connected(d)
    <3>1. d \in served /\ Flush(var[d][v])
      BY <2>1 DEF Served
    <3> QED BY <3>1, HeldOwn, FlushSpares
  <2> QED BY <1>2, <2>1
<1>12. CASE DeferredFlush(d)
  <2>1. CASE Connected(d)
    <3>1. d \in served /\ Flush(Head(defers[d]))
      BY <1>12, <2>1 DEF DeferredFlush, Served
    <3>2. Deferred(d, Head(defers[d]))
      BY <1>12, Unwound DEF DeferredFlush
    <3> QED BY <3>1, <3>2, HeldOwn, FlushSpares
  <2>2. CASE ~Connected(d)
    BY <1>2, <1>12, <2>2 DEF DeferredFlush
  <2> QED BY <2>1, <2>2
<1>13. CASE DeferredClose(d)
  BY <1>13, RemainingSpares DEF DeferredClose, Spares, Loadings
<1>14. CASE Returns(d)
  <2> PICK op, status : Ends(d, op, status)
    BY <1>14 DEF Returns, ReturnError, ReturnKeys, ReturnAEAD, ReturnSealed, ReturnOpened
  <2> QED BY <1>2 DEF Ends, tpmVars
<1>15. CASE Accept(d)
  BY <1>2, <1>15 DEF Accept, AcceptConnection
<1>16. CASE ConnectionLost(d)
  BY <1>16, OrphanSpares DEF ConnectionLost
<1>17. CASE Crash(d)
  <2>1. objects' = Remaining(d, Orphan(d, objects)) /\ sessions' = Remaining(d, Orphan(d, sessions))
    BY <1>17 DEF Crash
  <2>2. \A o \in objects : o.owner # d => o \in Orphan(d, objects)
    BY DEF Orphan
  <2>3. \A s \in sessions : s.owner # d => s \in Orphan(d, sessions)
    BY DEF Orphan
  <2> QED BY <2>1, <2>2, <2>3, RemainingSpares DEF Spares, Loadings
<1> QED BY <1>3, <1>4, <1>5, <1>6, <1>7, <1>8, <1>9, <1>10, <1>11, <1>12, <1>13, <1>14, <1>15, <1>16, <1>17
       DEF StepOf, Advance, SessionCommand, KeyCommand

\* The number of events only grows, ...
LEMMA EventsGrow ==
  ASSUME TypeOK, [Next]_vars
  PROVE  events' = events \/ events' = events + 1
<1>1. ASSUME NEW d \in Client, StepOf(d) PROVE events' = events \/ events' = events + 1
  <2>1. CASE Calls(d)
    <3> PICK a, program : Start(d, a, program)
      BY <2>1, CallStarts
    <3> QED BY DEF Start
  <2>2. CASE LocalStep(d)
    <3>1. ASSUME NEW cmd, NEW ok, NEW why, Check(d, cmd, ok, why) PROVE events' = events
      BY <3>1 DEF Check
    <3>2. CASE CheckLengths(d) \/ CheckTag(d)
      BY <3>1, <3>2 DEF CheckLengths, CheckTag
    <3>3. CASE CheckKeys(d)
      BY <3>1, <3>3, Zenon DEF CheckKeys
    <3> QED BY <2>2, <3>2, <3>3 DEF LocalStep, Dial, Defer
  <2>3. CASE SessionCommand(d)
    BY <2>3 DEF SessionCommand, PolicyGetDigest, StartAuthSession, PolicyPCR, PolicyAuthValue, Executes
  <2>4. CASE KeyCommand(d)
    BY <2>4 DEF KeyCommand, CreatePrimary, Create, Load, EncryptDecrypt2, ReadPublic, HmacStart,
       SequenceUpdate, SequenceComplete, Executes
  <2>5. CASE FlushContext(d) \/ DeferredFlush(d) \/ DeferredClose(d) \/ Accept(d)
    BY <2>5 DEF FlushContext, DeferredFlush, DeferredClose, Accept
  <2>6. CASE CommandRefused(d) \/ CommandLost(d)
    BY <2>6 DEF CommandRefused, CommandLost
  <2>7. CASE Returns(d)
    <3> PICK op, status : Ends(d, op, status)
      BY <2>7 DEF Returns, ReturnError, ReturnKeys, ReturnAEAD, ReturnSealed, ReturnOpened
    <3> QED BY DEF Ends
  <2>8. CASE CommandFault(d) \/ ConnectionLost(d) \/ Crash(d)
    BY <2>8 DEF CommandFault, ConnectionLost, Crash, Happens
  <2> QED BY <1>1, <2>1, <2>2, <2>3, <2>4, <2>5, <2>6, <2>7, <2>8 DEF StepOf, Advance
<1>2. CASE Restart \/ ExtendPCR \/ ChangeOwnerAuth \/ Clear
  BY <1>2 DEF Restart, ExtendPCR, ChangeOwnerAuth, Clear, Happens
<1> QED BY <1>1, <1>2 DEF Next, Environment, StepOf, vars

\* ... and a call keeps the number it began at.
LEMMA OwnSince ==
  ASSUME TypeOK, NEW c \in Client, StepOf(c)
  PROVE  \/ outcome'[c].since = outcome[c].since
         \/ outcome'[c].since = events /\ events' = events /\ outcome'[c].why = "none"
<1> DEFINE Same == outcome'[c].since = outcome[c].since
<1>1. outcome' = outcome => Same
  OBVIOUS
<1>2. ASSUME NEW why, Fail(c, why) PROVE Same
  <2> DEFINE o == [outcome[c] EXCEPT !.why = why, !.at = NextStep(c)[1]]
  <2>1. outcome' = [outcome EXCEPT ![c] = o]
    BY <1>2 DEF Fail
  <2>2. o.since = outcome[c].since
    BY DEF TypeOK, OutcomeType
  <2> HIDE DEF o
  <2> QED BY <2>1, <2>2 DEF TypeOK
<1>3. CASE Calls(c)
  <2> PICK a, program : Start(c, a, program)
    BY <1>3, CallStarts
  <2> QED BY DEF Start, TypeOK
<1>4. CASE LocalStep(c)
  <2>1. ASSUME NEW cmd, NEW ok, NEW why, Check(c, cmd, ok, why) PROVE Same
    BY <1>1, <1>2, <2>1 DEF Check
  <2>2. CASE CheckLengths(c) \/ CheckTag(c)
    BY <2>1, <2>2 DEF CheckLengths, CheckTag
  <2>3. CASE CheckKeys(c)
    BY <2>1, <2>3, Zenon DEF CheckKeys
  <2> QED BY <1>1, <1>4, <2>2, <2>3 DEF LocalStep, Dial, Defer
<1>5. CASE SessionCommand(c)
  BY <1>5 DEF SessionCommand, PolicyGetDigest, StartAuthSession, PolicyPCR, PolicyAuthValue, Executes
<1>6. CASE KeyCommand(c)
  BY <1>6 DEF KeyCommand, CreatePrimary, Create, Load, EncryptDecrypt2, ReadPublic, HmacStart,
     SequenceUpdate, SequenceComplete, Executes
<1>7. CASE FlushContext(c) \/ DeferredFlush(c) \/ DeferredClose(c) \/ Accept(c) \/ ConnectionLost(c)
  BY <1>7, CutOutcome DEF FlushContext, DeferredFlush, DeferredClose, Accept, ConnectionLost, callVars
<1>8. CASE CommandRefused(c) \/ CommandLost(c) \/ CommandFault(c)
  BY <1>2, <1>8, Zenon DEF CommandRefused, CommandLost, CommandFault
<1>9. CASE Returns(c)
  <2> PICK op, status : Ends(c, op, status)
    BY <1>9 DEF Returns, ReturnError, ReturnKeys, ReturnAEAD, ReturnSealed, ReturnOpened
  <2> QED BY DEF Ends, TypeOK, OutcomeType
<1>10. CASE Crash(c)
  <2> DEFINE o == [outcome[c] EXCEPT !.status = "failed", !.why = "crash", !.at = "none",
                             !.cut = TRUE]
  <2>1. outcome' = [outcome EXCEPT ![c] = o]
    BY <1>10 DEF Crash
  <2>2. o.since = outcome[c].since
    BY DEF TypeOK, OutcomeType
  <2> HIDE DEF o
  <2> QED BY <2>1, <2>2 DEF TypeOK
<1> QED BY <1>3, <1>4, <1>5, <1>6, <1>7, <1>8, <1>9, <1>10 DEF StepOf, Advance

\* So a call for which nothing has happened after a step had it no different
\* before, if it was going on.
LEMMA CalmBefore ==
  ASSUME TypeOK, [Next]_vars, NEW c \in Client, SinceOK(c), outcome'[c].since = outcome[c].since
  PROVE  /\ Calm(c)' => Calm(c) /\ events' = events
         /\ Kept(c)' => Kept(c)
<1>1. outcome[c].since \in Nat /\ events \in Nat
  BY DEF TypeOK, OutcomeType
<1>2. events' = events \/ events' = events + 1
  BY EventsGrow
<1> QED BY <1>1, <1>2 DEF Calm, SinceOK, Kept, NoClear

\* No call began after the events that there were.
LEMMA NextSince ==
  ASSUME TypeOK, [Next]_vars, NEW c \in Client, SinceOK(c)
  PROVE  SinceOK(c)'
<1>1. outcome[c].since \in Nat /\ events \in Nat
  BY DEF TypeOK, OutcomeType
<1>2. events' = events \/ events' = events + 1
  BY EventsGrow
<1>3. outcome'[c].since = outcome[c].since \/ (outcome'[c].since = events /\ events' = events)
  <2>1. CASE StepOf(c)
    BY <2>1, OwnSince
  <2>2. ASSUME NEW d \in Client \ {c}, StepOf(d) PROVE outcome'[c] = outcome[c]
    BY <2>2, OthersApart
  <2>3. CASE Restart \/ ExtendPCR \/ ChangeOwnerAuth \/ Clear \/ UNCHANGED vars
    BY <2>3 DEF Restart, ExtendPCR, ChangeOwnerAuth, Clear, vars, callVars
  <2> QED BY <2>1, <2>2, <2>3 DEF Next, Environment, StepOf
<1> QED BY <1>1, <1>2, <1>3 DEF SinceOK

\* The parts of the invariant that are about one client.
LoadsOK(c) == LeakOK(c) /\ SlotsOK(c) /\ PresentOK(c)

\* What nobody has loaded is in no variable of a call that waits to be served.
LEMMA NothingInUse ==
  ASSUME HandleInv, NEW c \in Client, c \notin served, PresentOK(c), GoesOn(c), Kept(c)
  PROVE  \A v \in Variable : ~InUse(c, v)
<1>1. var[c] = NoHandles
  BY DEF HandleInv, HandlesOK, GoesOn
<1>2. \A x \in Loadings : x.handle # NoHandle
  BY LoadingHandle DEF HandleInv, IInv
<1>3. \A v \in Variable : var[c][v] = NoHandle
  BY <1>1 DEF NoHandles
<1>4. /\ \A v \in ObjectVariable : Loaded(c, v, KindAt(v)) = {}
      /\ \A v \in SessionVariable : OpenSession(c, v) = {}
  BY <1>2, <1>3 DEF Loaded, OpenSession, ObjectsAt, SessionsAt, Loadings, Variable
<1> QED BY <1>4 DEF PresentOK, Variable

\* A client's loads are not affected when what it has loaded is left alone.
LEMMA LoadsLeft ==
  ASSUME HandleInv, NEW c \in Client, LoadsOK(c),
         call'[c] = call[c], todo'[c] = todo[c], defers'[c] = defers[c], var'[c] = var[c],
         outcome'[c] = outcome[c], Kept(c)' => Kept(c), c \in conns' <=> c \in conns,
         \A y \in Loadings' : y.owner = c => \E x \in Loadings : x.owner = c /\ y.handle = x.handle,
         c \in served /\ Kept(c)' =>
           /\ \A o \in objects : o.owner = c => o \in objects'
           /\ \A s \in sessions : s.owner = c => \E t \in sessions' : t.handle = s.handle
  PROVE  LoadsOK(c)'
<1>1. /\ GoesOn(c)' <=> GoesOn(c)
      /\ \A v : InUse(c, v)' <=> InUse(c, v)
      /\ \A x : Deferred(c, x)' <=> Deferred(c, x)
  BY DEF GoesOn, Connected, InUse, Taken, Ahead, LoadingStep, Deferred
<1>2. LeakOK(c)'
  <2>1. \A y \in Unreleased(c)' : \E x \in Unreleased(c) : y.handle = x.handle
    BY <1>1 DEF Unreleased
  <2>2. \A h : /\ InGetSession(c, h)' <=> InGetSession(c, h)
               /\ InHmac(c, h)' <=> InHmac(c, h)
    BY DEF InGetSession, InHmac, NextStep
  <2> QED BY <2>1, <2>2 DEF LeakOK, LoadsOK
<1>3. SlotsOK(c)'
  BY <1>1 DEF SlotsOK, LoadsOK
<1>4. PresentOK(c)'
  <2> SUFFICES ASSUME GoesOn(c), Kept(c), Kept(c)'
               PROVE  /\ \A v \in ObjectVariable : InUse(c, v) => Loaded(c, v, KindAt(v))' # {}
                      /\ \A v \in SessionVariable : InUse(c, v) => OpenSession(c, v)' # {}
                      /\ \A v, w \in Variable : InUse(c, v) /\ InUse(c, w) /\ v # w => var[c][v] # var[c][w]
    BY <1>1 DEF PresentOK, KindAt
  <2>1. CASE c \notin served
    BY <2>1, NothingInUse DEF LoadsOK, Variable
  <2>2. CASE c \in served
    <3>1. ASSUME NEW v \in ObjectVariable, InUse(c, v) PROVE Loaded(c, v, KindAt(v))' # {}
      <4> PICK o \in Loaded(c, v, KindAt(v)) : TRUE
        BY <3>1 DEF PresentOK, LoadsOK
      <4>1. o \in objects /\ o.handle = var[c][v] /\ o.kind = KindAt(v)
        BY DEF Loaded, ObjectsAt
      <4>2. o.owner = c
        BY <2>2, <4>1, HeldOwn DEF Loadings, Variable
      <4> QED BY <2>2, <4>1, <4>2 DEF Loaded, ObjectsAt, KindAt
    <3>2. ASSUME NEW v \in SessionVariable, InUse(c, v) PROVE OpenSession(c, v)' # {}
      <4> PICK s \in OpenSession(c, v) : TRUE
        BY <3>2 DEF PresentOK, LoadsOK
      <4>1. s \in sessions /\ s.handle = var[c][v]
        BY DEF OpenSession, SessionsAt
      <4>2. s.owner = c
        BY <2>2, <4>1, HeldOwn DEF Loadings, Variable
      <4> QED BY <2>2, <4>1, <4>2 DEF OpenSession, SessionsAt
    <3> QED BY <3>1, <3>2 DEF PresentOK, LoadsOK
  <2> QED BY <2>1, <2>2
<1> QED BY <1>2, <1>3, <1>4 DEF LoadsOK

\* Every step has an effect on its client's own handles only.
LEMMA StepEffect ==
  ASSUME HandleInv, NEW d \in Client, StepOf(d)
  PROVE  \A y \in Loadings' :
           \/ \E x \in Loadings :
                /\ y.handle = x.handle
                /\ y.owner = x.owner \/ (y.owner = NoClient /\ (Calls(d) \/ ConnectionLost(d) \/ Crash(d)))
           \/ y.owner = d /\ d \in served
<1> DEFINE E == \A y \in Loadings' :
                  \/ \E x \in Loadings :
                       /\ y.handle = x.handle
                       /\ y.owner = x.owner \/ (y.owner = NoClient /\ (Calls(d) \/ ConnectionLost(d) \/ Crash(d)))
                  \/ y.owner = d /\ d \in served
<1>1. TypeOK /\ UniqueHandles
  BY DEF HandleInv, IInv
<1>2. SamePlaces => E
  BY DEF SamePlaces
<1>3. objects' \subseteq objects /\ sessions' \subseteq sessions => E
  BY DEF Loadings
<1>4. /\ objects' \subseteq Orphan(d, objects) /\ sessions' \subseteq Orphan(d, sessions)
      /\ Calls(d) \/ ConnectionLost(d) \/ Crash(d)
      => E
  BY <1>1, OrphansInPlace DEF Effect
<1>5. CASE Calls(d)
  <2> PICK a, program : Start(d, a, program)
    BY <1>1, <1>5, CallStarts
  <2> QED BY <1>4, <1>5 DEF Start
<1>6. CASE LocalStep(d)
  <2>1. UNCHANGED <<objects, sessions>>
    BY <1>6, StillLoaded
  <2> QED BY <1>3, <2>1
<1>7. CASE PolicyGetDigest(d) \/ ReadPublic(d) \/ SequenceUpdate(d) \/ (\E v \in {"aes", "hmac"} : Create(d, v))
           \/ SequenceComplete(d)
  BY <1>3, <1>7 DEF PolicyGetDigest, ReadPublic, SequenceUpdate, Create, SequenceComplete
<1>8. ASSUME NEW v \in SessionVariable, StartAuthSession(d, v) PROVE E
  BY <1>8 DEF StartAuthSession, Executes, Served, NewSession, Loadings
<1>9. CASE (\E v \in SessionVariable : PolicyPCR(d, v) \/ PolicyAuthValue(d, v)) \/ EncryptDecrypt2(d)
  <2>1. objects' = objects
    BY <1>9 DEF PolicyPCR, PolicyAuthValue, EncryptDecrypt2
  <2> QED BY <1>1, <1>2, <1>9, <2>1, SessionsInPlace, InPlace
<1>10. CASE CreatePrimary(d) \/ (\E v \in {"aes", "hmac"} : Load(d, v)) \/ HmacStart(d)
  <2>1. \E v, kind, key : LoadObject(d, v, kind, key)
    BY <1>10 DEF CreatePrimary, Load, HmacStart
  <2>2. d \in served /\ \A y \in objects' : y \in objects \/ y.owner = d
    <3>1. d \in served
      BY <1>10 DEF CreatePrimary, Load, HmacStart, Executes, Served
    <3> QED BY <2>1, <3>1 DEF LoadObject, NewObject
  <2>3. \A y \in sessions' : \E x \in sessions : y.handle = x.handle /\ y.owner = x.owner
    <3>1. CASE CreatePrimary(d) \/ (\E v \in {"aes", "hmac"} : Load(d, v))
      BY <3>1 DEF CreatePrimary, Load
    <3>2. CASE HmacStart(d)
      BY <1>1, <3>2, SessionsInPlace
    <3> QED BY <1>10, <3>1, <3>2
  <2> QED BY <2>2, <2>3 DEF Loadings
<1>11. CASE CommandRefused(d) \/ CommandLost(d) \/ CommandFault(d)
  BY <1>3, <1>11 DEF CommandRefused, CommandLost, CommandFault, Fail, tpmVars
<1>12. CASE FlushContext(d) \/ DeferredFlush(d) \/ DeferredClose(d)
  BY <1>3, <1>12 DEF FlushContext, DeferredFlush, DeferredClose, Flush, Remaining
<1>13. CASE Returns(d)
  <2> PICK op, status : Ends(d, op, status)
    BY <1>13 DEF Returns, ReturnError, ReturnKeys, ReturnAEAD, ReturnSealed, ReturnOpened
  <2> QED BY <1>3 DEF Ends, tpmVars
<1>14. CASE Accept(d)
  BY <1>3, <1>14 DEF Accept, AcceptConnection
<1>15. CASE ConnectionLost(d)
  BY <1>4, <1>15 DEF ConnectionLost
<1>16. CASE Crash(d)
  BY <1>4, <1>16, RemainingOrphans DEF Crash
<1> QED BY <1>5, <1>6, <1>7, <1>8, <1>9, <1>10, <1>11, <1>12, <1>13, <1>14, <1>15, <1>16
       DEF StepOf, Advance, SessionCommand, KeyCommand

\* So a step of d leaves what other calls have loaded in order.
LEMMA OthersLoads ==
  ASSUME HandleInv, NEW d \in Client, NEW c \in Client \ {d}, StepOf(d), LoadsOK(c), SinceOK(c)
  PROVE  LoadsOK(c)'
<1>1. TypeOK
  BY DEF HandleInv, IInv
<1>2. /\ call'[c] = call[c] /\ todo'[c] = todo[c] /\ defers'[c] = defers[c] /\ var'[c] = var[c]
      /\ outcome'[c] = outcome[c]
      /\ c \in conns' <=> c \in conns
  BY <1>1, OthersApart, OthersConnections
<1>3. \A y \in Loadings' : y.owner = c => \E x \in Loadings : x.owner = c /\ y.handle = x.handle
  BY StepEffect, ClientAssumption
<1>4. /\ \A o \in objects : o.owner = c => o \in objects'
      /\ \A s \in sessions : s.owner = c => \E t \in sessions' : t.handle = s.handle
  BY StepSpares DEF Spares
<1>5. Kept(c)' => Kept(c)
  <2>1. [Next]_vars
    BY DEF Next, Environment, StepOf
  <2> QED BY <1>1, <1>2, <2>1, CalmBefore
<1> QED BY <1>2, <1>3, <1>4, <1>5, LoadsLeft

-----------------------------------------------------------------------------
(* Which step comes next. *)

\* If a later step of the program is ahead, the next one is at most that far.
LEMMA NextPlace ==
  ASSUME HandleInv, NEW c \in Client, NEW cmd, NEW v, AtStep(c, cmd, v), Proceed(c),
         call' = call, outcome' = outcome,
         NEW m \in StepsOf(call[c]), PlaceOf(call[c].op, <<cmd, v>>) < PlaceOf(call[c].op, m)
  PROVE  /\ todo'[c] # <<>>
         /\ NextStep(c)' \in StepsOf(call[c]) \union {Optional}
         /\ NextStep(c)'[1] \in CommandsOf(call[c].op)
         /\ PlaceOf(call[c].op, NextStep(c)') \in Nat
         /\ PlaceOf(call[c].op, NextStep(c)') <= PlaceOf(call[c].op, m)
         /\ \/ PlaceOf(call[c].op, <<cmd, v>>) < PlaceOf(call[c].op, NextStep(c)')
            \/ NextStep(c)' = <<cmd, v>> /\ <<cmd, v>> \in Repeated
<1> DEFINE s == todo[c]
           P(x) == PlaceOf(call[c].op, x)
<1>1. /\ s \in Seq(Step) /\ s # <<>> /\ todo'[c] = Tail(s)
      /\ Head(s) = <<cmd, v>> /\ EndOf(call[c], s)
  <2>1. s \in Seq(Step) /\ s # <<>> /\ todo'[c] = Tail(s)
    BY Proceeds
  <2> QED BY <2>1 DEF AtStep, NextStep, HandleInv, OrderOK
<1>2. P(m) \in Nat /\ P(<<cmd, v>>) \in Nat
  BY Position
<1> PICK j \in 1..Len(s) : s[j] = m
  BY <1>1, <1>2 DEF EndOf
<1>3. 1 \in 1..Len(s) /\ s[1] = <<cmd, v>> /\ Len(s) \in Nat
  BY <1>1
<1>4. j # 1
  <2> HIDE DEF P
  <2> QED BY <1>2, <1>3 DEF P
<1>5. /\ 2 \in 1..Len(s) /\ 1 < 2 /\ (j = 2 \/ 2 < j)
      /\ todo'[c] # <<>> /\ Head(todo'[c]) = s[2]
  <2> HIDE DEF s
  <2>1. 2 \in 1..Len(s) /\ 1 < 2 /\ (j = 2 \/ 2 < j)
    BY <1>3, <1>4
  <2>2. Len(Tail(s)) = Len(s) - 1 /\ Tail(s) \in Seq(Step)
    BY <1>1
  <2>3. 1 \in 1..Len(Tail(s)) /\ Tail(s) # <<>>
    <3>1. Len(s) >= 2
      BY <1>3, <2>1
    <3> DEFINE t == Tail(s)
    <3>2. Len(t) \in Nat /\ Len(t) = Len(s) - 1
      BY <1>1
    <3> HIDE DEF t
    <3>3. Len(t) >= 1
      BY <1>3, <3>1, <3>2
    <3>4. 1 \in 1..Len(t) /\ t # <<>>
      BY <3>2, <3>3
    <3> QED BY <3>4 DEF t
  <2>4. Head(Tail(s)) = s[2]
    BY <1>1, <2>1, <2>3
  <2> QED BY <1>1, <2>1, <2>3, <2>4
<1> DEFINE n == s[2]
<1>6. n = NextStep(c)'
  BY <1>5 DEF NextStep
<1>7. /\ n \in StepsOf(call[c]) \union {Optional} /\ P(n) \in Nat
      /\ n[1] \in CommandsOf(call[c].op)
  BY <1>1, <1>5 DEF EndOf, HandleInv, IInv, ProgramOK
<1>8. P(s[1]) < P(n) \/ (s[1] = n /\ s[1] \in Repeated)
  BY <1>1, <1>3, <1>5 DEF EndOf
<1>9. n = m \/ P(n) < P(m)
  BY <1>1, <1>5 DEF EndOf
<1>10. P(n) <= P(m)
  <2> HIDE DEF P, n
  <2> QED BY <1>2, <1>7, <1>9
<1> QED BY <1>3, <1>5, <1>6, <1>7, <1>8, <1>10

\* The steps at the places of a session, and of the sequence, in NewKey, ...
LEMMA NewKeyBetween ==
  ASSUME NEW kind, NEW m \in NewKeySteps(kind) \union {Optional}, NEW p, p = PlaceOf("NewKey", m)
  PROVE  2 < p /\ p <= 5 => m \in {<<"PolicyPCR", "trial">>, <<"PolicyAuthValue", "trial">>, <<"Defer", "trial">>}
                           \/ m = Optional
<1>1. CASE m \in SessionSteps(kind, "trial")
  BY <1>1, NewKeyPlaces DEF SessionSteps, SessionAt
<1>2. CASE m \notin SessionSteps(kind, "trial")
  BY <1>2, NewKeyPlaces DEF NewKeySteps
<1> QED BY <1>1, <1>2

\* ... in Seal ...
LEMMA SealBetween ==
  ASSUME NEW kind, NEW len, NEW m \in SealSteps(kind, len) \union {Optional}, NEW p, p = PlaceOf("Seal", m)
  PROVE  /\ 5 < p /\ p <= 8 =>
              m \in {<<"PolicyPCR", "aesSession">>, <<"PolicyAuthValue", "aesSession">>, <<"Defer", "aesSession">>}
         /\ 13 < p /\ p <= 16 =>
              m \in {<<"PolicyPCR", "hmacSession">>, <<"PolicyAuthValue", "hmacSession">>, <<"Defer", "hmacSession">>}
         /\ 18 < p /\ p <= 20 => m \in {<<"SequenceUpdate", "sequence">>, <<"SequenceComplete", "sequence">>}
<1> DEFINE A == SessionSteps(kind, "aesSession")
           H == SessionSteps(kind, "hmacSession")
<1>1. CASE m \in A
  BY <1>1, SealPlaces DEF SessionSteps, SessionAt
<1>2. CASE m \in H
  BY <1>2, SealPlaces DEF SessionSteps, SessionAt
<1>3. CASE m \notin A \union H
  <2>1. m \in {<<"CheckLengths", "none">>, <<"Dial", "none">>, <<"CreatePrimary", "primary">>,
               <<"Load", "aes">>, <<"Load", "hmac">>, <<"ReadPublic", "hmac">>, <<"HmacStart", "hmac">>,
               <<"SequenceComplete", "sequence">>, <<"EncryptDecrypt2", "aes">>, <<"FlushContext", "aes">>,
               <<"FlushContext", "aesSession">>, <<"Defer", "hmac">>, <<"SequenceUpdate", "sequence">>}
    BY <1>3 DEF SealSteps, CryptSteps, Optional
  <2> QED BY <2>1, SealPlaces
<1> QED BY <1>1, <1>2, <1>3

\* ... and in Open.
LEMMA OpenBetween ==
  ASSUME NEW kind, NEW len, NEW m \in OpenSteps(kind, len) \union {Optional}, NEW p, p = PlaceOf("Open", m)
  PROVE  /\ 5 < p /\ p <= 8 =>
              m \in {<<"PolicyPCR", "hmacSession">>, <<"PolicyAuthValue", "hmacSession">>, <<"Defer", "hmacSession">>}
         /\ 17 < p /\ p <= 20 =>
              m \in {<<"PolicyPCR", "aesSession">>, <<"PolicyAuthValue", "aesSession">>, <<"Defer", "aesSession">>}
         /\ 10 < p /\ p <= 12 => m \in {<<"SequenceUpdate", "sequence">>, <<"SequenceComplete", "sequence">>}
<1> DEFINE A == SessionSteps(kind, "aesSession")
           H == SessionSteps(kind, "hmacSession")
<1>1. CASE m \in A
  BY <1>1, OpenPlaces DEF SessionSteps, SessionAt
<1>2. CASE m \in H
  BY <1>2, OpenPlaces DEF SessionSteps, SessionAt
<1>3. CASE m \notin A \union H
  <2>1. m \in {<<"CheckLengths", "none">>, <<"Dial", "none">>, <<"CreatePrimary", "primary">>,
               <<"Load", "aes">>, <<"Load", "hmac">>, <<"ReadPublic", "hmac">>, <<"HmacStart", "hmac">>,
               <<"SequenceComplete", "sequence">>, <<"EncryptDecrypt2", "aes">>, <<"FlushContext", "hmac">>,
               <<"FlushContext", "hmacSession">>, <<"CheckTag", "none">>, <<"SequenceUpdate", "sequence">>}
    BY <1>3 DEF OpenSteps, CryptSteps, Optional
  <2> QED BY <2>1, OpenPlaces
<1> QED BY <1>1, <1>2, <1>3

\* A session that has been started is given its assertions and deferred.
LEMMA SessionNext ==
  ASSUME HandleInv, NEW c \in Client, NEW v \in SessionVariable,
         NEW cmd \in {"StartAuthSession", "PolicyPCR", "PolicyAuthValue"},
         AtStep(c, cmd, v), Proceed(c), call' = call, outcome' = outcome
  PROVE  /\ todo'[c] # <<>>
         /\ NextStep(c)' \in {<<"PolicyPCR", v>>, <<"PolicyAuthValue", v>>, <<"Defer", v>>}
<1> DEFINE a == call[c]
           n == NextStep(c)'
           m == <<cmd, v>>
<1>1. m \in StepsOf(a)
  BY StepOfOp
<1>2. /\ m \notin Repeated
      /\ \A x \in StepsOf(a) : PlaceOf(a.op, m) < PlaceOf(a.op, x) =>
           /\ todo'[c] # <<>> /\ n \in StepsOf(a) \union {Optional} /\ PlaceOf(a.op, n) \in Nat
           /\ PlaceOf(a.op, n) <= PlaceOf(a.op, x) /\ PlaceOf(a.op, m) < PlaceOf(a.op, n)
           /\ n[1] \in CommandsOf(a.op)
  <2>1. m \notin Repeated
    BY DEF Repeated, Optional
  <2>2. ASSUME NEW x \in StepsOf(a), PlaceOf(a.op, m) < PlaceOf(a.op, x)
        PROVE  /\ todo'[c] # <<>> /\ n \in StepsOf(a) \union {Optional} /\ PlaceOf(a.op, n) \in Nat
               /\ PlaceOf(a.op, n) <= PlaceOf(a.op, x) /\ PlaceOf(a.op, m) < PlaceOf(a.op, n)
               /\ n[1] \in CommandsOf(a.op)
    BY <2>1, <2>2, NextPlace
  <2> QED BY <2>1, <2>2
<1>3. m[1] = cmd /\ m[2] = v
  OBVIOUS
<1>4. CASE a.op = "Seal"
  <2>1. StepsOf(a) = SealSteps(a.session.kind, a.pt.len)
    BY <1>4 DEF StepsOf
  <2>2. v \in {"aesSession", "hmacSession"}
    BY <1>1, <1>3, <1>4, WhoseSteps DEF SessionVariable
  <2>3. <<"Defer", "aesSession">> \in StepsOf(a) /\ <<"Defer", "hmacSession">> \in StepsOf(a)
    BY <2>1 DEF SealSteps, CryptSteps, SessionSteps
  <2> HIDE DEF n
  <2>4. CASE v = "aesSession"
    <3>1. PlaceOf("Seal", m) \in {5, 6, 7} /\ PlaceOf("Seal", <<"Defer", v>>) = 8
      BY <2>4, SealPlaces DEF SessionAt
    <3> HIDE DEF m
    <3>2. /\ todo'[c] # <<>> /\ n \in StepsOf(a) \union {Optional} /\ PlaceOf("Seal", n) \in Nat
          /\ 5 < PlaceOf("Seal", n) /\ PlaceOf("Seal", n) <= 8
      BY <1>2, <1>4, <2>3, <2>4, <3>1
    <3> QED BY <2>1, <2>4, <3>2, SealBetween DEF n
  <2>5. CASE v = "hmacSession"
    <3>1. PlaceOf("Seal", m) \in {13, 14, 15} /\ PlaceOf("Seal", <<"Defer", v>>) = 16
      BY <2>5, SealPlaces DEF SessionAt
    <3> HIDE DEF m
    <3>2. /\ todo'[c] # <<>> /\ n \in StepsOf(a) \union {Optional} /\ PlaceOf("Seal", n) \in Nat
          /\ 13 < PlaceOf("Seal", n) /\ PlaceOf("Seal", n) <= 16
      BY <1>2, <1>4, <2>3, <2>5, <3>1
    <3> QED BY <2>1, <2>5, <3>2, SealBetween DEF n
  <2> QED BY <2>2, <2>4, <2>5
<1>5. CASE a.op = "Open"
  <2>1. StepsOf(a) = OpenSteps(a.session.kind, a.ct.pt.len)
    BY <1>5 DEF StepsOf
  <2>2. v \in {"aesSession", "hmacSession"}
    BY <1>1, <1>3, <1>5, WhoseSteps DEF SessionVariable
  <2>3. <<"Defer", "aesSession">> \in StepsOf(a) /\ <<"Defer", "hmacSession">> \in StepsOf(a)
    BY <2>1 DEF OpenSteps, CryptSteps, SessionSteps
  <2> HIDE DEF n
  <2>4. CASE v = "aesSession"
    <3>1. PlaceOf("Open", m) \in {17, 18, 19} /\ PlaceOf("Open", <<"Defer", v>>) = 20
      BY <2>4, OpenPlaces DEF SessionAt
    <3> HIDE DEF m
    <3>2. /\ todo'[c] # <<>> /\ n \in StepsOf(a) \union {Optional} /\ PlaceOf("Open", n) \in Nat
          /\ 17 < PlaceOf("Open", n) /\ PlaceOf("Open", n) <= 20
      BY <1>2, <1>5, <2>3, <2>4, <3>1
    <3> QED BY <2>1, <2>4, <3>2, OpenBetween DEF n
  <2>5. CASE v = "hmacSession"
    <3>1. PlaceOf("Open", m) \in {5, 6, 7} /\ PlaceOf("Open", <<"Defer", v>>) = 8
      BY <2>5, OpenPlaces DEF SessionAt
    <3> HIDE DEF m
    <3>2. /\ todo'[c] # <<>> /\ n \in StepsOf(a) \union {Optional} /\ PlaceOf("Open", n) \in Nat
          /\ 5 < PlaceOf("Open", n) /\ PlaceOf("Open", n) <= 8
      BY <1>2, <1>5, <2>3, <2>5, <3>1
    <3> QED BY <2>1, <2>5, <3>2, OpenBetween DEF n
  <2> QED BY <2>2, <2>4, <2>5
<1>6. CASE a.op = "NewKey"
  <2>1. StepsOf(a) = NewKeySteps(a.session.kind)
    BY <1>6 DEF StepsOf
  <2>2. v = "trial" /\ <<"Defer", "trial">> \in StepsOf(a)
    <3> HIDE DEF m
    <3> QED BY <1>1, <1>3, <2>1 DEF NewKeySteps, SessionSteps
  <2> HIDE DEF n
  <2>3. PlaceOf("NewKey", m) \in {2, 3, 4} /\ PlaceOf("NewKey", <<"Defer", "trial">>) = 5
    BY <2>2, NewKeyPlaces DEF SessionAt
  <2> HIDE DEF m
  <2>4. /\ todo'[c] # <<>> /\ n \in StepsOf(a) \union {Optional} /\ PlaceOf("NewKey", n) \in Nat
        /\ 2 < PlaceOf("NewKey", n) /\ PlaceOf("NewKey", n) <= 5
        /\ n[1] \in CommandsOf("NewKey")
    BY <1>2, <1>6, <2>2, <2>3
  <2>5. n[1] # "SequenceUpdate"
    BY <2>4 DEF CommandsOf, SessionCommands
  <2>6. n # Optional
    BY <2>5 DEF Optional
  <2> QED BY <2>1, <2>2, <2>4, <2>6, NewKeyBetween DEF n
<1>7. CASE a.op \notin {"Seal", "Open", "NewKey"}
  <2>1. cmd \in CommandsOf(call[c].op)
    BY StepOfFunction DEF HandleInv, IInv, ClientOK, AtStep
  <2> QED BY <1>7, <2>1 DEF CommandsOf
<1> QED BY <1>4, <1>5, <1>6, <1>7

\* A sequence that has been started is completed.
LEMMA HmacNext ==
  ASSUME HandleInv, NEW c \in Client, NEW cmd, NEW v,
         <<cmd, v>> \in {<<"HmacStart", "hmac">>, <<"SequenceUpdate", "sequence">>},
         AtStep(c, cmd, v), Proceed(c), call' = call, outcome' = outcome
  PROVE  /\ todo'[c] # <<>>
         /\ NextStep(c)' \in {<<"SequenceUpdate", "sequence">>, <<"SequenceComplete", "sequence">>}
<1> DEFINE a == call[c]
           n == NextStep(c)'
           m == <<cmd, v>>
<1>1. a.op \in {"Seal", "Open"}
  <2>1. cmd \in CommandsOf(call[c].op)
    BY StepOfFunction DEF HandleInv, IInv, ClientOK, AtStep
  <2> QED BY <2>1 DEF CommandsOf, SessionCommands
<1>2. TagStep \in StepsOf(a)
  BY <1>1, HasSteps
<1>3. PlaceOf(a.op, m) < PlaceOf(a.op, TagStep) =>
        /\ todo'[c] # <<>> /\ n \in StepsOf(a) \union {Optional} /\ PlaceOf(a.op, n) \in Nat
        /\ PlaceOf(a.op, n) <= PlaceOf(a.op, TagStep)
        /\ PlaceOf(a.op, m) < PlaceOf(a.op, n) \/ (n = m /\ m \in Repeated)
  BY <1>2, NextPlace
<1>4. <<"HmacStart", "hmac">> \notin Repeated
  BY DEF Repeated, Optional
<1> HIDE DEF n
<1>5. CASE a.op = "Seal"
  <2>1. StepsOf(a) = SealSteps(a.session.kind, a.pt.len)
    BY <1>5 DEF StepsOf
  <2>2. /\ todo'[c] # <<>> /\ n \in StepsOf(a) \union {Optional} /\ PlaceOf("Seal", n) \in Nat
        /\ 18 < PlaceOf("Seal", n) /\ PlaceOf("Seal", n) <= 20
    BY <1>3, <1>4, <1>5, SealPlaces DEF TagStep
  <2> QED BY <2>1, <2>2, SealBetween DEF n
<1>6. CASE a.op = "Open"
  <2>1. StepsOf(a) = OpenSteps(a.session.kind, a.ct.pt.len)
    BY <1>6 DEF StepsOf
  <2>2. /\ todo'[c] # <<>> /\ n \in StepsOf(a) \union {Optional} /\ PlaceOf("Open", n) \in Nat
        /\ 10 < PlaceOf("Open", n) /\ PlaceOf("Open", n) <= 12
    BY <1>3, <1>4, <1>6, OpenPlaces DEF TagStep
  <2> QED BY <2>1, <2>2, OpenBetween DEF n
<1> QED BY <1>1, <1>5, <1>6

-----------------------------------------------------------------------------
(* What steps of a client do to what it has loaded. *)

\* The device's own steps remove what a call needs only if TPM2_Clear may.
LEMMA DeviceLoads ==
  ASSUME HandleInv, NEW c \in Client, LoadsOK(c), SinceOK(c), Restart \/ ExtendPCR \/ ChangeOwnerAuth \/ Clear
  PROVE  LoadsOK(c)'
<1>1. CASE Restart
  <2>1. ~GoesOn(c)' /\ Loadings' = {}
    BY <1>1 DEF Restart, GoesOn, Connected, Loadings
  <2> QED BY <2>1 DEF LoadsOK, LeakOK, SlotsOK, PresentOK, Unreleased
<1>2. CASE ExtendPCR \/ ChangeOwnerAuth \/ Clear
  <2>1. UNCHANGED <<call, todo, defers, var, outcome, conns, sessions>> /\ objects' \subseteq objects
    BY <1>2 DEF ExtendPCR, ChangeOwnerAuth, Clear, callVars
  <2>4. (Calm(c)' => Calm(c) /\ events' = events) /\ (Kept(c)' => Kept(c))
    <3>1. TypeOK /\ [Next]_vars
      BY <1>2 DEF HandleInv, IInv, Next, Environment
    <3> QED BY <2>1, <3>1, CalmBefore
  <2>2. c \in served /\ Kept(c)' => objects' = objects
    <3>1. CASE Clear
      <4>1. events \in Nat /\ events' = events + 1
        BY <3>1 DEF Clear, Happens, HandleInv, IInv, TypeOK
      <4>2. ~Calm(c)'
        BY <2>4, <4>1
      <4>3. Kept(c)' => NoClear
        BY <4>2 DEF Kept, NoClear
      <4> QED BY <3>1, <4>3 DEF Clear, Happens, OthersTurn, NoClear
    <3>2. CASE ExtendPCR \/ ChangeOwnerAuth
      BY <3>2 DEF ExtendPCR, ChangeOwnerAuth
    <3> QED BY <1>2, <3>1, <3>2
  <2>3. \A y \in Loadings' : y \in Loadings
    BY <2>1 DEF Loadings
  <2> QED BY <2>1, <2>2, <2>3, <2>4, LoadsLeft
<1> QED BY <1>1, <1>2

\* What a call has loaded is in a variable in use after a step if the step puts
\* what it loads in one, and removes all at the handle it flushes or uses up.
LEMMA OwnSlots ==
  ASSUME HandleInv, NEW c \in Client, SlotsOK(c), NEW cmd, NEW v, AtStep(c, cmd, v), Proceed(c),
         call' = call, outcome' = outcome, conns' = conns,
         \A u \in Variable : LoadingStep(u) # <<cmd, v>> => var'[c][u] = var[c][u],
         \A y \in Loadings' : y.owner = c =>
           \/ \E u \in Variable : LoadingStep(u) = <<cmd, v>> /\ y.handle = var'[c][u]
           \/ \E x \in Loadings :
                /\ x.owner = c /\ x.handle = y.handle
                /\ cmd = "FlushContext" => x.handle # var[c][v]
                /\ <<cmd, v>> = TagStep => x.handle # var[c]["sequence"]
  PROVE  SlotsOK(c)'
<1> SUFFICES ASSUME GoesOn(c)', NEW y \in Loadings', y.owner = c
             PROVE  \E u \in Variable : y.handle = var'[c][u] /\ InUse(c, u)'
  BY DEF SlotsOK
<1>1. GoesOn(c)
  BY DEF GoesOn, Connected, AtStep
<1>2. CASE \E u \in Variable : LoadingStep(u) = <<cmd, v>> /\ y.handle = var'[c][u]
  BY <1>2, LoadInUse
<1>3. ASSUME NEW x \in Loadings, x.owner = c, x.handle = y.handle,
             cmd = "FlushContext" => x.handle # var[c][v],
             <<cmd, v>> = TagStep => x.handle # var[c]["sequence"]
      PROVE  \E u \in Variable : y.handle = var'[c][u] /\ InUse(c, u)'
  <2> PICK u \in Variable : x.handle = var[c][u] /\ InUse(c, u)
    BY <1>1, <1>3 DEF SlotsOK
  <2>1. LoadingStep(u) # <<cmd, v>>
    BY UseAfter
  <2>2. InUse(c, u)'
    <3>1. InUse(c, u) /\ ~InUse(c, u)' =>
            <<cmd, v>> = <<"FlushContext", u>> \/ (u = "sequence" /\ <<cmd, v>> = TagStep)
      BY UseAfter
    <3> QED BY <1>3, <3>1
  <2> QED BY <1>3, <2>1, <2>2
<1> QED BY <1>2, <1>3

\* What is in use after a step is there if the step loads what comes into use,
\* where nothing was, and removes only what goes out of use.
LEMMA OwnPresent ==
  ASSUME HandleInv, NEW c \in Client, PresentOK(c), NEW cmd, NEW v, AtStep(c, cmd, v), Proceed(c),
         call' = call, outcome' = outcome, conns' = conns, events' = events,
         \A u \in Variable : LoadingStep(u) # <<cmd, v>> => var'[c][u] = var[c][u],
         \A u \in Variable : LoadingStep(u) = <<cmd, v>> =>
           /\ \A x \in Loadings : x.handle # var'[c][u]
           /\ u \in ObjectVariable => Loaded(c, u, KindAt(u))' # {}
           /\ u \in SessionVariable => OpenSession(c, u)' # {},
         \A o \in objects :
           o \in objects' \/ \E u \in Variable : o.handle = var[c][u] /\ InUse(c, u) /\ ~InUse(c, u)',
         \A s \in sessions :
           \/ \E t \in sessions' : t.handle = s.handle
           \/ \E u \in Variable : s.handle = var[c][u] /\ InUse(c, u) /\ ~InUse(c, u)'
  PROVE  PresentOK(c)'
<1> SUFFICES ASSUME GoesOn(c)', Kept(c)
             PROVE  /\ \A u \in ObjectVariable : InUse(c, u)' => Loaded(c, u, KindAt(u))' # {}
                    /\ \A u \in SessionVariable : InUse(c, u)' => OpenSession(c, u)' # {}
                    /\ \A u, w \in Variable : InUse(c, u)' /\ InUse(c, w)' /\ u # w => var'[c][u] # var'[c][w]
  BY DEF PresentOK, Kept, NoClear, Calm, KindAt
<1>1. GoesOn(c) /\ ObjectVariable \subseteq Variable /\ SessionVariable \subseteq Variable
  BY DEF GoesOn, Connected, AtStep, Variable
<1>2. /\ \A u \in ObjectVariable : InUse(c, u) => Loaded(c, u, KindAt(u)) # {}
      /\ \A u \in SessionVariable : InUse(c, u) => OpenSession(c, u) # {}
      /\ \A u, w \in Variable : InUse(c, u) /\ InUse(c, w) /\ u # w => var[c][u] # var[c][w]
  BY <1>1 DEF PresentOK
<1>3. \A u \in Variable : LoadingStep(u) # <<cmd, v>> /\ InUse(c, u)' => InUse(c, u)
  BY UseAfter
<1>4. ASSUME NEW u \in ObjectVariable, InUse(c, u)', LoadingStep(u) # <<cmd, v>>
      PROVE  Loaded(c, u, KindAt(u))' # {} /\ \E x \in Loadings : x.handle = var'[c][u]
  <2>1. InUse(c, u) /\ var'[c][u] = var[c][u]
    BY <1>1, <1>3, <1>4
  <2> PICK o \in Loaded(c, u, KindAt(u)) : TRUE
    BY <1>2, <2>1
  <2>2. o \in objects /\ o.handle = var[c][u] /\ o.kind = KindAt(u)
    BY DEF Loaded, ObjectsAt
  <2>3. \A w \in Variable : o.handle = var[c][w] /\ InUse(c, w) => w = u
    BY <1>1, <1>2, <2>1, <2>2
  <2>4. o \in objects'
    BY <1>4, <2>2, <2>3
  <2> QED BY <2>1, <2>2, <2>4 DEF Loaded, ObjectsAt, Loadings, KindAt
<1>5. ASSUME NEW u \in SessionVariable, InUse(c, u)', LoadingStep(u) # <<cmd, v>>
      PROVE  OpenSession(c, u)' # {} /\ \E x \in Loadings : x.handle = var'[c][u]
  <2>1. InUse(c, u) /\ var'[c][u] = var[c][u]
    BY <1>1, <1>3, <1>5
  <2> PICK s \in OpenSession(c, u) : TRUE
    BY <1>2, <2>1
  <2>2. s \in sessions /\ s.handle = var[c][u]
    BY DEF OpenSession, SessionsAt
  <2>3. \A w \in Variable : s.handle = var[c][w] /\ InUse(c, w) => w = u
    BY <1>1, <1>2, <2>1, <2>2
  <2>4. \E t \in sessions' : t.handle = s.handle
    BY <1>5, <2>2, <2>3
  <2> QED BY <2>1, <2>2, <2>4 DEF OpenSession, SessionsAt, Loadings
<1>6. \A u \in Variable : InUse(c, u)' /\ LoadingStep(u) # <<cmd, v>> =>
        \E x \in Loadings : x.handle = var'[c][u]
  BY <1>4, <1>5 DEF Variable
<1>7. ASSUME NEW u \in Variable, NEW w \in Variable, InUse(c, u)', InUse(c, w)', u # w
      PROVE  var'[c][u] # var'[c][w]
  <2>1. CASE LoadingStep(u) = <<cmd, v>>
    <3>1. LoadingStep(w) # <<cmd, v>>
      BY <1>7, <2>1, UseOnce
    <3> QED BY <1>6, <1>7, <2>1, <3>1
  <2>2. CASE LoadingStep(w) = <<cmd, v>>
    <3>1. LoadingStep(u) # <<cmd, v>>
      BY <1>7, <2>2, UseOnce
    <3> QED BY <1>6, <1>7, <2>2, <3>1
  <2>3. CASE LoadingStep(u) # <<cmd, v>> /\ LoadingStep(w) # <<cmd, v>>
    BY <1>2, <1>3, <1>7, <2>3
  <2> QED BY <2>1, <2>2, <2>3
<1>8. ASSUME NEW u \in ObjectVariable, InUse(c, u)' PROVE Loaded(c, u, KindAt(u))' # {}
  BY <1>1, <1>4, <1>8
<1>9. ASSUME NEW u \in SessionVariable, InUse(c, u)' PROVE OpenSession(c, u)' # {}
  BY <1>1, <1>5, <1>9
<1> QED BY <1>7, <1>8, <1>9

\* Steps at which everything a call has loaded is deferred.
Quiet(cmd, v) == cmd \notin LeakingCommands /\ (cmd = "Defer" => v \notin SessionVariable)

\* Where no cleanup is armed for it, a call has nothing to release.
LEMMA LeakQuiet ==
  ASSUME NEW c, LeakOK(c), NEW cmd, NEW v, AtStep(c, cmd, v), Quiet(cmd, v)
  PROVE  Unreleased(c) = {}
<1>1. todo[c] # <<>> /\ NextStep(c) = <<cmd, v>>
  BY DEF AtStep
<1>2. \A h : ~InGetSession(c, h)
  BY <1>1 DEF InGetSession, Quiet, LeakingCommands
<1>3. \A h : ~InHmac(c, h)
  BY <1>1 DEF InHmac, Quiet, LeakingCommands
<1> QED BY <1>1, <1>2, <1>3 DEF LeakOK

\* Nothing is left to release when a step defers what it loads.
LEMMA LeakPlain ==
  ASSUME NEW c, LeakOK(c), NEW cmd, NEW v, AtStep(c, cmd, v), Quiet(cmd, v),
         \A h : Deferred(c, h) => Deferred(c, h)',
         \A y \in Loadings' : y.owner = c =>
           Deferred(c, y.handle)' \/ \E x \in Loadings : x.owner = c /\ x.handle = y.handle
  PROVE  LeakOK(c)'
<1>1. Unreleased(c) = {}
  BY LeakQuiet
<1>2. Unreleased(c)' = {}
  BY <1>1 DEF Unreleased
<1> QED BY <1>2 DEF LeakOK

\* A step in place leaves what has been loaded in the variables.
LEMMA InPlaceLoads ==
  ASSUME HandleInv, NEW c \in Client, SlotsOK(c), PresentOK(c), NEW cmd, NEW v, AtStep(c, cmd, v), Proceed(c),
         UNCHANGED <<call, outcome, conns, events, var, objects>>,
         \/ sessions' = sessions
         \/ \E f : /\ \A s \in sessions : f[s].handle = s.handle /\ f[s].owner = s.owner
                   /\ sessions' = {f[s] : s \in sessions},
         \A u \in Variable : LoadingStep(u) # <<cmd, v>>,
         cmd # "FlushContext", <<cmd, v>> # TagStep
  PROVE  /\ SlotsOK(c)' /\ PresentOK(c)'
         /\ \A y \in Loadings' : \E x \in Loadings : x.owner = y.owner /\ x.handle = y.handle
<1>1. /\ \A y \in sessions' : \E x \in sessions : x.owner = y.owner /\ x.handle = y.handle
      /\ \A s \in sessions : \E t \in sessions' : t.handle = s.handle
  <2>1. CASE sessions' = sessions
    BY <2>1
  <2>2. ASSUME NEW f, \A s \in sessions : f[s].handle = s.handle /\ f[s].owner = s.owner,
               sessions' = {f[s] : s \in sessions}
        PROVE  /\ \A y \in sessions' : \E x \in sessions : x.owner = y.owner /\ x.handle = y.handle
               /\ \A s \in sessions : \E t \in sessions' : t.handle = s.handle
    BY <2>2
  <2> QED BY <2>1, <2>2
<1>2. \A y \in Loadings' : \E x \in Loadings : x.owner = y.owner /\ x.handle = y.handle
  BY <1>1 DEF Loadings
<1>3. SlotsOK(c)'
  BY <1>2, OwnSlots
<1>4. PresentOK(c)'
  BY <1>1, OwnPresent
<1> QED BY <1>2, <1>3, <1>4

\* Commands that load nothing are not the loading step of a variable.
LEMMA LoadsNothing ==
  ASSUME NEW cmd \in {"PolicyPCR", "PolicyAuthValue", "PolicyGetDigest", "Create", "EncryptDecrypt2",
                      "ReadPublic", "SequenceUpdate", "SequenceComplete", "FlushContext", "Defer", "Dial",
                      "CheckLengths", "CheckKeys", "CheckTag"}, NEW v
  PROVE  \A u \in Variable : LoadingStep(u) # <<cmd, v>>
BY LoadingSteps DEF Variable, ObjectVariable, SessionVariable

\* Most commands change nothing that is loaded but a session's state.
LEMMA PlainLoads ==
  ASSUME HandleInv, NEW c \in Client, LoadsOK(c),
         PolicyGetDigest(c) \/ ReadPublic(c) \/ EncryptDecrypt2(c) \/ (\E v \in {"aes", "hmac"} : Create(c, v))
  PROVE  LoadsOK(c)'
<1>1. TypeOK
  BY DEF HandleInv, IInv
<1> PICK cmd \in {"PolicyGetDigest", "ReadPublic", "EncryptDecrypt2", "Create"}, v \in Variable :
      Executes(c, cmd, v)
  <2>1. {"trial", "hmac", "aes"} \subseteq Variable
    BY DEF Variable, ObjectVariable, SessionVariable
  <2> QED BY <2>1 DEF PolicyGetDigest, ReadPublic, EncryptDecrypt2, Create
<1>2. AtStep(c, cmd, v) /\ Proceed(c) /\ UNCHANGED <<call, outcome, conns, events>>
  BY DEF Executes
<1>3. UNCHANGED <<var, objects, defers>>
  BY DEF PolicyGetDigest, ReadPublic, EncryptDecrypt2, Create
<1>4. \/ sessions' = sessions
      \/ \E f : /\ \A s \in sessions : f[s].handle = s.handle /\ f[s].owner = s.owner
                /\ sessions' = {f[s] : s \in sessions}
  <2>1. CASE EncryptDecrypt2(c)
    BY <1>1, <2>1, SessionsInPlace
  <2>2. CASE ~EncryptDecrypt2(c)
    BY <2>2 DEF PolicyGetDigest, ReadPublic, Create
  <2> QED BY <2>1, <2>2
<1>5. \A u \in Variable : LoadingStep(u) # <<cmd, v>>
  BY LoadsNothing
<1>6. cmd # "FlushContext" /\ <<cmd, v>> # TagStep /\ Quiet(cmd, v)
  BY DEF TagStep, Quiet, LeakingCommands
<1>7. /\ SlotsOK(c)' /\ PresentOK(c)'
      /\ \A y \in Loadings' : \E x \in Loadings : x.owner = y.owner /\ x.handle = y.handle
  BY <1>2, <1>3, <1>4, <1>5, <1>6, InPlaceLoads DEF LoadsOK
<1>8. \A h : Deferred(c, h) => Deferred(c, h)'
  BY <1>3 DEF Deferred
<1>9. LeakOK(c)'
  BY <1>2, <1>6, <1>7, <1>8, LeakPlain DEF LoadsOK
<1> QED BY <1>7, <1>9 DEF LoadsOK

\* The session that is being made stays the one thing not deferred, ...
LEMMA PolicyLoads ==
  ASSUME HandleInv, NEW c \in Client, LoadsOK(c), NEW v \in SessionVariable,
         PolicyPCR(c, v) \/ PolicyAuthValue(c, v)
  PROVE  LoadsOK(c)'
<1>1. TypeOK
  BY DEF HandleInv, IInv
<1> PICK cmd \in {"PolicyPCR", "PolicyAuthValue"} : Executes(c, cmd, v)
  BY DEF PolicyPCR, PolicyAuthValue
<1>2. AtStep(c, cmd, v) /\ Proceed(c) /\ UNCHANGED <<call, outcome, conns, events>>
  BY DEF Executes
<1>3. UNCHANGED <<var, objects, defers>>
  BY DEF PolicyPCR, PolicyAuthValue
<1>4. \E f : /\ \A s \in sessions : f[s].handle = s.handle /\ f[s].owner = s.owner
             /\ sessions' = {f[s] : s \in sessions}
  BY <1>1, SessionsInPlace
<1>5. \A u \in Variable : LoadingStep(u) # <<cmd, v>>
  BY LoadsNothing
<1>6. cmd # "FlushContext" /\ <<cmd, v>> # TagStep
  BY DEF TagStep
<1>7. /\ SlotsOK(c)' /\ PresentOK(c)'
      /\ \A y \in Loadings' : \E x \in Loadings : x.owner = y.owner /\ x.handle = y.handle
  BY <1>2, <1>3, <1>4, <1>5, <1>6, InPlaceLoads DEF LoadsOK
<1>8. todo[c] # <<>> /\ NextStep(c) = <<cmd, v>>
  BY <1>2 DEF AtStep
<1>9. \A x \in Unreleased(c) : x.handle = var[c][v]
  BY <1>8 DEF LoadsOK, LeakOK, InGetSession, InHmac
<1>10. \A y \in Unreleased(c)' : y.handle = var'[c][v]
  BY <1>3, <1>7, <1>9 DEF Unreleased, Deferred
<1>11. todo'[c] # <<>> /\ NextStep(c)' \in {<<"PolicyPCR", v>>, <<"PolicyAuthValue", v>>, <<"Defer", v>>}
  BY <1>2, SessionNext
<1>12. InGetSession(c, var[c][v])'
  BY <1>11 DEF InGetSession, NextStep
<1>13. LeakOK(c)'
  BY <1>3, <1>10, <1>11, <1>12 DEF LeakOK
<1> QED BY <1>7, <1>13 DEF LoadsOK

\* ... until it is deferred.
LEMMA DeferLoads ==
  ASSUME HandleInv, NEW c \in Client, LoadsOK(c), Defer(c)
  PROVE  LoadsOK(c)'
<1> PICK v \in SessionVariable \union {"hmac"} :
      /\ AtStep(c, "Defer", v) /\ Proceed(c) /\ PushDefer(c, var[c][v])
      /\ UNCHANGED <<call, var, outcome, tpmVars, events>>
  BY DEF Defer
<1>1. UNCHANGED <<conns, objects, sessions>>
  BY DEF tpmVars
<1>2. \A u \in Variable : LoadingStep(u) # <<"Defer", v>>
  BY LoadsNothing
<1>3. SlotsOK(c)' /\ PresentOK(c)'
  BY <1>1, <1>2, InPlaceLoads DEF LoadsOK, TagStep
<1>4. TypeOK /\ ClientOK(c) /\ var[c][v] \in Handle \union {NoHandle}
  <2>1. TypeOK /\ ClientOK(c)
    BY DEF HandleInv, IInv, ClientOK
  <2>2. var \in [Client -> [Variable -> Handle \union {NoHandle}]] /\ v \in Variable
    BY <2>1 DEF TypeOK, Variable, ObjectVariable
  <2> QED BY <2>1, <2>2
<1>5. Deferred(c, var[c][v])' /\ \A h : Deferred(c, h) => Deferred(c, h)'
  BY <1>4, Pushed
<1>6. CASE v \in SessionVariable
  <2>1. todo[c] # <<>> /\ NextStep(c) = <<"Defer", v>>
    BY DEF AtStep
  <2>2. \A x \in Unreleased(c) : x.handle = var[c][v]
    BY <2>1 DEF LoadsOK, LeakOK, InGetSession, InHmac
  <2>3. Unreleased(c)' = {}
    BY <1>1, <1>5, <2>2 DEF Unreleased, Loadings
  <2> QED BY <1>3, <2>3 DEF LoadsOK, LeakOK
<1>7. CASE v \notin SessionVariable
  <2>1. Quiet("Defer", v)
    BY <1>7 DEF Quiet, LeakingCommands
  <2>2. LeakOK(c)'
    BY <1>1, <1>5, <2>1, LeakPlain DEF LoadsOK, Loadings
  <2> QED BY <1>3, <2>2 DEF LoadsOK
<1> QED BY <1>6, <1>7

\* The sequence stays the one thing not deferred ...
LEMMA SequenceUpdateLoads ==
  ASSUME HandleInv, NEW c \in Client, LoadsOK(c), SequenceUpdate(c)
  PROVE  LoadsOK(c)'
<1>1. /\ AtStep(c, "SequenceUpdate", "sequence") /\ Proceed(c) /\ UNCHANGED <<call, outcome, conns, events>>
      /\ UNCHANGED <<var, objects, sessions, defers>>
  BY DEF SequenceUpdate, Executes
<1>2. \A u \in Variable : LoadingStep(u) # <<"SequenceUpdate", "sequence">>
  BY LoadsNothing
<1>3. SlotsOK(c)' /\ PresentOK(c)'
  BY <1>1, <1>2, InPlaceLoads DEF LoadsOK, TagStep
<1>4. todo[c] # <<>> /\ NextStep(c) = <<"SequenceUpdate", "sequence">>
  BY <1>1 DEF AtStep
<1>5. \A x \in Unreleased(c) : x.handle = var[c]["sequence"]
  BY <1>4 DEF LoadsOK, LeakOK, InGetSession, InHmac
<1>6. \A y \in Unreleased(c)' : y.handle = var'[c]["sequence"]
  BY <1>1, <1>5 DEF Unreleased, Deferred, Loadings
<1>7. todo'[c] # <<>> /\ NextStep(c)' \in {<<"SequenceUpdate", "sequence">>, <<"SequenceComplete", "sequence">>}
  BY <1>1, HmacNext
<1>8. InHmac(c, var[c]["sequence"])'
  BY <1>7 DEF InHmac, NextStep
<1>9. LeakOK(c)'
  BY <1>1, <1>6, <1>7, <1>8 DEF LeakOK
<1> QED BY <1>3, <1>9 DEF LoadsOK

\* ... until it is completed, which frees its slot.
LEMMA SequenceCompleteLoads ==
  ASSUME HandleInv, NEW c \in Client, LoadsOK(c), SequenceComplete(c)
  PROVE  LoadsOK(c)'
<1>1. /\ AtStep(c, "SequenceComplete", "sequence") /\ Proceed(c) /\ UNCHANGED <<call, outcome, conns, events>>
      /\ UNCHANGED <<var, sessions, defers>>
  BY DEF SequenceComplete, Executes
<1> PICK q \in Loaded(c, "sequence", "sequence") : objects' = objects \ {q}
  BY DEF SequenceComplete
<1>2. q \in objects /\ q.handle = var[c]["sequence"] /\ "sequence" \in Variable
  BY DEF Loaded, ObjectsAt, Variable, ObjectVariable
<1>3. \A u \in Variable : LoadingStep(u) # <<"SequenceComplete", "sequence">>
  BY LoadsNothing
<1>4. \A y \in Loadings' : y \in Loadings /\ y.handle # var[c]["sequence"]
  <2>1. \A o \in objects : o.handle = q.handle => o = q
    BY <1>2 DEF HandleInv, UniqueHandles
  <2>2. \A s \in sessions : s.handle # q.handle
    <3>1. q.handle \in ObjectHandle /\ \A s \in sessions : s.handle \in SessionHandle
      BY <1>2, LoadingHandle DEF HandleInv, IInv
    <3> QED BY <3>1, HandleShape
  <2> QED BY <1>1, <1>2, <2>1, <2>2 DEF Loadings
<1>5. SlotsOK(c)'
  <2>1. \A u \in Variable : var'[c][u] = var[c][u]
    BY <1>1
  <2>2. SlotsOK(c) /\ UNCHANGED <<call, outcome, conns, events>>
    BY <1>1 DEF LoadsOK
  <2> QED BY <1>1, <1>4, <2>1, <2>2, OwnSlots DEF TagStep
<1>6. PresentOK(c)'
  <2>1. InUse(c, "sequence")
    BY <1>1, NamedInUse DEF Finds
  <2>2. ~InUse(c, "sequence")'
    BY <1>1, <1>2, UseAfter DEF TagStep
  <2>3. \A o \in objects : o \in objects' \/ \E u \in Variable : o.handle = var[c][u] /\ InUse(c, u) /\ ~InUse(c, u)'
    BY <1>2, <2>1, <2>2
  <2>4. \A s \in sessions : \E t \in sessions' : t.handle = s.handle
    BY <1>1
  <2> QED BY <1>1, <1>3, <2>3, <2>4, OwnPresent DEF LoadsOK
<1>7. todo[c] # <<>> /\ NextStep(c) = <<"SequenceComplete", "sequence">>
  BY <1>1 DEF AtStep
<1>8. \A x \in Unreleased(c) : x.handle = var[c]["sequence"]
  BY <1>7 DEF LoadsOK, LeakOK, InGetSession, InHmac
<1>9. Unreleased(c)' = {}
  BY <1>1, <1>4, <1>8 DEF Unreleased, Deferred
<1> QED BY <1>5, <1>6, <1>9 DEF LoadsOK, LeakOK

\* A flush in the middle of a call frees what goes out of use.
LEMMA FlushContextLoads ==
  ASSUME HandleInv, NEW c \in Client, LoadsOK(c), FlushContext(c)
  PROVE  LoadsOK(c)'
<1> PICK v \in Variable :
      /\ AtStep(c, "FlushContext", v) /\ Proceed(c) /\ UNCHANGED <<call, outcome, conns, events, var, defers>>
      /\ IF Connected(c) THEN Served(c) /\ Flush(var[c][v]) ELSE UNCHANGED <<objects, sessions>>
  BY DEF FlushContext
<1>1. Quiet("FlushContext", v)
  BY DEF Quiet, LeakingCommands
<1>2. objects' \subseteq objects /\ sessions' \subseteq sessions
  BY DEF Flush
<1>3. LeakOK(c)'
  BY <1>1, <1>2, LeakPlain DEF LoadsOK, Deferred, Loadings
<1>4. CASE ~Connected(c)
  <2>1. ~GoesOn(c)'
    BY <1>4 DEF GoesOn, Connected
  <2> QED BY <1>3, <2>1 DEF LoadsOK, SlotsOK, PresentOK
<1>5. CASE Connected(c)
  <2>1. /\ objects' = {o \in objects : o.handle # var[c][v]}
        /\ sessions' = {s \in sessions : s.handle # var[c][v]}
    BY <1>5 DEF Flush
  <2>2. \A u \in Variable : LoadingStep(u) # <<"FlushContext", v>>
    BY LoadsNothing
  <2>3. SlotsOK(c)'
    <3>1. \A y \in Loadings' : y \in Loadings /\ y.handle # var[c][v]
      BY <2>1 DEF Loadings
    <3>2. <<"FlushContext", v>> # TagStep
      BY DEF TagStep
    <3> QED BY <2>2, <3>1, <3>2, OwnSlots DEF LoadsOK
  <2>4. PresentOK(c)'
    <3>1. InUse(c, v) /\ ~InUse(c, v)'
      BY NamedInUse, UseAfter DEF Finds
    <3>2. \A o \in objects : o \in objects' \/ \E u \in Variable : o.handle = var[c][u] /\ InUse(c, u) /\ ~InUse(c, u)'
      BY <2>1, <3>1
    <3>3. \A s \in sessions :
            \/ \E t \in sessions' : t.handle = s.handle
            \/ \E u \in Variable : s.handle = var[c][u] /\ InUse(c, u) /\ ~InUse(c, u)'
      BY <2>1, <3>1
    <3> QED BY <2>2, <3>2, <3>3, OwnPresent DEF LoadsOK
  <2> QED BY <1>3, <2>3, <2>4 DEF LoadsOK
<1> QED BY <1>4, <1>5

\* A call that fails leaves behind at most what it was making.
LEMMA FailLoads ==
  ASSUME TypeOK, NEW c \in Client, LoadsOK(c), todo[c] # <<>>, NextStep(c)[1] # "Defer", NEW why, Fail(c, why)
  PROVE  LoadsOK(c)'
<1> DEFINE o == [outcome[c] EXCEPT !.why = why, !.at = NextStep(c)[1]]
<1>1. outcome' = [outcome EXCEPT ![c] = o]
  BY DEF Fail
<1>2. o.at = NextStep(c)[1]
  BY DEF TypeOK, OutcomeType
<1> HIDE DEF o
<1>3. outcome'[c].at = NextStep(c)[1] /\ todo'[c] = <<>>
  BY <1>1, <1>2 DEF TypeOK, Fail
<1>4. UNCHANGED <<var, objects, sessions, defers>>
  BY DEF Fail, tpmVars
<1>5. ~GoesOn(c)'
  BY <1>3 DEF GoesOn
<1>6. \A y \in Unreleased(c)' : y \in Unreleased(c)
  BY <1>4 DEF Unreleased, Deferred, Loadings
<1>7. \A x \in Unreleased(c) : NextStep(c)[1] \in LeakingCommands
  BY DEF LoadsOK, LeakOK, InGetSession, InHmac, LeakingCommands
<1>8. LeakOK(c)'
  BY <1>3, <1>6, <1>7 DEF LoadsOK, LeakOK, LeakingCommands
<1> QED BY <1>5, <1>8 DEF LoadsOK, SlotsOK, PresentOK

\* A command that fails loads nothing.
LEMMA CommandFailLoads ==
  ASSUME TypeOK, NEW c \in Client, LoadsOK(c), CommandRefused(c) \/ CommandLost(c) \/ CommandFault(c)
  PROVE  LoadsOK(c)'
<1>1. PICK why : Fail(c, why)
  BY Zenon DEF CommandRefused, CommandLost, CommandFault
<1>2. todo[c] # <<>> /\ NextStep(c)[1] # "Defer"
  BY DEF CommandRefused, CommandLost, CommandFault, LocalCommand
<1> QED BY <1>1, <1>2, FailLoads

\* A check loads nothing.
LEMMA CheckLoads ==
  ASSUME HandleInv, NEW c \in Client, LoadsOK(c),
         NEW cmd \in {"CheckLengths", "CheckKeys", "CheckTag"}, NEW ok, NEW why, Check(c, cmd, ok, why)
  PROVE  LoadsOK(c)'
<1>1. AtStep(c, cmd, "none")
  BY DEF Check
<1>2. CASE ok
  <2>1. Proceed(c) /\ UNCHANGED <<call, var, outcome, conns, events, objects, sessions, defers>>
    BY <1>2 DEF Check, tpmVars
  <2>2. \A u \in Variable : LoadingStep(u) # <<cmd, "none">>
    BY LoadsNothing
  <2>3. SlotsOK(c)' /\ PresentOK(c)'
    BY <1>1, <2>1, <2>2, InPlaceLoads DEF LoadsOK, TagStep
  <2>4. Quiet(cmd, "none")
    BY DEF Quiet, LeakingCommands
  <2>5. LeakOK(c)'
    BY <1>1, <2>1, <2>4, LeakPlain DEF LoadsOK, Deferred, Loadings
  <2> QED BY <2>3, <2>5 DEF LoadsOK
<1>3. CASE ~ok
  <2>1. Fail(c, why) /\ TypeOK
    BY <1>3 DEF Check, HandleInv, IInv
  <2>2. todo[c] # <<>> /\ NextStep(c)[1] # "Defer"
    BY <1>1 DEF AtStep
  <2> QED BY <2>1, <2>2, FailLoads
<1> QED BY <1>2, <1>3

\* Nothing is in use, nor loaded, when a call opens its connection.
LEMMA DialLoads ==
  ASSUME HandleInv, NEW c \in Client, LoadsOK(c), Dial(c)
  PROVE  LoadsOK(c)'
<1>1. /\ AtStep(c, "Dial", "none") /\ Proceed(c) /\ PushDefer(c, CloseConn)
      /\ UNCHANGED <<call, outcome, var, objects, sessions>>
  BY DEF Dial
<1>2. \A u \in Variable : ~InUse(c, u)
  <2>1. CASE call[c].op = "Seal"
    BY <1>1, <2>1, SealUse, SealPlaces DEF Variable, ObjectVariable, SessionVariable
  <2>2. CASE call[c].op = "Open"
    BY <1>1, <2>2, OpenUse, OpenPlaces DEF Variable, ObjectVariable, SessionVariable
  <2>3. CASE call[c].op = "NewKey"
    BY <1>1, <2>3, NewKeyUse, NewKeyPlaces
  <2>4. CASE call[c].op \notin {"NewKey", "Seal", "Open"}
    BY <2>4, NewAEADUse
  <2> QED BY <2>1, <2>2, <2>3, <2>4
<1>3. \A u \in Variable : LoadingStep(u) # <<"Dial", "none">>
  BY LoadsNothing
<1>4. \A u \in Variable : ~InUse(c, u)'
  BY <1>1, <1>2, <1>3, UseAfter
<1>5. c \notin served /\ todo[c] # <<>>
  <2>1. defers[c] = <<>> /\ todo[c] # <<>>
    <3>1. todo[c] \in Seq(Step) /\ todo[c] # <<>> /\ Head(todo[c]) = <<"Dial", "none">>
      BY <1>1 DEF AtStep, NextStep, HandleInv, IInv, TypeOK
    <3>2. 1 \in 1..Len(todo[c]) /\ todo[c][1][1] = "Dial"
      BY <3>1
    <3> QED BY <3>1, <3>2 DEF HandleInv, IInv, StackOK
  <2>2. ~Connected(c)
    <3>1. ~Deferred(c, CloseConn)
      BY <2>1 DEF Deferred
    <3> QED BY <3>1 DEF HandleInv, IInv, StackOK
  <2> QED BY <2>1, <2>2 DEF HandleInv, IInv, TypeOK, TPMTypeOK, Connected
<1>6. \A x \in Loadings' : x.owner # c
  BY <1>1, <1>5 DEF HandleInv, OwnersOK, Loadings
<1> QED BY <1>4, <1>6 DEF LoadsOK, LeakOK, SlotsOK, PresentOK, Unreleased, Variable

\* A new session is in use, and is the one thing not deferred.
LEMMA StartAuthSessionLoads ==
  ASSUME HandleInv, NEW c \in Client, LoadsOK(c), NEW v \in SessionVariable, StartAuthSession(c, v)
  PROVE  LoadsOK(c)'
<1>1. /\ AtStep(c, "StartAuthSession", v) /\ Proceed(c) /\ UNCHANGED <<call, outcome, conns, events, objects, defers>>
      /\ TypeOK
  BY DEF StartAuthSession, Executes, HandleInv, IInv
<1> PICK h \in Allocated(FreeSessionHandles(c)) :
      /\ sessions' = sessions \union
           {NewSession(c, h, v = "trial", SessionPassword(call[c].session, v = "trial"))}
      /\ var' = [var EXCEPT ![c][v] = h]
  BY DEF StartAuthSession
<1> DEFINE s == NewSession(c, h, v = "trial", SessionPassword(call[c].session, v = "trial"))
<1>2. s.handle = h /\ s.owner = c /\ sessions' = sessions \union {s}
  BY DEF NewSession
<1> HIDE DEF s
<1>3. \A x \in Loadings : x.handle # h
  BY LoadedAt
<1>4. v \in Variable /\ v \notin ObjectVariable /\ \A u \in Variable : var'[c][u] = IF u = v THEN h ELSE var[c][u]
  BY <1>1 DEF TypeOK, Variable, ObjectVariable, SessionVariable
<1>5. \A u \in Variable : LoadingStep(u) = <<"StartAuthSession", v>> <=> u = v
  BY <1>4, LoadingSteps, UseOnce
<1>6. \A y \in Loadings' : y \in Loadings \/ y.handle = var'[c][v]
  BY <1>1, <1>2, <1>4 DEF Loadings
<1>7. SlotsOK(c)'
  <2>1. <<"StartAuthSession", v>> # TagStep
    BY DEF TagStep
  <2>2. \A u \in Variable : LoadingStep(u) # <<"StartAuthSession", v>> => var'[c][u] = var[c][u]
    BY <1>4, <1>5
  <2> QED BY <1>1, <1>4, <1>5, <1>6, <2>1, <2>2, OwnSlots DEF LoadsOK
<1>8. PresentOK(c)'
  <2>1. OpenSession(c, v)' # {}
    BY <1>2, <1>4 DEF OpenSession, SessionsAt
  <2>2. \A u \in Variable : LoadingStep(u) = <<"StartAuthSession", v>> =>
          /\ \A x \in Loadings : x.handle # var'[c][u]
          /\ u \in ObjectVariable => Loaded(c, u, KindAt(u))' # {}
          /\ u \in SessionVariable => OpenSession(c, u)' # {}
    BY <1>3, <1>4, <1>5, <2>1
  <2>3. \A u \in Variable : LoadingStep(u) # <<"StartAuthSession", v>> => var'[c][u] = var[c][u]
    BY <1>4, <1>5
  <2>4. PresentOK(c) /\ objects' = objects /\ \A t \in sessions : t \in sessions'
    BY <1>1, <1>2 DEF LoadsOK
  <2> QED BY <1>1, <2>2, <2>3, <2>4, OwnPresent
<1>9. Unreleased(c) = {}
  BY <1>1, LeakQuiet DEF LoadsOK, Quiet, LeakingCommands
<1>10. \A y \in Unreleased(c)' : y.handle = var'[c][v]
  BY <1>1, <1>6, <1>9 DEF Unreleased, Deferred
<1>11. todo'[c] # <<>> /\ NextStep(c)' \in {<<"PolicyPCR", v>>, <<"PolicyAuthValue", v>>, <<"Defer", v>>}
  BY <1>1, SessionNext
<1>12. InGetSession(c, var[c][v])'
  BY <1>11 DEF InGetSession, NextStep
<1>13. LeakOK(c)'
  BY <1>10, <1>11, <1>12 DEF LeakOK
<1> QED BY <1>7, <1>8, <1>13 DEF LoadsOK

\* So is a new object, and its flush is deferred unless it is a sequence.
LEMMA ObjectLoads ==
  ASSUME HandleInv, NEW c \in Client, LoadsOK(c), NEW cmd, NEW w, AtStep(c, cmd, w), Proceed(c),
         UNCHANGED <<call, outcome, conns, events>>, cmd # "FlushContext", <<cmd, w>> # TagStep,
         NEW v \in ObjectVariable, LoadingStep(v) = <<cmd, w>>, NEW key, LoadObject(c, v, KindAt(v), key),
         \/ sessions' = sessions
         \/ \E f : /\ \A s \in sessions : f[s].handle = s.handle /\ f[s].owner = s.owner
                   /\ sessions' = {f[s] : s \in sessions}
  PROVE  /\ SlotsOK(c)' /\ PresentOK(c)'
         /\ \A y \in Loadings' : y.owner = c =>
              y.handle = var'[c][v] \/ \E x \in Loadings : x.owner = c /\ x.handle = y.handle
         /\ \A h : Deferred(c, h) => Deferred(c, h)'
         /\ v # "sequence" => Deferred(c, var[c][v])'
<1>1. TypeOK /\ ClientOK(c)
  BY DEF HandleInv, IInv, ClientOK
<1> PICK h \in Allocated(FreeObjectHandles(c)) :
      /\ objects' = objects \union {NewObject(c, h, KindAt(v), key)}
      /\ var' = [var EXCEPT ![c][v] = h]
      /\ IF KindAt(v) = "sequence" THEN UNCHANGED defers ELSE PushDefer(c, h)
  BY DEF LoadObject
<1> DEFINE o == NewObject(c, h, KindAt(v), key)
<1>2. o.handle = h /\ o.owner = c /\ o.kind = KindAt(v) /\ objects' = objects \union {o}
  BY DEF NewObject
<1> HIDE DEF o
<1>3. h \in Handle /\ \A x \in Loadings : x.handle # h
  BY LoadedAt, FreeHandles
<1>4. v \in Variable /\ v \notin SessionVariable /\ \A u \in Variable : var'[c][u] = IF u = v THEN h ELSE var[c][u]
  BY <1>1 DEF TypeOK, Variable, ObjectVariable, SessionVariable
<1>5. \A u \in Variable : LoadingStep(u) = <<cmd, w>> <=> u = v
  BY <1>4, UseOnce
<1>6. /\ \A y \in sessions' : \E x \in sessions : x.owner = y.owner /\ x.handle = y.handle
      /\ \A s \in sessions : \E t \in sessions' : t.handle = s.handle
  <2>1. CASE sessions' = sessions
    BY <2>1
  <2>2. ASSUME NEW f, \A s \in sessions : f[s].handle = s.handle /\ f[s].owner = s.owner,
               sessions' = {f[s] : s \in sessions}
        PROVE  /\ \A y \in sessions' : \E x \in sessions : x.owner = y.owner /\ x.handle = y.handle
               /\ \A s \in sessions : \E t \in sessions' : t.handle = s.handle
    BY <2>2
  <2> QED BY <2>1, <2>2
<1>7. \A y \in Loadings' : y.owner = c =>
        y.handle = var'[c][v] \/ \E x \in Loadings : x.owner = c /\ x.handle = y.handle
  <2>1. ASSUME NEW y \in objects', y.owner = c
        PROVE  y.handle = var'[c][v] \/ \E x \in Loadings : x.owner = c /\ x.handle = y.handle
    BY <1>2, <1>4, <2>1 DEF Loadings
  <2>2. ASSUME NEW y \in sessions', y.owner = c
        PROVE  \E x \in Loadings : x.owner = c /\ x.handle = y.handle
    BY <1>6, <2>2 DEF Loadings
  <2> QED BY <2>1, <2>2 DEF Loadings
<1>8. \A u \in Variable : LoadingStep(u) # <<cmd, w>> => var'[c][u] = var[c][u]
  BY <1>4, <1>5
<1>9. SlotsOK(c)'
  <2>1. \A y \in Loadings' : y.owner = c =>
          \/ \E u \in Variable : LoadingStep(u) = <<cmd, w>> /\ y.handle = var'[c][u]
          \/ \E x \in Loadings : x.owner = c /\ x.handle = y.handle
    BY <1>4, <1>5, <1>7
  <2> QED BY <1>8, <2>1, OwnSlots DEF LoadsOK
<1>10. PresentOK(c)'
  <2>1. Loaded(c, v, KindAt(v))' # {}
    BY <1>2, <1>4 DEF Loaded, ObjectsAt, KindAt
  <2>2. \A u \in Variable : LoadingStep(u) = <<cmd, w>> =>
          /\ \A x \in Loadings : x.handle # var'[c][u]
          /\ u \in ObjectVariable => Loaded(c, u, KindAt(u))' # {}
          /\ u \in SessionVariable => OpenSession(c, u)' # {}
    BY <1>3, <1>4, <1>5, <2>1
  <2>3. PresentOK(c) /\ conns' = conns /\ call' = call /\ outcome' = outcome /\ events' = events
    BY DEF LoadsOK
  <2>4. \A x \in objects :
          x \in objects' \/ \E u \in Variable : x.handle = var[c][u] /\ InUse(c, u) /\ ~InUse(c, u)'
    BY <1>2
  <2>5. \A s \in sessions :
          \/ \E t \in sessions' : t.handle = s.handle
          \/ \E u \in Variable : s.handle = var[c][u] /\ InUse(c, u) /\ ~InUse(c, u)'
    BY <1>6
  <2> QED BY <1>8, <2>2, <2>3, <2>4, <2>5, OwnPresent
<1>11. KindAt(v) = "sequence" <=> v = "sequence"
  BY DEF KindAt
<1>12. (\A g : Deferred(c, g) => Deferred(c, g)') /\ (v # "sequence" => Deferred(c, h)')
  <2>1. CASE v = "sequence"
    <3>1. defers' = defers
      BY <1>11, <2>1
    <3> QED BY <2>1, <3>1 DEF Deferred
  <2>2. CASE v # "sequence"
    <3>1. PushDefer(c, h) /\ h \in Handle \union {NoHandle}
      BY <1>3, <1>11, <2>2
    <3> QED BY <1>1, <3>1, Pushed
  <2> QED BY <2>1, <2>2
<1>13. var'[c][v] = h
  BY <1>4
<1>14. \A g : Deferred(c, g) => Deferred(c, g)'
  BY <1>12
<1>15. v # "sequence" => Deferred(c, var[c][v])'
  BY <1>12, <1>13
<1> QED BY <1>7, <1>9, <1>10, <1>14, <1>15

\* The primary and the keys, whose flushes are deferred, ...
LEMMA KeyLoads ==
  ASSUME HandleInv, NEW c \in Client, LoadsOK(c), CreatePrimary(c) \/ (\E v \in {"aes", "hmac"} : Load(c, v))
  PROVE  LoadsOK(c)'
<1> PICK cmd \in {"CreatePrimary", "Load"}, v \in {"primary", "aes", "hmac"} :
      /\ Executes(c, cmd, v) /\ (\E key : LoadObject(c, v, KindAt(v), key)) /\ sessions' = sessions
      /\ LoadingStep(v) = <<cmd, v>>
  <2>1. CASE CreatePrimary(c)
    BY <2>1, LoadingSteps DEF CreatePrimary, KindAt
  <2>2. ASSUME NEW v \in {"aes", "hmac"}, Load(c, v)
        PROVE  /\ Executes(c, "Load", v) /\ LoadObject(c, v, KindAt(v), KeyFile(c, v)) /\ sessions' = sessions
               /\ LoadingStep(v) = <<"Load", v>>
    <3>1. KindAt(v) = "key" /\ LoadingStep(v) = <<"Load", v>>
      BY LoadingSteps DEF KindAt
    <3> QED BY <2>2, <3>1 DEF Load
  <2> QED BY <2>1, <2>2
<1> PICK key : LoadObject(c, v, KindAt(v), key)
  OBVIOUS
<1>1. AtStep(c, cmd, v) /\ Proceed(c) /\ UNCHANGED <<call, outcome, conns, events>>
  BY DEF Executes
<1>2. v \in ObjectVariable /\ cmd # "FlushContext" /\ <<cmd, v>> # TagStep /\ v # "sequence"
  BY DEF ObjectVariable, TagStep
<1>3. /\ SlotsOK(c)' /\ PresentOK(c)'
      /\ \A y \in Loadings' : y.owner = c =>
           y.handle = var'[c][v] \/ \E x \in Loadings : x.owner = c /\ x.handle = y.handle
      /\ \A h : Deferred(c, h) => Deferred(c, h)'
      /\ Deferred(c, var[c][v])'
  BY <1>1, <1>2, ObjectLoads
<1>4. Quiet(cmd, v)
  BY DEF Quiet, LeakingCommands
<1>5. \A y \in Loadings' : y.owner = c =>
        Deferred(c, y.handle)' \/ \E x \in Loadings : x.owner = c /\ x.handle = y.handle
  <2>1. ASSUME NEW y, y.handle = var'[c][v] PROVE Deferred(c, y.handle)'
    BY <1>3, <2>1 DEF Deferred
  <2> QED BY <1>3, <2>1
<1>6. LeakOK(c)'
  BY <1>1, <1>3, <1>4, <1>5, LeakPlain DEF LoadsOK
<1> QED BY <1>3, <1>6 DEF LoadsOK

\* ... and the sequence, whose flush is not.
LEMMA HmacStartLoads ==
  ASSUME HandleInv, NEW c \in Client, LoadsOK(c), HmacStart(c)
  PROVE  LoadsOK(c)'
<1>1. AtStep(c, "HmacStart", "hmac") /\ Proceed(c) /\ UNCHANGED <<call, outcome, conns, events>>
  BY DEF HmacStart, Executes
<1> PICK key : LoadObject(c, "sequence", "sequence", key)
  BY DEF HmacStart
<1>2. \E f : /\ \A s \in sessions : f[s].handle = s.handle /\ f[s].owner = s.owner
             /\ sessions' = {f[s] : s \in sessions}
  BY SessionsInPlace DEF HandleInv, IInv
<1>3. /\ "sequence" \in ObjectVariable /\ <<"HmacStart", "hmac">> # TagStep
      /\ KindAt("sequence") = "sequence" /\ LoadingStep("sequence") = <<"HmacStart", "hmac">>
  BY LoadingSteps DEF ObjectVariable, TagStep, KindAt
<1>4. /\ SlotsOK(c)' /\ PresentOK(c)'
      /\ \A y \in Loadings' : y.owner = c =>
           y.handle = var'[c]["sequence"] \/ \E x \in Loadings : x.owner = c /\ x.handle = y.handle
      /\ \A h : Deferred(c, h) => Deferred(c, h)'
  BY <1>1, <1>2, <1>3, ObjectLoads
<1>5. Unreleased(c) = {}
  BY <1>1, LeakQuiet DEF LoadsOK, Quiet, LeakingCommands
<1>6. \A y \in Unreleased(c)' : y.handle = var'[c]["sequence"]
  BY <1>4, <1>5 DEF Unreleased
<1>7. todo'[c] # <<>> /\ NextStep(c)' \in {<<"SequenceUpdate", "sequence">>, <<"SequenceComplete", "sequence">>}
  BY <1>1, HmacNext
<1>8. InHmac(c, var[c]["sequence"])'
  BY <1>7 DEF InHmac, NextStep
<1>9. LeakOK(c)'
  BY <1>6, <1>7, <1>8 DEF LeakOK
<1> QED BY <1>4, <1>9 DEF LoadsOK

\* The deferred functions release the rest.
LEMMA UnwindLoads ==
  ASSUME HandleInv, NEW c \in Client, LoadsOK(c), DeferredFlush(c) \/ DeferredClose(c)
  PROVE  LoadsOK(c)'
<1>1. /\ Unwinding(c) /\ defers[c] # <<>> /\ defers' = [defers EXCEPT ![c] = Tail(@)]
      /\ UNCHANGED <<todo, var, outcome, call>>
  BY DEF DeferredFlush, DeferredClose
<1>2. todo[c] = <<>> /\ todo'[c] = <<>> /\ ~GoesOn(c)'
  BY <1>1 DEF Unwinding, GoesOn
<1>3. TypeOK /\ ClientOK(c)
  BY DEF HandleInv, IInv, ClientOK
<1>4. \A h : Deferred(c, h) /\ h # Head(defers[c]) => Deferred(c, h)'
  BY <1>1, <1>3, Popped
<1>5. objects' \subseteq objects /\ sessions' \subseteq sessions
  BY DEF DeferredFlush, DeferredClose, Flush, Remaining
<1>6. \A y \in Loadings' : y.owner = c => y.handle # Head(defers[c])
  <2>1. CASE DeferredClose(c)
    BY <1>3, <1>5, <2>1, LoadingHandle DEF DeferredClose, Loadings
  <2>2. CASE DeferredFlush(c) /\ Connected(c)
    BY <2>2 DEF DeferredFlush, Flush, Loadings
  <2>3. CASE ~Connected(c)
    <3>1. c \notin served
      BY <1>3, <2>3 DEF TypeOK, TPMTypeOK, Connected
    <3> QED BY <1>1, <1>5, <3>1 DEF HandleInv, OwnersOK, Loadings
  <2> QED BY <2>1, <2>2, <2>3
<1>7. \A y \in Unreleased(c)' : y \in Unreleased(c)
  BY <1>4, <1>5, <1>6 DEF Unreleased, Loadings
<1>8. LeakOK(c)'
  BY <1>1, <1>2, <1>7 DEF LoadsOK, LeakOK
<1> QED BY <1>2, <1>8 DEF LoadsOK, SlotsOK, PresentOK

\* What a call leaves behind when it is over is what it has not released.
LEMMA ReturnLoads ==
  ASSUME TypeOK, NEW c \in Client, LoadsOK(c), Returns(c)
  PROVE  LoadsOK(c)'
<1> PICK op, status : Ends(c, op, status)
  BY DEF Returns, ReturnError, ReturnKeys, ReturnAEAD, ReturnSealed, ReturnOpened
<1>1. /\ todo[c] = <<>> /\ todo'[c] = <<>> /\ outcome'[c].at = outcome[c].at
      /\ UNCHANGED <<objects, sessions, defers>>
  BY DEF Ends, Unwinding, tpmVars, TypeOK, OutcomeType
<1>2. Unreleased(c)' = Unreleased(c) /\ ~GoesOn(c)'
  BY <1>1 DEF Unreleased, Deferred, Loadings, GoesOn
<1>3. LeakOK(c)'
  BY <1>1, <1>2 DEF LoadsOK, LeakOK
<1> QED BY <1>2, <1>3 DEF LoadsOK, SlotsOK, PresentOK

\* A call starts with nothing, and so ends one that lost its connection.
LEMMA OrphanLoads ==
  ASSUME HandleInv, NEW c \in Client, Calls(c) \/ ConnectionLost(c) \/ Crash(c)
  PROVE  LoadsOK(c)'
<1>1. TypeOK /\ UniqueHandles /\ StackOK(c)
  BY DEF HandleInv, IInv
<1>2. objects' \subseteq Orphan(c, objects) /\ sessions' \subseteq Orphan(c, sessions) /\ ~Connected(c)'
  <2>1. CASE Calls(c)
    <3> PICK a, program : Start(c, a, program)
      BY <1>1, <2>1, CallStarts
    <3> QED BY <1>1, IdleReleased DEF Start, Connected
  <2>2. CASE ConnectionLost(c)
    BY <2>2 DEF ConnectionLost, Connected
  <2>3. CASE Crash(c)
    BY <2>3, RemainingOrphans DEF Crash, Connected
  <2> QED BY <2>1, <2>2, <2>3
<1>3. \A y \in Loadings' : y.owner # c
  BY <1>1, <1>2, OrphansInPlace
<1> QED BY <1>2, <1>3 DEF LoadsOK, LeakOK, SlotsOK, PresentOK, Unreleased, GoesOn

\* So what a client has loaded stays in order in all of its steps.
LEMMA OwnLoads ==
  ASSUME HandleInv, NEW c \in Client, LoadsOK(c), StepOf(c)
  PROVE  LoadsOK(c)'
<1>1. TypeOK
  BY DEF HandleInv, IInv
<1>2. CASE Calls(c) \/ ConnectionLost(c) \/ Crash(c)
  BY <1>2, OrphanLoads
<1>3. CASE LocalStep(c)
  <2>1. ASSUME NEW cmd \in {"CheckLengths", "CheckKeys", "CheckTag"}, NEW ok, NEW why, Check(c, cmd, ok, why)
        PROVE  LoadsOK(c)'
    BY <2>1, CheckLoads
  <2>2. CASE CheckLengths(c) \/ CheckTag(c)
    BY <2>1, <2>2 DEF CheckLengths, CheckTag
  <2>3. CASE CheckKeys(c)
    BY <2>1, <2>3, Zenon DEF CheckKeys
  <2> QED BY <1>3, <2>2, <2>3, DialLoads, DeferLoads DEF LocalStep
<1>4. CASE SessionCommand(c)
  BY <1>4, PlainLoads, StartAuthSessionLoads, PolicyLoads DEF SessionCommand
<1>5. CASE KeyCommand(c)
  BY <1>5, KeyLoads, PlainLoads, HmacStartLoads, SequenceUpdateLoads, SequenceCompleteLoads DEF KeyCommand
<1>6. CASE CommandRefused(c) \/ CommandLost(c) \/ CommandFault(c)
  BY <1>1, <1>6, CommandFailLoads
<1>7. CASE FlushContext(c) \/ DeferredFlush(c) \/ DeferredClose(c) \/ Returns(c)
  BY <1>1, <1>7, FlushContextLoads, UnwindLoads, ReturnLoads
<1>8. CASE Accept(c)
  <2>1. /\ UNCHANGED <<call, todo, defers, var, outcome, conns, events, objects, sessions>>
    BY <1>8 DEF Accept, AcceptConnection, callVars
  <2>2. \A y \in Loadings' : y \in Loadings
    BY <2>1 DEF Loadings
  <2>3. Kept(c)' => Kept(c)
    BY <2>1 DEF Kept, NoClear, Calm
  <2> QED BY <2>1, <2>2, <2>3, LoadsLeft
<1> QED BY <1>2, <1>3, <1>4, <1>5, <1>6, <1>7, <1>8 DEF StepOf, Advance

-----------------------------------------------------------------------------
(* What the device refuses. *)

\* The reason for which a call fails is the one it is failed with.
LEMMA FailWhy ==
  ASSUME TypeOK, NEW c \in Client, NEW why, Fail(c, why)
  PROVE  outcome'[c].why = why
<1> DEFINE o == [outcome[c] EXCEPT !.why = why, !.at = NextStep(c)[1]]
<1>1. outcome' = [outcome EXCEPT ![c] = o]
  BY DEF Fail
<1>2. o.why = why
  BY DEF TypeOK, OutcomeType
<1> HIDE DEF o
<1> QED BY <1>1, <1>2 DEF TypeOK

\* A call's outcome names one of the device's reasons when the device, serving
\* the call, refuses its command for that reason.
LEMMA WhyRefused ==
  ASSUME TypeOK, NEW c \in Client, StepOf(c), outcome'[c].why # outcome[c].why, outcome'[c].why \in Reason
  PROVE  Running(c) /\ todo[c] # <<>> /\ Served(c) /\ Refused(c, outcome'[c].why)
<1>1. outcome' # outcome
  OBVIOUS
<1>2. CASE Calls(c)
  <2> PICK a, program : Start(c, a, program)
    BY <1>2, CallStarts
  <2>1. outcome'[c].why = "none"
    BY DEF Start, TypeOK
  <2> QED BY <2>1 DEF Reason
<1>3. CASE LocalStep(c)
  <2>1. ASSUME NEW cmd, NEW ok, NEW why, why \notin Reason, Check(c, cmd, ok, why) PROVE FALSE
    <3>1. Fail(c, why)
      BY <1>1, <2>1 DEF Check
    <3> QED BY <2>1, <3>1, FailWhy
  <2>2. CASE CheckLengths(c) \/ CheckTag(c)
    BY <2>1, <2>2 DEF CheckLengths, CheckTag, Reason
  <2>3. CASE CheckKeys(c)
    <3>1. "nil key" \notin Reason
      BY Zenon DEF Reason
    <3> QED BY <2>1, <2>3, <3>1, Zenon DEF CheckKeys
  <2>4. CASE Dial(c) \/ Defer(c)
    BY <1>1, <2>4 DEF Dial, Defer
  <2> QED BY <1>3, <2>2, <2>3, <2>4 DEF LocalStep
<1>4. CASE SessionCommand(c)
  BY <1>1, <1>4 DEF SessionCommand, PolicyGetDigest, StartAuthSession, PolicyPCR, PolicyAuthValue, Executes
<1>5. CASE KeyCommand(c)
  BY <1>1, <1>5 DEF KeyCommand, CreatePrimary, Create, Load, EncryptDecrypt2, ReadPublic, HmacStart,
     SequenceUpdate, SequenceComplete, Executes
<1>6. CASE FlushContext(c) \/ DeferredFlush(c) \/ DeferredClose(c) \/ Accept(c) \/ ConnectionLost(c)
  BY <1>1, <1>6, CutOutcome DEF FlushContext, DeferredFlush, DeferredClose, Accept, callVars
<1>7. CASE CommandRefused(c)
  <2> PICK why \in Reason : Refused(c, why) /\ Fail(c, why)
    BY <1>7 DEF CommandRefused
  <2>1. outcome'[c].why = why
    BY FailWhy
  <2> QED BY <1>7, <2>1 DEF CommandRefused
<1>8. CASE CommandLost(c) \/ CommandFault(c)
  <2>1. Fail(c, "transport") \/ Fail(c, "fault")
    BY <1>8 DEF CommandLost, CommandFault
  <2>2. outcome'[c].why \in {"transport", "fault"}
    BY <2>1, FailWhy
  <2> QED BY <2>2 DEF Reason
<1>9. CASE Returns(c)
  <2> PICK op, status : Ends(c, op, status)
    BY <1>9 DEF Returns, ReturnError, ReturnKeys, ReturnAEAD, ReturnSealed, ReturnOpened
  <2>1. outcome'[c].why = outcome[c].why
    BY DEF Ends, TypeOK, OutcomeType
  <2> QED BY <2>1
<1>10. CASE Crash(c)
  <2> DEFINE o == [outcome[c] EXCEPT !.status = "failed", !.why = "crash", !.at = "none",
                             !.cut = TRUE]
  <2>1. outcome' = [outcome EXCEPT ![c] = o]
    BY <1>10 DEF Crash
  <2>2. o.why = "crash"
    BY DEF TypeOK, OutcomeType
  <2> HIDE DEF o
  <2>3. outcome'[c].why = "crash"
    BY <2>1, <2>2 DEF TypeOK
  <2> QED BY <2>3 DEF Reason
<1> QED BY <1>2, <1>3, <1>4, <1>5, <1>6, <1>7, <1>8, <1>9, <1>10 DEF StepOf, Advance

\* A call learns why it failed only from the command that was refused.
LEMMA Refusal ==
  ASSUME TypeOK, [Next]_vars, NEW c \in Client, outcome'[c].why # outcome[c].why, outcome'[c].why \in Reason
  PROVE  Running(c) /\ todo[c] # <<>> /\ Served(c) /\ Refused(c, outcome'[c].why)
<1>1. ASSUME NEW d \in Client, StepOf(d) PROVE d = c
  BY <1>1, OthersApart
<1>2. ~(Restart \/ ExtendPCR \/ ChangeOwnerAuth \/ Clear) /\ ~UNCHANGED vars
  BY DEF Restart, ExtendPCR, ChangeOwnerAuth, Clear, vars, callVars
<1>3. StepOf(c)
  BY <1>1, <1>2 DEF Next, Environment, StepOf
<1> QED BY <1>3, WhyRefused

\* What a call names is there.
LEMMA NotRefused ==
  ASSUME HandleInv, NEW c \in Client, PresentOK(c), Kept(c), Running(c), todo[c] # <<>>, Served(c)
  PROVE  ~Refused(c, "handle")
<1> DEFINE cmd == NextStep(c)[1]
           v == NextStep(c)[2]
<1>1. AtStep(c, cmd, v)
  <2>1. NextStep(c) \in Step
    BY StepOfFunction DEF HandleInv, IInv, ClientOK
  <2> QED BY <2>1 DEF AtStep, Step
<1>2. Finds(c, cmd, v)
  BY <1>1, NamedInUse
<1>3. GoesOn(c)
  BY DEF HandleInv, IInv, TypeOK, TPMTypeOK, GoesOn, Served, Connected
<1>4. /\ \A u \in ObjectVariable : InUse(c, u) => Loaded(c, u, KindAt(u)) # {}
      /\ \A u \in SessionVariable : InUse(c, u) => OpenSession(c, u) # {}
  BY <1>3 DEF PresentOK
<1>5. /\ KindAt("primary") = "primary" /\ KindAt("sequence") = "sequence"
      /\ KindAt("aes") = "key" /\ KindAt("hmac") = "key"
      /\ {"primary", "aes", "hmac", "sequence"} \subseteq ObjectVariable
      /\ {SessionOf["aes"], SessionOf["hmac"]} \subseteq SessionVariable
  BY DEF KindAt, ObjectVariable, SessionVariable, SessionOf
<1> HIDE DEF cmd, v
<1>6. ~(cmd \in {"Create", "Load"} /\ Loaded(c, "primary", "primary") = {})
  BY <1>2, <1>4, <1>5 DEF Finds
<1>7. ~(cmd \in UsesKey \union {"ReadPublic"} /\ Loaded(c, v, "key") = {})
  BY <1>2, <1>4, <1>5 DEF Finds
<1>8. ~(cmd \in UsesKey /\ OpenSession(c, SessionOf[v]) = {})
  BY <1>2, <1>4, <1>5 DEF Finds
<1>9. ~(cmd \in {"SequenceUpdate", "SequenceComplete"} /\ Loaded(c, v, "sequence") = {})
  BY <1>2, <1>4, <1>5 DEF Finds
<1>10. ~(cmd \in {"PolicyPCR", "PolicyAuthValue", "PolicyGetDigest"} /\ OpenSession(c, v) = {})
  BY <1>2, <1>4 DEF Finds
<1> QED BY <1>6, <1>7, <1>8, <1>9, <1>10 DEF Refused, cmd, v

-----------------------------------------------------------------------------
(* The invariant. *)

\* Nothing is loaded at the start.
LEMMA InitLoads == Init => LoadInv
<1> SUFFICES ASSUME Init PROVE LoadInv
  OBVIOUS
<1>1. \A c \in Client : SinceOK(c) /\ outcome[c].why # "handle"
  BY DEF Init, SinceOK
<1>2. ASSUME NEW c \in Client PROVE LeakOK(c) /\ SlotsOK(c) /\ PresentOK(c)
  <2>1. todo[c] = <<>> /\ Loadings = {}
    BY DEF Init, InitTPM, Loadings
  <2> QED BY <2>1 DEF LeakOK, SlotsOK, PresentOK, Unreleased, GoesOn
<1> QED BY <1>1, <1>2 DEF LoadInv

\* No step breaks the invariant of the loads.
LEMMA NextLoads == HandleInv /\ LoadInv /\ [Next]_vars => LoadInv'
<1> SUFFICES ASSUME HandleInv, LoadInv, [Next]_vars PROVE LoadInv'
  OBVIOUS
<1>1. TypeOK /\ \A c \in Client : LoadsOK(c) /\ SinceOK(c)
  BY DEF LoadInv, LoadsOK, HandleInv, IInv
<1>2. ASSUME NEW c \in Client, Kept(c)', outcome'[c].why = "handle" PROVE FALSE
  <2>1. outcome'[c].since = outcome[c].since
    <3>1. CASE StepOf(c)
      BY <1>1, <1>2, <3>1, OwnSince
    <3>2. ASSUME NEW d \in Client \ {c}, StepOf(d) PROVE outcome'[c] = outcome[c]
      BY <1>1, <3>2, OthersApart
    <3>3. CASE Restart \/ ExtendPCR \/ ChangeOwnerAuth \/ Clear \/ UNCHANGED vars
      BY <3>3 DEF Restart, ExtendPCR, ChangeOwnerAuth, Clear, vars, callVars
    <3> QED BY <3>1, <3>2, <3>3 DEF Next, Environment, StepOf
  <2>2. Kept(c)
    BY <1>1, <1>2, <2>1, CalmBefore
  <2>3. outcome[c].why # "handle"
    BY <2>2 DEF LoadInv
  <2>4. Running(c) /\ todo[c] # <<>> /\ Served(c) /\ Refused(c, "handle")
    BY <1>1, <1>2, <2>3, Refusal DEF Reason
  <2> QED BY <1>1, <2>2, <2>4, NotRefused DEF LoadsOK
<1>3. ASSUME NEW c \in Client PROVE SinceOK(c)'
  BY <1>1, NextSince
<1>4. ASSUME NEW c \in Client PROVE LoadsOK(c)'
  <2>1. ASSUME NEW d \in Client, StepOf(d) PROVE LoadsOK(c)'
    BY <1>1, <2>1, OwnLoads, OthersLoads
  <2>2. CASE Restart \/ ExtendPCR \/ ChangeOwnerAuth \/ Clear
    BY <1>1, <2>2, DeviceLoads
  <2>3. CASE UNCHANGED vars
    <3>1. UNCHANGED <<call, todo, defers, var, outcome, conns, events, objects, sessions>>
      BY <2>3 DEF vars, callVars, tpmVars
    <3>2. \A y \in Loadings' : y \in Loadings
      BY <3>1 DEF Loadings
    <3>3. Kept(c)' => Kept(c)
      BY <3>1 DEF Kept, NoClear, Calm
    <3> QED BY <1>1, <3>1, <3>2, <3>3, LoadsLeft
  <2> QED BY <2>1, <2>2, <2>3 DEF Next, Environment, StepOf
<1> QED BY <1>1, <1>2, <1>3, <1>4 DEF LoadInv, LoadsOK

-----------------------------------------------------------------------------
(* What callers can rely on. *)

\* What a running call has loaded is at the handles it kept, each in use, and
\* all but one of it is deferred or will be.
THEOREM LoadInvariant == Spec => []LoadInv
BY InitHandles, NextHandles, InitLoads, NextLoads, PTL DEF Spec

\* A call that is over and was not cut off from the device has left at most one
\* thing behind, and only if it failed while it made a session or computed an
\* HMAC.
THEOREM LeaksOnlyOne == Spec => []LeaksAtMostOne
<1>1. ASSUME HandleInv, LoadInv PROVE LeaksAtMostOne
  <2> SUFFICES ASSUME NEW c \in Client, Idle(c), NEW x \in Loadings, x.owner = c
               PROVE  /\ outcome[c].at \in LeakingCommands
                      /\ \A y \in Loadings : y.owner = c => y = x
    <3>1. (\A c \in Client : Idle(c) =>
              \/ {x \in Loadings : x.owner = c} = {}
              \/ outcome[c].at \in LeakingCommands /\ Cardinality({x \in Loadings : x.owner = c}) = 1)
          => LeaksAtMostOne
      BY DEF LeaksAtMostOne, LeakingCommands, Loadings
    <3>2. ASSUME NEW c \in Client, Idle(c), {x \in Loadings : x.owner = c} # {}
          PROVE  outcome[c].at \in LeakingCommands /\ Cardinality({x \in Loadings : x.owner = c}) = 1
      <4> PICK x \in Loadings : x.owner = c
        BY <3>2
      <4>1. {y \in Loadings : y.owner = c} = {x}
        BY <3>2
      <4> QED BY <3>2, <4>1, FS_Singleton
    <3> QED BY <3>1, <3>2
  <2>1. /\ LeakOK(c) /\ TypeOK /\ UniqueHandles
        /\ todo[c] = <<>> /\ defers[c] = <<>>
    BY <1>1, IdleReleased DEF LoadInv, HandleInv, IInv, OrderOK
  <2>2. \A y \in Loadings : y.owner = c => y \in Unreleased(c)
    BY <2>1 DEF Unreleased, Deferred
  <2>3. \A y \in Loadings : y.owner = c => y.handle = x.handle
    BY <2>1, <2>2 DEF LeakOK
  <2>4. \A o \in objects, s \in sessions : o.handle # s.handle
    BY <2>1, LoadingHandle, HandleShape
  <2>5. \A y \in Loadings : y.handle = x.handle => y = x
    BY <2>1, <2>4 DEF UniqueHandles, Loadings
  <2>6. outcome[c].at \in LeakingCommands
    BY <2>1, <2>2 DEF LeakOK
  <2> QED BY <2>3, <2>5, <2>6
<1>2. DataInv => HandleInv
  BY DEF DataInv
<1> QED BY <1>1, <1>2, DataInvariant, LoadInvariant, PTL

\* A call finds everything it has loaded under the handles it kept, unless
\* someone may clear the TPM behind a resource manager's back.
THEOREM HandlesStay == ASSUME NoClear PROVE Spec => []HandlesStayValid
<1>1. LoadInv => HandlesStayValid
  BY DEF LoadInv, Kept, HandlesStayValid
<1> QED BY <1>1, LoadInvariant, PTL

\* When all that is loaded belongs to calls that hold a connection, what is at
\* the handles of a served call's space is its own, in variables in use.
LEMMA SpaceOwn ==
  ASSUME HandleInv, LoadInv, NEW c \in Client, Running(c), todo[c] # <<>>, Served(c), NEW x \in Loadings,
         x.handle \in Own(c), x.owner \in conns
  PROVE  \E v \in Variable : x.handle = var[c][v] /\ InUse(c, v)
<1> DEFINE d == x.owner
<1>1. HandleInv /\ TypeOK /\ SlotsOK(c)
  BY DEF LoadInv, HandleInv, IInv
<1>2. d \in Client
  BY <1>1 DEF TypeOK, TPMTypeOK
<1>3. defers[d] # <<>>
  BY <1>1, <1>2 DEF HandleInv, IInv, StackOK, Connected, Deferred
<1>4. x.handle \in Own(d) /\ d \in served
  BY <1>1, <1>2, <1>3 DEF HandleInv, OwnersOK
<1>5. d = c
  <2>1. CASE Transport = "socket"
    BY <1>1, <1>4, <2>1 DEF HandleInv, OneServed, Served
  <2>2. CASE Transport = "rm"
    BY <1>2, <1>4, <2>2, OwnApart
  <2> QED BY <2>1, <2>2, TransportAssumption
<1>6. GoesOn(c)
  BY <1>1 DEF TypeOK, TPMTypeOK, GoesOn, Served, Connected
<1> QED BY <1>1, <1>5, <1>6 DEF SlotsOK

\* Such a call is not out of slots.
LEMMA SlotsLeft ==
  ASSUME ObjectSlots >= 3, SessionSlots >= 1, HandleInv, LoadInv, NEW c \in Client, Running(c), todo[c] # <<>>,
         Served(c), \A x \in Loadings : x.owner \in conns
  PROVE  ~Refused(c, "memory")
<1> DEFINE cmd == NextStep(c)[1]
           v == NextStep(c)[2]
<1>1. HandleInv /\ AtStep(c, cmd, v)
  <2>1. NextStep(c) \in Step
    BY StepOfFunction DEF LoadInv, HandleInv, IInv, ClientOK
  <2> QED BY <2>1 DEF AtStep, Step, LoadInv
<1>2. /\ cmd \in Loads => \A w \in ObjectVariable : InUse(c, w) => w \in {"primary", "hmac"}
      /\ cmd = "StartAuthSession" => \A w \in SessionVariable : ~InUse(c, w)
  BY <1>1, UseAtLoads
<1>3. /\ \A h \in ObjectHandlesOf(c) : h[1] = "object" /\ h # NoHandle
      /\ \A h \in SessionHandlesOf(c) : h[1] = "session" /\ h # NoHandle
  BY HandleShape DEF Own, NoHandle
<1>4. /\ \A w \in ObjectVariable : var[c][w] \in ObjectHandlesOf(c) \union {NoHandle}
      /\ \A w \in SessionVariable : var[c][w] \in SessionHandlesOf(c) \union {NoHandle}
  BY <1>1 DEF HandleInv, HandlesOK
<1> HIDE DEF cmd, v
<1>5. ASSUME cmd \in Loads, FreeObjectHandles(c) = {} PROVE FALSE
  <2>1. \A h \in ObjectHandlesOf(c) : h \in {var[c]["primary"], var[c]["hmac"]}
    <3> SUFFICES ASSUME NEW h \in ObjectHandlesOf(c) PROVE h \in {var[c]["primary"], var[c]["hmac"]}
      OBVIOUS
    <3> PICK o \in objects : o.handle = h
      BY <1>5 DEF FreeObjectHandles
    <3> PICK w \in Variable : h = var[c][w] /\ InUse(c, w)
      BY SpaceOwn DEF Own, Loadings
    <3>1. w \notin SessionVariable
      BY <1>3, <1>4
    <3> QED BY <1>2, <1>5, <3>1 DEF Variable
  <2>2. \A i \in 1..3 : <<"object", SpaceOf(c), i>> \in ObjectHandlesOf(c)
    BY SlotAssumption DEF ObjectHandlesOf
  <2>3. \A i \in 1..3 : <<"object", SpaceOf(c), i>> \in {var[c]["primary"], var[c]["hmac"]}
    BY <2>1, <2>2
  <2> DEFINE h1 == <<"object", SpaceOf(c), 1>>
             h2 == <<"object", SpaceOf(c), 2>>
             h3 == <<"object", SpaceOf(c), 3>>
  <2>4. h1 # h2 /\ h1 # h3 /\ h2 # h3
    OBVIOUS
  <2>5. {h1, h2, h3} \subseteq {var[c]["primary"], var[c]["hmac"]}
    BY <2>3
  <2> HIDE DEF h1, h2, h3
  <2> QED BY <2>4, <2>5
<1>6. ASSUME cmd = "StartAuthSession", FreeSessionHandles(c) = {} PROVE FALSE
  <2> DEFINE h == <<"session", SpaceOf(c), 1>>
  <2>1. h \in SessionHandlesOf(c)
    BY SlotAssumption DEF SessionHandlesOf
  <2> HIDE DEF h
  <2> PICK s \in sessions : s.handle = h
    BY <1>6, <2>1 DEF FreeSessionHandles
  <2> PICK w \in Variable : h = var[c][w] /\ InUse(c, w)
    BY <2>1, SpaceOwn DEF Own, Loadings
  <2>2. w \in SessionVariable
    BY <1>3, <1>4, <2>1 DEF Variable
  <2> QED BY <1>2, <1>6, <2>2
<1> QED BY <1>5, <1>6 DEF Refused, cmd, v

\* Three object slots and one session slot are enough for any call, as long as
\* everything loaded belongs to calls that still hold their connections.
THEOREM SlotsAreEnough ==
  ASSUME ObjectSlots >= 3, SessionSlots >= 1
  PROVE  Spec => SlotsSuffice
<1> DEFINE Enough ==
      \A c \in Client : outcome[c].why = "none" /\ outcome'[c].why = "memory" =>
        \E x \in objects \union sessions : x.owner \notin conns
<1>1. HandleInv /\ LoadInv /\ [Next]_vars => [Enough]_vars
  <2> SUFFICES ASSUME HandleInv, LoadInv, [Next]_vars, NEW c \in Client,
                      outcome[c].why = "none", outcome'[c].why = "memory",
                      \A x \in Loadings : x.owner \in conns
               PROVE  FALSE
    BY DEF Loadings
  <2>1. Running(c) /\ todo[c] # <<>> /\ Served(c) /\ Refused(c, "memory")
    BY Refusal DEF LoadInv, HandleInv, IInv, Reason
  <2> QED BY <2>1, SlotsLeft
<1>2. DataInv => HandleInv
  BY DEF DataInv
<1>3. Spec => [][Enough]_vars
  BY <1>1, <1>2, DataInvariant, LoadInvariant, PTL DEF Spec
<1> QED BY <1>3 DEF SlotsSuffice

-----------------------------------------------------------------------------
(* What connections answer for. *)

\* A connection stays until its call closes or loses it.
LEMMA ConnectionsStay ==
  ASSUME TypeOK, NEW d \in Client, StepOf(d), ~DeferredClose(d), ~ConnectionLost(d), ~Crash(d)
  PROVE  conns \subseteq conns'
<1>1. CASE Calls(d)
  <2> PICK a, program : Start(d, a, program)
    BY <1>1, CallStarts
  <2> QED BY DEF Start
<1>2. ASSUME NEW why, Fail(d, why) PROVE conns' = conns
  BY <1>2 DEF Fail, tpmVars
<1>3. CASE LocalStep(d)
  <2>1. ASSUME NEW cmd, NEW ok, NEW why, Check(d, cmd, ok, why) PROVE conns' = conns
    BY <2>1 DEF Check, Fail, tpmVars
  <2>2. CASE CheckLengths(d) \/ CheckTag(d)
    BY <2>1, <2>2 DEF CheckLengths, CheckTag
  <2>3. CASE CheckKeys(d)
    BY <2>1, <2>3, Zenon DEF CheckKeys
  <2>4. CASE Dial(d) \/ Defer(d)
    BY <2>4 DEF Dial, Connect, Defer, tpmVars
  <2> QED BY <1>3, <2>2, <2>3, <2>4 DEF LocalStep
<1>4. CASE SessionCommand(d) \/ KeyCommand(d)
  <2>1. \E cmd, v : Executes(d, cmd, v)
    BY <1>4 DEF SessionCommand, KeyCommand, PolicyGetDigest, StartAuthSession, PolicyPCR, PolicyAuthValue,
       CreatePrimary, Create, Load, EncryptDecrypt2, ReadPublic, HmacStart, SequenceUpdate, SequenceComplete
  <2> QED BY <2>1 DEF Executes
<1>5. CASE CommandRefused(d) \/ CommandLost(d) \/ CommandFault(d)
  BY <1>2, <1>5, Zenon DEF CommandRefused, CommandLost, CommandFault
<1>6. CASE FlushContext(d) \/ DeferredFlush(d) \/ Accept(d)
  BY <1>6 DEF FlushContext, DeferredFlush, Accept, AcceptConnection
<1>7. CASE Returns(d)
  <2> PICK op, status : Ends(d, op, status)
    BY <1>7 DEF Returns, ReturnError, ReturnKeys, ReturnAEAD, ReturnSealed, ReturnOpened
  <2> QED BY DEF Ends, tpmVars
<1> QED BY <1>1, <1>3, <1>4, <1>5, <1>6, <1>7 DEF StepOf, Advance

\* Closing a connection to a resource manager leaves nothing of its call.
LEMMA NothingRemains ==
  ASSUME HandleInv, Transport = "rm", NEW d \in Client, \A x \in Loadings : x.owner \in conns,
         \/ objects' = Remaining(d, objects) /\ sessions' = Remaining(d, sessions)
         \/ objects' = Remaining(d, Orphan(d, objects)) /\ sessions' = Remaining(d, Orphan(d, sessions))
  PROVE  \A y \in Loadings' : y.owner \in conns \ {d}
<1>1. TypeOK /\ objects \subseteq Object /\ sessions \subseteq Session
  BY DEF HandleInv, IInv, TypeOK, TPMTypeOK
<1>2. \A x \in Loadings : x.owner = d => x.handle[2] = d
  <2> SUFFICES ASSUME NEW x \in Loadings, x.owner = d PROVE x.handle[2] = d
    OBVIOUS
  <2>1. x.handle \in Own(d)
    BY DEF HandleInv, OwnersOK
  <2> QED BY <2>1, HandleShape DEF Own, SpaceOf
<1>3. CASE objects' = Remaining(d, objects) /\ sessions' = Remaining(d, sessions)
  BY <1>2, <1>3 DEF Remaining, Loadings
<1>4. CASE objects' = Remaining(d, Orphan(d, objects)) /\ sessions' = Remaining(d, Orphan(d, sessions))
  <2> DEFINE O(x) == [x EXCEPT !.owner = NoClient]
  <2>1. \A x \in Loadings : O(x).handle = x.handle
    BY <1>1 DEF Object, Session, Loadings
  <2>2. \A y \in Loadings' : y.handle[2] # d /\ \E x \in Loadings : y = IF x.owner = d THEN O(x) ELSE x
    BY <1>4 DEF Remaining, Orphan, Loadings
  <2> HIDE DEF O
  <2> QED BY <1>2, <2>1, <2>2
<1> QED BY <1>3, <1>4

\* What is loaded with a resource manager is always someone's who is connected.
LEMMA NextOwned ==
  ASSUME HandleInv, RMOK, [Next]_vars
  PROVE  RMOK'
<1> SUFFICES ASSUME Transport = "rm" PROVE \A y \in Loadings' : y.owner \in conns'
  BY DEF RMOK
<1>1. TypeOK /\ conns \subseteq Client /\ served \subseteq conns /\ \A x \in Loadings : x.owner \in conns
  BY DEF HandleInv, IInv, TypeOK, TPMTypeOK, RMOK
<1>2. ASSUME NEW d \in Client, StepOf(d) PROVE \A y \in Loadings' : y.owner \in conns'
  <2>1. CASE Calls(d)
    <3> PICK a, program : Start(d, a, program)
      BY <1>1, <2>1, CallStarts
    <3>1. d \notin conns
      BY <1>1, IdleReleased DEF Start, HandleInv, IInv, Connected
    <3>2. \A y \in Loadings' : y \in Loadings
      BY <1>1, <3>1 DEF Start, Orphan, Loadings
    <3> QED BY <1>1, <3>2 DEF Start
  <2>2. CASE DeferredClose(d)
    <3>1. CASE d \in conns
      BY <1>1, <2>2, <3>1, NothingRemains DEF DeferredClose, Connected
    <3>2. CASE d \notin conns
      BY <1>1, <2>2, <3>2 DEF DeferredClose, Connected, Loadings
    <3> QED BY <3>1, <3>2
  <2>3. CASE Crash(d)
    BY <1>1, <2>3, NothingRemains DEF Crash
  <2>4. ~ConnectionLost(d)
    BY DEF ConnectionLost
  <2>5. CASE ~Calls(d) /\ ~DeferredClose(d) /\ ~Crash(d)
    <3>1. conns \subseteq conns'
      BY <1>1, <1>2, <2>4, <2>5, ConnectionsStay
    <3>2. \A y \in Loadings' : (\E x \in Loadings : y.owner = x.owner) \/ (y.owner = d /\ d \in served)
      BY <1>2, <2>4, <2>5, StepEffect
    <3> QED BY <1>1, <3>1, <3>2
  <2> QED BY <2>1, <2>2, <2>3, <2>5
<1>3. CASE Restart \/ ExtendPCR \/ ChangeOwnerAuth \/ Clear
  BY <1>1, <1>3 DEF Restart, ExtendPCR, ChangeOwnerAuth, Clear, Loadings
<1>4. CASE UNCHANGED vars
  BY <1>1, <1>4 DEF vars, tpmVars, Loadings
<1> QED BY <1>2, <1>3, <1>4 DEF Next, Environment, StepOf

-----------------------------------------------------------------------------
(* How a call goes on, or fails. *)

Goes(c, cmd, v) ==
  /\ AtStep(c, cmd, v) /\ Proceed(c) /\ UNCHANGED <<call, outcome, events>>
  /\ IF cmd = "Dial" THEN c \in conns' ELSE conns' = conns

\* The step fails for this reason.
FailsOf(c, why) ==
  \/ why = "length" /\ AtStep(c, "CheckLengths", "none") /\ ~LengthsOK(call[c])
  \/ why = "nil key" /\ AtStep(c, "CheckKeys", "none") /\ ~KeysOK(call[c])
  \/ why = "tag" /\ AtStep(c, "CheckTag", "none") /\ work[c].tag # call[c].tag
  \/ why \in Reason /\ Served(c) /\ Refused(c, why)
  \/ why = "transport" /\ ~Connected(c) /\ NextStep(c)[1] \notin LocalCommand
  \/ why = "fault" /\ events' = events + 1

Fails(c, why) == Running(c) /\ todo[c] # <<>> /\ Fail(c, why) /\ FailsOf(c, why)

Unwinds(c) ==
  /\ Unwinding(c) /\ UNCHANGED <<call, todo, work, events>>
  /\ outcome'[c].why = outcome[c].why

\* No step of a client changes the PCRs or the hierarchy.
LEMMA WorldStays ==
  ASSUME TypeOK, NEW c \in Client, StepOf(c)
  PROVE  UNCHANGED <<pcr, hier>>
<1> DEFINE Same == pcr' = pcr /\ hier' = hier
<1>1. ASSUME NEW why, Fail(c, why) PROVE Same
  BY <1>1 DEF Fail, tpmVars
<1>2. CASE Calls(c)
  <2> PICK a, program : Start(c, a, program)
    BY <1>2, CallStarts
  <2> QED BY DEF Start
<1>3. CASE LocalStep(c)
  <2>1. ASSUME NEW cmd, NEW ok, NEW why, Check(c, cmd, ok, why) PROVE Same
    BY <1>1, <2>1 DEF Check, tpmVars
  <2>2. CASE CheckLengths(c) \/ CheckTag(c)
    BY <2>1, <2>2 DEF CheckLengths, CheckTag
  <2>3. CASE CheckKeys(c)
    BY <2>1, <2>3, Zenon DEF CheckKeys
  <2>4. CASE Dial(c) \/ Defer(c)
    BY <2>4 DEF Dial, Defer, tpmVars
  <2> QED BY <1>3, <2>2, <2>3, <2>4 DEF LocalStep
<1>4. CASE SessionCommand(c) \/ KeyCommand(c)
  <2>1. \E cmd, v : Executes(c, cmd, v)
    BY <1>4 DEF SessionCommand, KeyCommand, PolicyGetDigest, StartAuthSession, PolicyPCR, PolicyAuthValue,
       CreatePrimary, Create, Load, EncryptDecrypt2, ReadPublic, HmacStart, SequenceUpdate, SequenceComplete
  <2> QED BY <2>1 DEF Executes
<1>5. CASE CommandRefused(c) \/ CommandLost(c) \/ CommandFault(c)
  BY <1>1, <1>5, Zenon DEF CommandRefused, CommandLost, CommandFault
<1>6. CASE FlushContext(c) \/ DeferredFlush(c) \/ DeferredClose(c)
  BY <1>6 DEF FlushContext, DeferredFlush, DeferredClose
<1>7. CASE Accept(c) \/ ConnectionLost(c) \/ Crash(c)
  BY <1>7 DEF Accept, AcceptConnection, ConnectionLost, Crash
<1>8. CASE Returns(c)
  <2> PICK op, status : Ends(c, op, status)
    BY <1>8 DEF Returns, ReturnError, ReturnKeys, ReturnAEAD, ReturnSealed, ReturnOpened
  <2> QED BY DEF Ends, tpmVars
<1> QED BY <1>2, <1>3, <1>4, <1>5, <1>6, <1>7, <1>8 DEF StepOf, Advance

\* What the steps of a running call are.
LEMMA StepKinds ==
  ASSUME TypeOK, NEW c \in Client, StepOf(c), ~Calls(c)
  PROVE  \/ \E cmd, v : Goes(c, cmd, v)
         \/ \E why : Fails(c, why)
         \/ Unwinds(c)
         \/ Accept(c) \/ ConnectionLost(c) \/ Crash(c)
<1>1. CASE LocalStep(c)
  <2>1. CASE CheckLengths(c)
    <3>1. CASE LengthsOK(call[c])
      BY <2>1, <3>1 DEF CheckLengths, Check, Goes, tpmVars
    <3>2. CASE ~LengthsOK(call[c])
      <4>1. Fails(c, "length")
        BY <2>1, <3>2 DEF CheckLengths, Check, Fails, FailsOf, AtStep
      <4> QED BY <4>1
    <3> QED BY <3>1, <3>2
  <2>2. CASE CheckKeys(c)
    <3>1. CASE KeysOK(call[c])
      <4>1. Goes(c, "CheckKeys", "none")
        BY <2>2, <3>1, Zenon DEF CheckKeys, Check, Goes, tpmVars
      <4> QED BY <4>1
    <3>2. CASE ~KeysOK(call[c])
      <4>1. AtStep(c, "CheckKeys", "none") /\ Fail(c, "nil key")
        BY <2>2, <3>2, Zenon DEF CheckKeys, Check
      <4>2. Fails(c, "nil key")
        BY <3>2, <4>1, Zenon DEF Fails, FailsOf, AtStep
      <4> QED BY <4>2, Zenon
    <3> QED BY <3>1, <3>2
  <2>3. CASE CheckTag(c)
    <3>1. CASE work[c].tag = call[c].tag
      BY <2>3, <3>1 DEF CheckTag, Check, Goes, tpmVars
    <3>2. CASE work[c].tag # call[c].tag
      <4>1. Fails(c, "tag")
        BY <2>3, <3>2 DEF CheckTag, Check, Fails, FailsOf, AtStep
      <4> QED BY <4>1
    <3> QED BY <3>1, <3>2
  <2>4. CASE Dial(c)
    <3>1. Goes(c, "Dial", "none")
      BY <2>4 DEF Dial, Connect, Goes
    <3> QED BY <3>1
  <2>5. CASE Defer(c)
    <3>1. PICK v : Goes(c, "Defer", v)
      BY <2>5 DEF Defer, Goes, tpmVars
    <3> QED BY <3>1
  <2> QED BY <1>1, <2>1, <2>2, <2>3, <2>4, <2>5 DEF LocalStep
<1>2. CASE SessionCommand(c) \/ KeyCommand(c)
  <2>1. \E cmd, v : cmd # "Dial" /\ Executes(c, cmd, v)
    BY <1>2 DEF SessionCommand, KeyCommand, PolicyGetDigest, StartAuthSession, PolicyPCR, PolicyAuthValue,
       CreatePrimary, Create, Load, EncryptDecrypt2, ReadPublic, HmacStart, SequenceUpdate, SequenceComplete
  <2> QED BY <2>1 DEF Executes, Goes
<1>3. CASE CommandRefused(c)
  <2>1. PICK why \in Reason : Refused(c, why) /\ Fail(c, why)
    BY <1>3, Zenon DEF CommandRefused
  <2>2. Fails(c, why)
    BY <1>3, <2>1, Zenon DEF CommandRefused, Fails, FailsOf
  <2> QED BY <2>2
<1>4. CASE CommandLost(c)
  <2>1. Fails(c, "transport")
    BY <1>4 DEF CommandLost, Fails, FailsOf
  <2> QED BY <2>1
<1>5. CASE CommandFault(c)
  <2>1. Fails(c, "fault")
    BY <1>5, Zenon DEF CommandFault, Happens, Fails, FailsOf
  <2> QED BY <2>1
<1>6. CASE FlushContext(c)
  <2>1. PICK v : Goes(c, "FlushContext", v)
    BY <1>6 DEF FlushContext, Goes
  <2> QED BY <2>1
<1>7. CASE DeferredFlush(c) \/ DeferredClose(c)
  BY <1>7 DEF DeferredFlush, DeferredClose, Unwinds
<1>8. CASE Returns(c)
  <2> PICK op, status : Ends(c, op, status)
    BY <1>8 DEF Returns, ReturnError, ReturnKeys, ReturnAEAD, ReturnSealed, ReturnOpened
  <2> QED BY DEF Ends, Unwinds, TypeOK, OutcomeType
<1> QED BY <1>1, <1>2, <1>3, <1>4, <1>5, <1>6, <1>7, <1>8 DEF StepOf, Advance

\* Something that happens ends the calm.
LEMMA NotCalm ==
  ASSUME TypeOK, NEW c \in Client, SinceOK(c), events' = events + 1, outcome'[c].since = outcome[c].since
  PROVE  ~Calm(c)'
BY DEF TypeOK, OutcomeType, SinceOK, Calm

\* A call keeps its connection, ...
LEMMA OwnConnected ==
  ASSUME HandleInv, NEW c \in Client, SinceOK(c), ConnectedOK(c), StepOf(c)
  PROVE  ConnectedOK(c)'
<1>1. TypeOK
  BY DEF HandleInv, IInv
<1>2. CASE Calls(c)
  <2> PICK a, program : Start(c, a, program) /\ Whole(a, program) /\ Fresh(a)
    BY <1>1, <1>2, CallStarts
  <2>1. a.op \in {"NewKey", "NewAESCTRHMAC", "Seal", "Open"}
    BY DEF Fresh, CallType
  <2>2. <<"Dial", "none">> \in StepsOf(a)
    BY <2>1 DEF StepsOf, NewKeySteps, NewAEADSteps, SealSteps, OpenSteps, CryptSteps
  <2>3. \E j \in 1..Len(program) : program[j] = <<"Dial", "none">>
    BY <2>2 DEF Whole
  <2>4. todo'[c] = program
    BY <1>1 DEF Start, TypeOK
  <2>5. Ahead(c, <<"Dial", "none">>)'
    BY <2>3, <2>4 DEF Ahead
  <2> QED BY <2>5 DEF ConnectedOK
<1>3. ASSUME NEW cmd, NEW v, Goes(c, cmd, v) PROVE ConnectedOK(c)'
  <2>1. CASE cmd = "Dial"
    BY <1>3, <2>1 DEF Goes, ConnectedOK, Connected
  <2>2. CASE cmd # "Dial"
    <3>1. AtStep(c, cmd, v) /\ Proceed(c) /\ call' = call /\ outcome' = outcome
      BY <1>3 DEF Goes
    <3>2. <<"Dial", "none">> # <<cmd, v>>
      BY <2>2
    <3>3. Ahead(c, <<"Dial", "none">>)' <=> Ahead(c, <<"Dial", "none">>)
      BY <3>1, <3>2, PositionAfter
    <3>4. conns' = conns /\ outcome' = outcome /\ events' = events /\ todo[c] # <<>>
      BY <1>3, <2>2 DEF Goes, AtStep
    <3> QED BY <3>3, <3>4 DEF ConnectedOK, Connected, Calm
  <2> QED BY <2>1, <2>2
<1>4. ASSUME todo'[c] = <<>> PROVE ConnectedOK(c)'
  BY <1>4 DEF ConnectedOK
<1>5. ASSUME NEW why, Fails(c, why) PROVE todo'[c] = <<>>
  BY <1>1, <1>5 DEF Fails, Fail, TypeOK
<1>6. CASE Unwinds(c) \/ Crash(c)
  BY <1>1, <1>4, <1>6 DEF Unwinds, Unwinding, Crash, TypeOK
<1>7. CASE Accept(c)
  BY <1>7 DEF Accept, AcceptConnection, callVars, ConnectedOK, Connected, Calm, Ahead
<1>8. CASE ConnectionLost(c)
  <2>1. events' = events + 1 /\ outcome'[c].since = outcome[c].since
    BY <1>1, <1>8, CutOutcome DEF ConnectionLost, Happens
  <2> QED BY <1>1, <2>1, NotCalm DEF ConnectedOK
<1> QED BY <1>1, <1>2, <1>3, <1>4, <1>5, <1>6, <1>7, <1>8, StepKinds

\* ... and encrypts data that fits one command with one.
Once(s) == \A i, j \in 1..Len(s) : s[i] = AESStep /\ s[j] = AESStep => i = j

OtherCommands == CommandsOf("Open") \ {"EncryptDecrypt2"}

LEMMA OnceConcat ==
  ASSUME NEW s \in Seq(Step), Once(s), NEW t, Over(t, OtherCommands)
  PROVE  Once(s \o t) /\ Once(t \o s) /\ s \o t \in Seq(Step) /\ t \o s \in Seq(Step)
<1>1. t \in Seq(Step) /\ \A i \in 1..Len(t) : t[i] # AESStep
  BY DEF Over, OtherCommands, AESStep
<1>2. Len(s) \in Nat /\ Len(t) \in Nat
  BY <1>1
<1>3. Once(s \o t)
  <2> SUFFICES ASSUME NEW i \in 1..Len(s \o t), NEW j \in 1..Len(s \o t),
                      (s \o t)[i] = AESStep, (s \o t)[j] = AESStep
               PROVE  i = j
    BY DEF Once
  <2>1. \A k \in 1..Len(s \o t) :
          (s \o t)[k] = AESStep => k \in 1..Len(s) /\ (s \o t)[k] = s[k]
    <3> SUFFICES ASSUME NEW k \in 1..Len(s \o t), (s \o t)[k] = AESStep
                 PROVE  k \in 1..Len(s) /\ (s \o t)[k] = s[k]
      OBVIOUS
    <3>1. k <= Len(s) => k \in 1..Len(s) /\ (s \o t)[k] = s[k]
      BY <1>1
    <3>2. k > Len(s) => k - Len(s) \in 1..Len(t) /\ (s \o t)[k] = t[k - Len(s)]
      BY <1>1, <1>2
    <3> QED BY <1>1, <1>2, <3>1, <3>2
  <2> QED BY <2>1 DEF Once
<1>4. Once(t \o s)
  <2> SUFFICES ASSUME NEW i \in 1..Len(t \o s), NEW j \in 1..Len(t \o s),
                      (t \o s)[i] = AESStep, (t \o s)[j] = AESStep
               PROVE  i = j
    BY DEF Once
  <2>1. \A k \in 1..Len(t \o s) :
          (t \o s)[k] = AESStep => k - Len(t) \in 1..Len(s) /\ (t \o s)[k] = s[k - Len(t)]
    <3> SUFFICES ASSUME NEW k \in 1..Len(t \o s), (t \o s)[k] = AESStep
                 PROVE  k - Len(t) \in 1..Len(s) /\ (t \o s)[k] = s[k - Len(t)]
      OBVIOUS
    <3>1. k <= Len(t) => k \in 1..Len(t) /\ (t \o s)[k] = t[k]
      BY <1>1
    <3>2. k > Len(t) => k - Len(t) \in 1..Len(s) /\ (t \o s)[k] = s[k - Len(t)]
      <4>1. Len(t \o s) = Len(t) + Len(s) /\ k \in Nat
        BY <1>1
      <4>2. k > Len(t) => (t \o s)[k] = s[k - Len(t)]
        BY <1>1
      <4> QED BY <1>2, <4>1, <4>2
    <3> QED BY <1>1, <1>2, <3>1, <3>2
  <2>2. i - Len(t) = j - Len(t)
    BY <2>1 DEF Once
  <2> QED BY <1>2, <2>2
<1> QED BY <1>1, <1>3, <1>4

LEMMA OnceEncrypt ==
  ASSUME NEW len \in Nat, len <= maxDigestBuffer
  PROVE  Once(Encrypt(len)) /\ Encrypt(len) \in Seq(Step)
<1>1. EncryptTurns(len) \in {0, 1}
  BY DEF EncryptTurns, maxDigestBuffer
<1>2. Encrypt(len) \in Seq(Step)
  BY EncryptOver DEF Over, CryptCommands
<1>3. Len(Encrypt(len)) = EncryptTurns(len)
  BY <1>1 DEF Encrypt, Repeat
<1> QED BY <1>1, <1>2, <1>3 DEF Once

LEMMA OnceParts ==
  ASSUME NEW kind, NEW len \in Nat
  PROVE  /\ Over(GetSession(kind, "aesSession"), OtherCommands)
         /\ Over(GetSession(kind, "hmacSession"), OtherCommands)
         /\ Over(Hmac(len), OtherCommands)
<1>1. SessionCommands \subseteq OtherCommands
      /\ {"ReadPublic", "HmacStart", "SequenceUpdate", "SequenceComplete"} \subseteq OtherCommands
  BY DEF OtherCommands, CommandsOf, CryptCommands, SessionCommands
<1>2. "aesSession" \in Variable /\ "hmacSession" \in Variable
  BY DEF Variable, SessionVariable
<1> QED BY <1>1, <1>2, SessionOver, HmacOver

LEMMA SealOnce ==
  ASSUME NEW kind, NEW n \in Nat, NEW a \in Nat, NEW len \in Nat, len <= maxDigestBuffer
  PROVE  Once(SealProgram(kind, n, a, len))
<1> DEFINE C == OtherCommands
           h == << <<"CheckLengths", "none">>, <<"Dial", "none">>,
                   <<"CreatePrimary", "primary">>, <<"Load", "aes">> >>
           f == << <<"FlushContext", "aes">>, <<"FlushContext", "aesSession">> >>
           l == << <<"Load", "hmac">> >>
           d == << <<"Defer", "hmac">> >>
           m == MacLength(n, a, len)
           g1 == GetSession(kind, "aesSession")
           g2 == GetSession(kind, "hmacSession")
           e == Encrypt(len)
<1>1. Over(h, C) /\ Over(f, C) /\ Over(l, C) /\ Over(d, C)
  BY DEF Over, Step, Command, LocalCommand, OtherCommands, CommandsOf, CryptCommands, SessionCommands,
         Variable, ObjectVariable, SessionVariable
<1>2. Over(g1, C) /\ Over(g2, C) /\ Over(Hmac(m), C)
  <2>1. m \in Nat
    BY MacLengthType
  <2> HIDE DEF m
  <2> QED BY <2>1, OnceParts
<1>3. Once(e) /\ e \in Seq(Step)
  BY OnceEncrypt
<1>4. Once((((h \o g1) \o e) \o f) \o (((l \o g2) \o Hmac(m)) \o d))
  <2> HIDE DEF h, f, l, d, m, g1, g2, e, C
  <2> DEFINE x == h \o g1
             y == ((l \o g2) \o Hmac(m)) \o d
             z == (x \o e) \o f
  <2>1. Over(x, C) /\ Over(y, C)
    BY <1>1, <1>2, OverConcat
  <2> HIDE DEF x, y
  <2>2. Once(x \o e) /\ x \o e \in Seq(Step)
    BY <1>3, <2>1, OnceConcat DEF C
  <2>3. Once(z) /\ z \in Seq(Step)
    BY <1>1, <2>2, OnceConcat DEF C
  <2> HIDE DEF z
  <2>4. Once(z \o y)
    BY <2>1, <2>3, OnceConcat DEF C
  <2> QED BY <2>4 DEF x, y, z
<1> QED BY <1>4 DEF SealProgram, SealHead, SealTail

LEMMA OpenOnce ==
  ASSUME NEW kind, NEW n \in Nat, NEW a \in Nat, NEW len \in Nat, len <= maxDigestBuffer
  PROVE  Once(OpenProgram(kind, n, a, len))
<1> DEFINE C == OtherCommands
           h == << <<"CheckLengths", "none">>, <<"Dial", "none">>,
                   <<"CreatePrimary", "primary">>, <<"Load", "hmac">> >>
           f == << <<"FlushContext", "hmacSession">>, <<"FlushContext", "hmac">>,
                   <<"CheckTag", "none">>, <<"Load", "aes">> >>
           m == MacLength(n, a, len)
           g1 == GetSession(kind, "hmacSession")
           g2 == GetSession(kind, "aesSession")
           e == Encrypt(len)
<1>1. Over(h, C) /\ Over(f, C)
  BY DEF Over, Step, Command, LocalCommand, OtherCommands, CommandsOf, CryptCommands, SessionCommands,
         Variable, ObjectVariable, SessionVariable
<1>2. Over(g1, C) /\ Over(g2, C) /\ Over(Hmac(m), C)
  <2>1. m \in Nat
    BY MacLengthType
  <2> HIDE DEF m
  <2> QED BY <2>1, OnceParts
<1>3. Once(e) /\ e \in Seq(Step)
  BY OnceEncrypt
<1>4. Once(((((h \o g1) \o Hmac(m)) \o f) \o g2) \o e)
  <2> HIDE DEF h, f, m, g1, g2, e, C
  <2> DEFINE x == (((h \o g1) \o Hmac(m)) \o f) \o g2
  <2>1. Over(x, C)
    BY <1>1, <1>2, OverConcat
  <2> HIDE DEF x
  <2>2. Once(x \o e)
    BY <1>3, <2>1, OnceConcat DEF C
  <2> QED BY <2>2 DEF x
<1> QED BY <1>4 DEF OpenProgram

LEMMA StartOnce ==
  ASSUME TypeOK, NEW c \in Client, Calls(c)
  PROVE  OnceOK(c)'
<1> DEFINE P == DataLength(call'[c]) <= maxDigestBuffer => Once(todo'[c])
<1> SUFFICES P
  BY Zenon DEF OnceOK, Once
<1>1. ASSUME NEW a, NEW program, Start(c, a, program) PROVE call'[c] = a /\ todo'[c] = program
  BY <1>1 DEF Start, TypeOK
<1>2. CASE NewKey(c) \/ NewAESCTRHMAC(c)
  <2> PICK a, program : Start(c, a, program) /\ Whole(a, program)
    BY CallStarts
  <2>1. call'[c] = a /\ todo'[c] = program
    BY <1>1
  <2>2. call'[c].op \in {"NewKey", "NewAESCTRHMAC"}
    <3>1. CASE NewKey(c)
      <4> PICK b, s : Start(c, b, s) /\ b.op = "NewKey"
        BY <3>1 DEF NewKey
      <4> QED BY <1>1, Zenon
    <3>2. CASE NewAESCTRHMAC(c)
      <4> PICK b, s : Start(c, b, s) /\ b.op = "NewAESCTRHMAC"
        BY <3>2 DEF NewAESCTRHMAC
      <4> QED BY <1>1, Zenon
    <3> QED BY <1>2, <3>1, <3>2
  <2>3. a.op \notin {"Seal", "Open"}
    BY <2>1, <2>2
  <2>4. AESStep \notin StepsOf(a) /\ AESStep # Optional
    BY <2>3, WhoseSteps DEF AESStep, Optional
  <2>5. \A i \in 1..Len(program) : program[i] # AESStep
    BY <2>4, Zenon DEF Whole, EndOf
  <2> QED BY <2>1, <2>5, Zenon DEF Once
<1>3. CASE Seal(c)
  <2> PICK i \in aeads, nonce \in Nonce, pt \in Plaintext, aad \in AAD :
        Start(c, [op |-> "Seal", aead |-> i, parentPass |-> i.parentPass, session |-> i.session,
                  nonce |-> nonce, pt |-> pt, aad |-> aad],
              SealProgram(i.session.kind, nonce.len, aad.len, pt.len))
    BY <1>3 DEF Seal
  <2>1. nonce.len \in Nat /\ aad.len \in Nat /\ pt.len \in Nat
    BY TextAssumption DEF Text, TooShort
  <2>2. DataLength(call'[c]) = pt.len
    BY <1>1 DEF DataLength
  <2>3. todo'[c] = SealProgram(i.session.kind, nonce.len, aad.len, pt.len)
    BY <1>1, Zenon
  <2> QED BY <2>1, <2>2, <2>3, SealOnce
<1>4. CASE Open(c)
  <2> PICK i \in aeads, nonce \in Nonce, aad \in AAD, in \in Input :
        Start(c, [op |-> "Open", aead |-> i, parentPass |-> i.parentPass, session |-> i.session,
                  nonce |-> nonce, aad |-> aad, ct |-> in.ct, tag |-> in.tag, len |-> in.len],
              OpenProgram(i.session.kind, nonce.len, aad.len, in.ct.pt.len))
    BY <1>4 DEF Open
  <2>1. nonce.len \in Nat /\ aad.len \in Nat /\ in.ct.pt.len \in Nat
    BY TextAssumption, InputType DEF Text, TooShort, CiphertextType
  <2>2. DataLength(call'[c]) = in.ct.pt.len
    BY <1>1 DEF DataLength
  <2>3. todo'[c] = OpenProgram(i.session.kind, nonce.len, aad.len, in.ct.pt.len)
    BY <1>1, Zenon
  <2> QED BY <2>1, <2>2, <2>3, OpenOnce
<1> QED BY <1>2, <1>3, <1>4 DEF Calls

LEMMA OwnOnce ==
  ASSUME HandleInv, NEW c \in Client, OnceOK(c), StepOf(c)
  PROVE  OnceOK(c)'
<1>1. TypeOK /\ todo[c] \in Seq(Step)
  BY DEF HandleInv, IInv, TypeOK
<1>2. CASE Calls(c)
  BY <1>1, <1>2, StartOnce
<1>3. ASSUME call' = call, todo'[c] = todo[c] PROVE OnceOK(c)'
  BY <1>3 DEF OnceOK
<1>4. ASSUME NEW t, t = <<>>, todo'[c] = t PROVE OnceOK(c)'
  <2>1. \A i : i \notin 1..Len(t)
    BY <1>4
  <2> QED BY <1>4, <2>1, Zenon DEF OnceOK
<1>5. ASSUME NEW cmd, NEW v, Goes(c, cmd, v) PROVE OnceOK(c)'
  <2>1. todo[c] # <<>> /\ call' = call /\ todo'[c] = Tail(todo[c])
    BY <1>1, <1>5 DEF Goes, AtStep, Proceed, TypeOK
  <2>2. /\ Len(todo[c]) \in Nat /\ Len(todo'[c]) = Len(todo[c]) - 1
        /\ \A i \in 1..Len(todo'[c]) : i + 1 \in 1..Len(todo[c]) /\ todo'[c][i] = todo[c][i + 1]
    BY <1>1, <2>1
  <2> SUFFICES ASSUME DataLength(call[c]) <= maxDigestBuffer,
                      NEW i \in 1..Len(todo'[c]), NEW j \in 1..Len(todo'[c]),
                      todo'[c][i] = AESStep, todo'[c][j] = AESStep
               PROVE  i = j
    BY <2>1 DEF OnceOK
  <2>3. i + 1 = j + 1
    BY <2>2 DEF OnceOK
  <2> QED BY <2>2, <2>3
<1>6. ASSUME NEW why, Fails(c, why) PROVE \E t : t = <<>> /\ todo'[c] = t
  BY <1>1, <1>6 DEF Fails, Fail, TypeOK
<1>7. CASE Crash(c)
  <2>1. \E t : t = <<>> /\ todo'[c] = t
    BY <1>1, <1>7 DEF Crash, TypeOK
  <2> QED BY <1>4, <2>1
<1>8. CASE Unwinds(c) \/ Accept(c) \/ ConnectionLost(c)
  BY <1>3, <1>8 DEF Unwinds, Accept, ConnectionLost, callVars
<1> QED BY <1>1, <1>2, <1>4, <1>5, <1>6, <1>7, <1>8, StepKinds

-----------------------------------------------------------------------------
(* What is still as the call made it. *)

\* What is ahead is not before the next step.
LEMMA AheadPlace ==
  ASSUME HandleInv, NEW c \in Client, NEW cmd, NEW v, AtStep(c, cmd, v), NEW m, Ahead(c, m)
  PROVE  /\ PlaceOf(call[c].op, m) \in Nat /\ PlaceOf(call[c].op, <<cmd, v>>) \in Nat
         /\ PlaceOf(call[c].op, <<cmd, v>>) <= PlaceOf(call[c].op, m)
<1> DEFINE s == todo[c]
<1>1. /\ s \in Seq(Step) /\ s # <<>> /\ Head(s) = <<cmd, v>> /\ EndOf(call[c], s)
  BY DEF HandleInv, IInv, TypeOK, OrderOK, AtStep, NextStep
<1>2. 1 \in 1..Len(s) /\ s[1] = <<cmd, v>>
  BY <1>1
<1>3. PICK i \in 1..Len(s) : s[i] = m
  BY DEF Ahead
<1> HIDE DEF s
<1>4. /\ \A j \in 1..Len(s) : PlaceOf(call[c].op, s[j]) \in Nat
      /\ \A j, k \in 1..Len(s) : j < k =>
           PlaceOf(call[c].op, s[j]) < PlaceOf(call[c].op, s[k]) \/ s[j] = s[k]
  BY <1>1 DEF EndOf
<1>5. CASE i = 1
  BY <1>2, <1>3, <1>4, <1>5
<1>6. CASE i # 1
  <2>1. 1 < i
    BY <1>6
  <2> QED BY <1>2, <1>3, <1>4, <2>1
<1> QED BY <1>5, <1>6

\* A session is not closed before it is used.
LEMMA SessionInUse ==
  ASSUME HandleInv, NEW c \in Client, NEW cmd, NEW v, AtStep(c, cmd, v), NEW w \in SessionVariable,
         Taken(c, <<"StartAuthSession", w>>), Ahead(c, SessionUse[w])
  PROVE  InUse(c, w)
<1>1. UsesSession(call[c], w)
  BY WhoseSessions DEF Taken
<1>2. <<"FlushContext", w>> \in StepsOf(call[c]) =>
        /\ PlaceOf(call[c].op, <<"FlushContext", w>>) \in Nat
        /\ PlaceOf(call[c].op, SessionUse[w]) < PlaceOf(call[c].op, <<"FlushContext", w>>)
  BY <1>1, SessionPlace
<1>3. /\ PlaceOf(call[c].op, SessionUse[w]) \in Nat /\ PlaceOf(call[c].op, <<cmd, v>>) \in Nat
      /\ PlaceOf(call[c].op, <<cmd, v>>) <= PlaceOf(call[c].op, SessionUse[w])
  BY AheadPlace
<1>4. ~Taken(c, <<"FlushContext", w>>)
  <2>1. CASE <<"FlushContext", w>> \in StepsOf(call[c])
    <3>1. Taken(c, <<"FlushContext", w>>) <=>
            PlaceOf(call[c].op, <<"FlushContext", w>>) < PlaceOf(call[c].op, <<cmd, v>>)
      BY <2>1, Position
    <3> QED BY <1>2, <1>3, <2>1, <3>1
  <2>2. CASE <<"FlushContext", w>> \notin StepsOf(call[c])
    BY <2>2 DEF Taken
  <2> QED BY <2>1, <2>2
<1>5. LoadingStep(w) = <<"StartAuthSession", w>> /\ w # "sequence"
  BY LoadingSteps DEF SessionVariable
<1> QED BY <1>4, <1>5 DEF InUse

\* When a session is used all its assertions are made.
LEMMA AssertedAll ==
  ASSUME HandleInv, NEW c \in Client, NEW cmd, NEW v, AtStep(c, cmd, v), NEW w \in SessionVariable,
         UsesSession(call[c], w), <<cmd, v>> = SessionUse[w]
  PROVE  Taken(c, <<"StartAuthSession", w>>) /\ AssertedIn(c, w) = PolicyOf(call[c].session)
<1>1. PICK n \in Nat : SessionAt(call[c].op, w, n) /\ n + 3 < PlaceOf(call[c].op, SessionUse[w])
  BY SessionPlace
<1>2. PlaceOf(call[c].op, <<cmd, v>>) \in Nat
  BY Position
<1>3. /\ PlaceOf(call[c].op, <<"StartAuthSession", w>>) < PlaceOf(call[c].op, <<cmd, v>>)
      /\ PlaceOf(call[c].op, <<"PolicyPCR", w>>) < PlaceOf(call[c].op, <<cmd, v>>)
      /\ PlaceOf(call[c].op, <<"PolicyAuthValue", w>>) < PlaceOf(call[c].op, <<cmd, v>>)
  BY <1>1, <1>2 DEF SessionAt
<1>4. \A m \in StepsOf(call[c]) : Taken(c, m) <=> PlaceOf(call[c].op, m) < PlaceOf(call[c].op, <<cmd, v>>)
  BY Position
<1>5. /\ <<"StartAuthSession", w>> \in StepsOf(call[c])
      /\ <<"PolicyPCR", w>> \in StepsOf(call[c]) <=> call[c].session.kind \in {"pcr", "pcr_authvalue"}
      /\ <<"PolicyAuthValue", w>> \in StepsOf(call[c]) <=> call[c].session.kind \in {"authvalue", "pcr_authvalue"}
  BY SessionPlace
<1>6. \A m : Taken(c, m) => m \in StepsOf(call[c])
  BY DEF Taken
<1>7. /\ Taken(c, <<"StartAuthSession", w>>)
      /\ Taken(c, <<"PolicyPCR", w>>) <=> call[c].session.kind \in {"pcr", "pcr_authvalue"}
      /\ Taken(c, <<"PolicyAuthValue", w>>) <=> call[c].session.kind \in {"authvalue", "pcr_authvalue"}
  BY <1>3, <1>4, <1>5, <1>6
<1> QED BY <1>7 DEF AssertedIn, PolicyOf

\* Where a call has loaded nothing, or is not served, there is nothing to say.
LEMMA FreshNothing ==
  ASSUME TypeOK', NEW c \in Client, c \notin served' \/ var'[c] = NoHandles
  PROVE  FreshOK(c)'
<1>1. CASE c \notin served'
  BY <1>1 DEF FreshOK
<1>2. CASE var'[c] = NoHandles
  <2>1. /\ \A x \in objects' : x.handle # NoHandle
        /\ \A x \in sessions' : x.handle # NoHandle
    <3>1. /\ \A x \in objects' : x.handle \in ObjectHandle
          /\ \A x \in sessions' : x.handle \in SessionHandle
      BY DEF TypeOK, TPMTypeOK, Object, Session
    <3> QED BY <3>1, HandleShape DEF Handle
  <2>2. \A v \in Variable : var'[c][v] = NoHandle
    BY <1>2 DEF NoHandles
  <2>3. Loaded(c, "primary", "primary")' = {} /\ \A v \in SessionVariable : OpenSession(c, v)' = {}
    BY <2>1, <2>2 DEF Loaded, ObjectsAt, OpenSession, SessionsAt, Variable, ObjectVariable
  <2> QED BY <2>3 DEF FreshOK, PrimaryFresh, SessionThere
<1> QED BY <1>1, <1>2

\* A call that has ended its program, in whatever way, uses no session any more.
LEMMA FreshEnd ==
  ASSUME TypeOK, NEW c \in Client, FreshOK(c), todo'[c] = <<>>, objects' \subseteq objects, var' = var,
         hier' = hier, c \in served' => c \in served, Calm(c)' => Calm(c)
  PROVE  FreshOK(c)'
<1>1. \A m : ~Ahead(c, m)'
  BY DEF Ahead
<1>2. c \in served' /\ Calm(c)' => PrimaryFresh(c)'
  BY DEF FreshOK, PrimaryFresh, Loaded, ObjectsAt
<1>3. \A v \in SessionVariable : SessionThere(c, v)'
  BY <1>1 DEF SessionThere
<1> QED BY <1>2, <1>3 DEF FreshOK

\* The primary is left alone.
LEMMA PrimaryKept ==
  ASSUME NEW c \in Client, PrimaryFresh(c), hier' = hier, var'[c]["primary"] = var[c]["primary"],
         \A o \in objects' : o \in objects \/ o.kind # "primary"
  PROVE  PrimaryFresh(c)'
BY DEF PrimaryFresh, Loaded, ObjectsAt

\* A session is left alone.
LEMMA SessionKept ==
  ASSUME HandleInv, NEW c \in Client, NEW cmd, NEW v, AtStep(c, cmd, v), Proceed(c),
         call' = call, outcome' = outcome, pcr' = pcr,
         NEW w \in SessionVariable, SessionThere(c, w), var'[c][w] = var[c][w],
         v # w \/ cmd \notin {"StartAuthSession", "PolicyPCR", "PolicyAuthValue"},
         Taken(c, <<"StartAuthSession", w>>) /\ Ahead(c, SessionUse[w]) /\ Ahead(c, SessionUse[w])' =>
           \A s \in sessions' : s.handle = var[c][w] => \E x \in sessions : SameSession(s, x)
  PROVE  SessionThere(c, w)'
<1>1. /\ \A m : m # <<cmd, v>> => (Taken(c, m)' <=> Taken(c, m))
      /\ \A m : Ahead(c, m)' => Ahead(c, m)
  BY Proceeds, PositionAfter
<1>2. \A x \in {"StartAuthSession", "PolicyPCR", "PolicyAuthValue"} : <<x, w>> # <<cmd, v>>
  OBVIOUS
<1>3. \A x \in {"StartAuthSession", "PolicyPCR", "PolicyAuthValue"} : Taken(c, <<x, w>>)' <=> Taken(c, <<x, w>>)
  BY <1>1, <1>2
<1>4. AssertedIn(c, w)' = AssertedIn(c, w)
  BY <1>3 DEF AssertedIn
<1>5. Modest(c)' = Modest(c)
  BY DEF Modest
<1> SUFFICES ASSUME Taken(c, <<"StartAuthSession", w>>)', Ahead(c, SessionUse[w])', Modest(c)',
                    NEW s \in OpenSession(c, w)'
             PROVE  SessionReady(c, w, s)'
  BY DEF SessionThere
<1>6. PICK x \in sessions : SameSession(s, x)
  BY <1>1, <1>3 DEF OpenSession, SessionsAt
<1>7. x \in OpenSession(c, w)
  BY <1>6 DEF OpenSession, SessionsAt, SameSession
<1>8. SessionReady(c, w, x)
  BY <1>1, <1>3, <1>5, <1>7 DEF SessionThere
<1> QED BY <1>4, <1>6, <1>8 DEF SessionReady, SameSession

AsMade(c) == PrimaryFresh(c) /\ \A v \in SessionVariable : SessionThere(c, v)

\* A new session is as StartAuthSession leaves it, and the only one in use.
LEMMA StartAuthSessionFresh ==
  ASSUME HandleInv, NEW c \in Client, AsMade(c), NEW v \in SessionVariable, StartAuthSession(c, v)
  PROVE  AsMade(c)'
<1>1. /\ AtStep(c, "StartAuthSession", v) /\ Proceed(c) /\ call' = call /\ outcome' = outcome
      /\ UNCHANGED <<objects, pcr, hier>> /\ TypeOK
  BY DEF StartAuthSession, Executes, HandleInv, IInv
<1> PICK h \in Allocated(FreeSessionHandles(c)) :
      /\ sessions' = sessions \union
           {NewSession(c, h, v = "trial", SessionPassword(call[c].session, v = "trial"))}
      /\ var' = [var EXCEPT ![c][v] = h]
  BY DEF StartAuthSession
<1>2. \A u \in Variable : var'[c][u] = IF u = v THEN h ELSE var[c][u]
  BY <1>1 DEF TypeOK
<1>3. PrimaryFresh(c)'
  <2>1. var'[c]["primary"] = var[c]["primary"]
    BY <1>2 DEF Variable, ObjectVariable, SessionVariable
  <2> QED BY <1>1, <2>1, PrimaryKept DEF AsMade
<1>4. SessionThere(c, v)'
  <2>1. AssertedIn(c, v)' = <<>>
    BY <1>1, AssertedNone
  <2>2. \A s \in sessions : s.handle # h
    BY DEF Allocated, FreeSessionHandles
  <2>3. \A s \in OpenSession(c, v)' :
          s = NewSession(c, h, v = "trial", SessionPassword(call[c].session, v = "trial"))
    BY <1>2, <2>2 DEF OpenSession, SessionsAt, Variable
  <2>4. \A s \in OpenSession(c, v)' :
          /\ s.trial = (v = "trial") /\ s.password = SessionPassword(call[c].session, v = "trial")
          /\ s.digest = <<>> /\ s.pcrCount = 0
    BY <2>3 DEF NewSession
  <2> QED BY <1>1, <2>1, <2>4 DEF SessionThere, SessionReady
<1>5. ASSUME NEW w \in SessionVariable, w # v PROVE SessionThere(c, w)'
  <2>1. ~(Taken(c, <<"StartAuthSession", w>>) /\ Ahead(c, SessionUse[w]))
    <3>1. ~InUse(c, w)
      BY <1>1, UseAtLoads
    <3> QED BY <1>1, <3>1, SessionInUse
  <2>2. var'[c][w] = var[c][w]
    BY <1>2, <1>5 DEF Variable
  <2> QED BY <1>1, <1>5, <2>1, <2>2, SessionKept DEF AsMade
<1> QED BY <1>3, <1>4, <1>5 DEF AsMade

\* Two sessions that are still to be used are different ones.
LEMMA SessionsApart ==
  ASSUME HandleInv, NEW c \in Client, PresentOK(c), Calm(c), c \in served,
         NEW cmd, NEW v, AtStep(c, cmd, v), NEW u \in SessionVariable, InUse(c, u),
         NEW w \in SessionVariable \ {u}, Taken(c, <<"StartAuthSession", w>>), Ahead(c, SessionUse[w])
  PROVE  var[c][w] # var[c][u]
<1>1. GoesOn(c) /\ Kept(c)
  BY DEF GoesOn, Connected, AtStep, Kept, HandleInv, IInv, TypeOK, TPMTypeOK
<1>2. InUse(c, w)
  BY SessionInUse
<1> QED BY <1>1, <1>2 DEF PresentOK, Variable

\* An assertion is made in the one session that the call is preparing.
LEMMA PolicyFresh ==
  ASSUME HandleInv, NEW c \in Client, PresentOK(c), Calm(c), AsMade(c), NEW v \in SessionVariable,
         PolicyPCR(c, v) \/ PolicyAuthValue(c, v)
  PROVE  AsMade(c)'
<1> PICK cmd \in {"PolicyPCR", "PolicyAuthValue"} :
      \/ cmd = "PolicyPCR" /\ PolicyPCR(c, v)
      \/ cmd = "PolicyAuthValue" /\ PolicyAuthValue(c, v)
  OBVIOUS
<1>1. /\ AtStep(c, cmd, v) /\ Proceed(c) /\ call' = call /\ outcome' = outcome
      /\ UNCHANGED <<objects, var, pcr, hier>> /\ c \in served /\ TypeOK
  BY DEF PolicyPCR, PolicyAuthValue, Executes, Served, HandleInv, IInv
<1>2. PrimaryFresh(c)'
  BY <1>1, PrimaryKept DEF AsMade
<1>3. \A s \in sessions' : \E y \in sessions :
        /\ s.handle = y.handle /\ s.trial = y.trial /\ s.password = y.password
        /\ s.handle = var[c][v] =>
             /\ s.digest = Append(y.digest, AssertedBy(c, cmd))
             /\ s.pcrCount = y.pcrCount \/ s.pcrCount = pcr.count
        /\ s.handle # var[c][v] => s.digest = y.digest /\ s.pcrCount = y.pcrCount
  BY <1>1, PolicySessions
<1>4. SessionThere(c, v)'
  <2>1. /\ UsesSession(call[c], v) /\ Taken(c, <<"StartAuthSession", v>>)
        /\ AssertedIn(c, v)' = Append(AssertedIn(c, v), AssertedBy(c, cmd))
    BY <1>1, AssertedMore
  <2>2. Ahead(c, SessionUse[v])' => Ahead(c, SessionUse[v])
    BY <1>1, Proceeds
  <2>3. Modest(c)' = Modest(c)
    BY <1>1 DEF Modest
  <2> SUFFICES ASSUME Ahead(c, SessionUse[v])', Modest(c)', NEW s \in OpenSession(c, v)'
               PROVE  SessionReady(c, v, s)'
    BY DEF SessionThere
  <2>4. s \in sessions' /\ s.handle = var[c][v]
    BY <1>1 DEF OpenSession, SessionsAt
  <2>5. PICK y \in sessions :
          /\ s.handle = y.handle /\ s.trial = y.trial /\ s.password = y.password
          /\ s.digest = Append(y.digest, AssertedBy(c, cmd))
          /\ s.pcrCount = y.pcrCount \/ s.pcrCount = pcr.count
    BY <1>3, <2>4
  <2>6. SessionReady(c, v, y)
    BY <2>1, <2>2, <2>3, <2>4, <2>5 DEF AsMade, SessionThere, OpenSession, SessionsAt
  <2> QED BY <1>1, <2>1, <2>5, <2>6 DEF SessionReady
<1>5. ASSUME NEW w \in SessionVariable, w # v PROVE SessionThere(c, w)'
  <2>1. InUse(c, v)
    BY <1>1, NamedInUse DEF Finds
  <2>2. Taken(c, <<"StartAuthSession", w>>) /\ Ahead(c, SessionUse[w]) => var[c][w] # var[c][v]
    BY <1>1, <1>5, <2>1, SessionsApart
  <2>3. Taken(c, <<"StartAuthSession", w>>) /\ Ahead(c, SessionUse[w]) =>
          \A s \in sessions' : s.handle = var[c][w] => \E x \in sessions : SameSession(s, x)
    BY <1>3, <2>2 DEF SameSession
  <2> QED BY <1>1, <1>5, <2>3, SessionKept DEF AsMade
<1> QED BY <1>2, <1>4, <1>5 DEF AsMade

\* Of two steps that encrypt the first is not the only one.
LEMMA TwiceAhead ==
  ASSUME HandleInv, NEW c \in Client, OnceOK(c), NEW cmd, NEW v, AtStep(c, cmd, v), <<cmd, v>> = AESStep,
         Proceed(c), call' = call, outcome' = outcome, Ahead(c, AESStep)', Modest(c)
  PROVE  call[c].session.kind = "none"
<1> DEFINE s == todo[c]
<1>1. /\ s \in Seq(Step) /\ s # <<>> /\ Head(s) = AESStep /\ todo'[c] = Tail(s)
  BY Proceeds DEF AtStep, NextStep
<1>2. PICK i \in 1..Len(Tail(s)) : Tail(s)[i] = AESStep
  BY <1>1 DEF Ahead
<1> HIDE DEF s
<1>3. /\ 1 \in 1..Len(s) /\ s[1] = AESStep
      /\ i + 1 \in 1..Len(s) /\ s[i + 1] = AESStep /\ i + 1 # 1
  BY <1>1, <1>2
<1>4. ~(DataLength(call[c]) <= maxDigestBuffer)
  BY <1>3 DEF OnceOK, s
<1> QED BY <1>4 DEF Modest

\* A session that a command has used is as after StartAuthSession, and is to be
\* used once more only if it has no assertions.
LEMMA UseFresh ==
  ASSUME HandleInv, NEW c \in Client, PresentOK(c), Calm(c), OnceOK(c), AsMade(c),
         EncryptDecrypt2(c) \/ HmacStart(c)
  PROVE  AsMade(c)'
<1> PICK step \in {AESStep, <<"HmacStart", "hmac">>} :
      \/ step = AESStep /\ EncryptDecrypt2(c)
      \/ step = <<"HmacStart", "hmac">> /\ HmacStart(c)
  OBVIOUS
<1> DEFINE u == SessionOf[step[2]]
<1>1. /\ AtStep(c, step[1], step[2]) /\ <<step[1], step[2]>> = step
      /\ Proceed(c) /\ call' = call /\ outcome' = outcome
      /\ UNCHANGED <<pcr, hier>> /\ c \in served /\ TypeOK /\ sessions \subseteq Session
      /\ u \in SessionVariable /\ SessionUse[u] = step
      /\ sessions' = {IF s.handle = var[c][u] THEN ResetSession(s) ELSE s : s \in sessions}
  <2>1. /\ TypeOK /\ sessions \subseteq Session
        /\ u \in SessionVariable /\ SessionUse[u] = step
        /\ <<step[1], step[2]>> = step
    <3>1. TypeOK
      BY DEF HandleInv, IInv
    <3>2. sessions \subseteq Session
      BY <3>1 DEF TypeOK, TPMTypeOK
    <3>3. u \in SessionVariable /\ SessionUse[u] = step /\ <<step[1], step[2]>> = step
      BY DEF AESStep, SessionUse, SessionOf, SessionVariable
    <3> QED BY <3>1, <3>2, <3>3
  <2>2. CASE step = AESStep /\ EncryptDecrypt2(c)
    <3>1. step[1] = "EncryptDecrypt2" /\ step[2] = "aes" /\ u = "aesSession"
      BY <2>2 DEF AESStep, SessionOf
    <3>2. /\ AtStep(c, "EncryptDecrypt2", "aes") /\ Proceed(c) /\ call' = call /\ outcome' = outcome
          /\ UNCHANGED <<pcr, hier>> /\ c \in served
      BY <2>2 DEF EncryptDecrypt2, Executes, Served
    <3>3. sessions' = {IF s.handle = var[c]["aesSession"] THEN ResetSession(s) ELSE s : s \in sessions}
      BY <2>2, Zenon DEF EncryptDecrypt2, ChangeSession
    <3> HIDE DEF u
    <3> QED BY <2>1, <3>1, <3>2, <3>3
  <2>3. CASE step = <<"HmacStart", "hmac">> /\ HmacStart(c)
    <3>1. step[1] = "HmacStart" /\ step[2] = "hmac" /\ u = "hmacSession"
      BY <2>3 DEF SessionOf
    <3>2. /\ AtStep(c, "HmacStart", "hmac") /\ Proceed(c) /\ call' = call /\ outcome' = outcome
          /\ UNCHANGED <<pcr, hier>> /\ c \in served
      BY <2>3 DEF HmacStart, Executes, Served
    <3>3. sessions' = {IF s.handle = var[c]["hmacSession"] THEN ResetSession(s) ELSE s : s \in sessions}
      BY <2>3, Zenon DEF HmacStart, ChangeSession
    <3> HIDE DEF u
    <3> QED BY <2>1, <3>1, <3>2, <3>3
  <2> QED BY <2>2, <2>3
<1>2. /\ \A w \in Variable \ {"sequence"} : var'[c][w] = var[c][w]
      /\ \A o \in objects' : o \in objects \/ o.kind = "sequence"
  <2>1. CASE EncryptDecrypt2(c)
    BY <2>1 DEF EncryptDecrypt2
  <2>2. CASE HmacStart(c)
    <3>1. PICK k : LoadObject(c, "sequence", "sequence", k)
      BY <2>2 DEF HmacStart
    <3>2. \A w \in Variable \ {"sequence"} : var'[c][w] = var[c][w]
      BY <1>1, <3>1, LoadedNew DEF ObjectVariable
    <3>3. \A o \in objects' : o \in objects \/ o.kind = "sequence"
      BY <3>1 DEF LoadObject, NewObject
    <3> QED BY <3>2, <3>3
  <2> QED BY <2>1, <2>2
<1>3. PrimaryFresh(c)'
  BY <1>1, <1>2, PrimaryKept DEF AsMade, Variable, ObjectVariable
<1> HIDE DEF u
<1>4. \A s \in sessions' : \E x \in sessions :
        /\ s.handle = x.handle /\ s.trial = x.trial /\ s.password = x.password
        /\ s.handle = var[c][u] => s.digest = <<>> /\ s.pcrCount = 0
        /\ s.handle # var[c][u] => s = x
  <2>1. \A x \in sessions :
          /\ ResetSession(x).handle = x.handle /\ ResetSession(x).trial = x.trial
          /\ ResetSession(x).password = x.password
          /\ ResetSession(x).digest = <<>> /\ ResetSession(x).pcrCount = 0
    BY <1>1 DEF ResetSession, Session
  <2> QED BY <1>1, <2>1
<1>5. \A w \in SessionVariable : var'[c][w] = var[c][w]
  BY <1>2 DEF Variable, ObjectVariable, SessionVariable
<1>6. SessionThere(c, u)'
  <2>1. /\ \A m : m # step => (Taken(c, m)' <=> Taken(c, m))
        /\ step \notin Repeated => ~Ahead(c, step)'
        /\ \A m : Ahead(c, m)' => Ahead(c, m)
    BY <1>1, Proceeds, PositionAfter
  <2>2. Modest(c)' = Modest(c)
    BY <1>1 DEF Modest
  <2> SUFFICES ASSUME Ahead(c, step)', Modest(c)', Taken(c, <<"StartAuthSession", u>>)', NEW s \in OpenSession(c, u)'
               PROVE  SessionReady(c, u, s)'
    BY <1>1 DEF SessionThere
  <2>3. step = AESStep
    BY <2>1 DEF Repeated, Optional
  <2>4. call[c].session.kind = "none"
    BY <1>1, <2>2, <2>3, TwiceAhead
  <2>5. Taken(c, <<"StartAuthSession", u>>)
    BY <2>1, <2>3 DEF AESStep
  <2>6. UsesSession(call[c], u)
    BY <1>1, <2>5, WhoseSessions DEF Taken
  <2>7. <<"PolicyPCR", u>> \notin StepsOf(call[c]) /\ <<"PolicyAuthValue", u>> \notin StepsOf(call[c])
    BY <2>4, <2>6, SessionPlace
  <2>8. AssertedIn(c, u)' = <<>>
    BY <1>1, <2>7 DEF AssertedIn, Taken
  <2>9. s \in sessions' /\ s.handle = var[c][u]
    BY <1>1, <1>5 DEF OpenSession, SessionsAt
  <2>10. PICK x \in sessions :
           /\ s.handle = x.handle /\ s.trial = x.trial /\ s.password = x.password
           /\ s.digest = <<>> /\ s.pcrCount = 0
    BY <1>4, <2>9
  <2>11. SessionReady(c, u, x)
    BY <1>1, <2>1, <2>2, <2>3, <2>5, <2>9, <2>10 DEF AsMade, SessionThere, OpenSession, SessionsAt
  <2> QED BY <1>1, <2>8, <2>10, <2>11 DEF SessionReady
<1>7. ASSUME NEW w \in SessionVariable, w # u PROVE SessionThere(c, w)'
  <2>1. InUse(c, u)
    <3>1. step[1] \in UsesKey
      BY DEF UsesKey, AESStep
    <3> QED BY <1>1, <3>1, NamedInUse DEF Finds, u
  <2>2. Taken(c, <<"StartAuthSession", w>>) /\ Ahead(c, SessionUse[w]) => var[c][w] # var[c][u]
    BY <1>1, <1>7, <2>1, SessionsApart
  <2>3. Taken(c, <<"StartAuthSession", w>>) /\ Ahead(c, SessionUse[w]) =>
          \A s \in sessions' : s.handle = var[c][w] => \E x \in sessions : SameSession(s, x)
    BY <1>4, <2>2 DEF SameSession
  <2>4. step[1] \notin {"StartAuthSession", "PolicyPCR", "PolicyAuthValue"}
    BY DEF AESStep
  <2> QED BY <1>1, <1>5, <1>7, <2>3, <2>4, SessionKept DEF AsMade
<1> QED BY <1>3, <1>6, <1>7 DEF AsMade

\* The primary is created of the hierarchy's seed, and no key is a primary.
LEMMA KeyFresh ==
  ASSUME HandleInv, NEW c \in Client, AsMade(c), CreatePrimary(c) \/ (\E v \in {"aes", "hmac"} : Load(c, v))
  PROVE  AsMade(c)'
<1>1. PICK cmd, v, kind, key :
        /\ cmd \in {"CreatePrimary", "Load"} /\ v \in {"primary", "aes", "hmac"}
        /\ AtStep(c, cmd, v) /\ Proceed(c) /\ call' = call /\ outcome' = outcome
        /\ UNCHANGED <<sessions, pcr, hier>> /\ LoadObject(c, v, kind, key)
        /\ \/ v = "primary" /\ key = Primary(hier.seed)
           \/ v # "primary" /\ kind = "key"
  <2>1. CASE CreatePrimary(c)
    BY <2>1 DEF CreatePrimary, Executes
  <2>2. CASE \E v \in {"aes", "hmac"} : Load(c, v)
    BY <2>2 DEF Load, Executes
  <2> QED BY <2>1, <2>2
<1>2. /\ \A o \in objects' : o.handle = var'[c][v] => o.key = key
      /\ \A u \in Variable \ {v} : var'[c][u] = var[c][u]
  BY <1>1, LoadedNew DEF ObjectVariable, HandleInv, IInv
<1>3. PrimaryFresh(c)'
  <2>1. CASE v = "primary"
    <3>1. key.seed = hier.seed
      BY <1>1, <2>1 DEF Primary
    <3> QED BY <1>1, <1>2, <2>1, <3>1 DEF PrimaryFresh, Loaded, ObjectsAt
  <2>2. CASE v # "primary"
    <3>1. \A o \in objects' : o \in objects \/ o.kind = "key"
      BY <1>1, <2>2 DEF LoadObject, NewObject
    <3>2. var'[c]["primary"] = var[c]["primary"]
      BY <1>2, <2>2 DEF Variable, ObjectVariable
    <3> QED BY <1>1, <3>1, <3>2, PrimaryKept DEF AsMade
  <2> QED BY <2>1, <2>2
<1>4. ASSUME NEW w \in SessionVariable PROVE SessionThere(c, w)'
  <2>1. var'[c][w] = var[c][w]
    BY <1>1, <1>2 DEF Variable, SessionVariable
  <2>2. \A s \in sessions' : \E x \in sessions : SameSession(s, x)
    BY <1>1 DEF SameSession
  <2> QED BY <1>1, <2>1, <2>2, SessionKept DEF AsMade
<1> QED BY <1>3, <1>4 DEF AsMade

\* Other steps load nothing and leave the sessions that stay.
LEMMA PlainFresh ==
  ASSUME HandleInv, NEW c \in Client, AsMade(c), NEW cmd, NEW v, AtStep(c, cmd, v), Proceed(c),
         UNCHANGED <<call, outcome, pcr, hier, var>>, objects' \subseteq objects, sessions' \subseteq sessions,
         cmd \notin {"StartAuthSession", "PolicyPCR", "PolicyAuthValue"}
  PROVE  AsMade(c)'
<1>1. PrimaryFresh(c)'
  BY PrimaryKept DEF AsMade
<1>2. ASSUME NEW w \in SessionVariable PROVE SessionThere(c, w)'
  <2>1. \A s \in sessions' : \E x \in sessions : SameSession(s, x)
    BY DEF SameSession
  <2> QED BY <2>1, SessionKept DEF AsMade
<1> QED BY <1>1, <1>2 DEF AsMade

LEMMA PlainStepsFresh ==
  ASSUME HandleInv, NEW c \in Client, AsMade(c),
         \/ Defer(c) \/ FlushContext(c) \/ PolicyGetDigest(c) \/ ReadPublic(c) \/ SequenceUpdate(c)
         \/ SequenceComplete(c) \/ (\E v \in {"aes", "hmac"} : Create(c, v))
  PROVE  AsMade(c)'
<1>1. PICK cmd, v :
        /\ cmd \notin {"StartAuthSession", "PolicyPCR", "PolicyAuthValue"}
        /\ AtStep(c, cmd, v) /\ Proceed(c) /\ UNCHANGED <<call, outcome, pcr, hier, var>>
        /\ objects' \subseteq objects /\ sessions' \subseteq sessions
  <2>1. CASE Defer(c)
    BY <2>1 DEF Defer, tpmVars
  <2>2. CASE FlushContext(c)
    <3>1. PICK v \in Variable :
            /\ AtStep(c, "FlushContext", v) /\ Proceed(c) /\ UNCHANGED <<call, outcome, pcr, hier, var>>
            /\ Flush(var[c][v]) \/ UNCHANGED <<objects, sessions>>
      BY <2>2 DEF FlushContext
    <3> QED BY <3>1 DEF Flush
  <2>3. CASE PolicyGetDigest(c)
    BY <2>3 DEF PolicyGetDigest, Executes
  <2>4. CASE ReadPublic(c)
    BY <2>4 DEF ReadPublic, Executes
  <2>5. CASE SequenceUpdate(c)
    BY <2>5 DEF SequenceUpdate, Executes
  <2>6. CASE SequenceComplete(c)
    BY <2>6 DEF SequenceComplete, Executes
  <2>7. CASE \E v \in {"aes", "hmac"} : Create(c, v)
    BY <2>7 DEF Create, Executes
  <2> QED BY <2>1, <2>2, <2>3, <2>4, <2>5, <2>6, <2>7
<1> QED BY <1>1, PlainFresh

\* A connection is opened before anything is loaded.
LEMMA DialFresh ==
  ASSUME HandleInv, TypeOK', NEW c \in Client, Dial(c)
  PROVE  FreshOK(c)'
<1>1. AtStep(c, "Dial", "none") /\ var' = var /\ TypeOK /\ StackOK(c) /\ HandlesOK(c)
  BY DEF Dial, HandleInv, IInv
<1>2. Ahead(c, <<"Dial", "none">>)
  BY <1>1, AtAhead
<1>3. defers[c] = <<>>
  BY <1>2 DEF StackOK, Ahead, HandleInv, IInv
<1>4. c \notin served
  <2>1. ~Deferred(c, CloseConn)
    BY <1>3 DEF Deferred
  <2> QED BY <1>1, <2>1 DEF StackOK, Connected, TypeOK, TPMTypeOK
<1> QED BY <1>1, <1>2, <1>4, FreshNothing DEF HandlesOK

\* A command that is carried out.
LEMMA CommandTaken ==
  ASSUME NEW c, Defer(c) \/ SessionCommand(c) \/ KeyCommand(c) \/ FlushContext(c)
  PROVE  served' = served /\ outcome' = outcome /\ events' = events
<1>1. CASE Defer(c)
  BY <1>1 DEF Defer, tpmVars
<1>2. CASE SessionCommand(c)
  BY <1>2 DEF SessionCommand, PolicyGetDigest, StartAuthSession, PolicyPCR, PolicyAuthValue, Executes
<1>3. CASE KeyCommand(c)
  BY <1>3 DEF KeyCommand, CreatePrimary, Create, Load, EncryptDecrypt2, ReadPublic, HmacStart, SequenceUpdate,
              SequenceComplete, Executes
<1>4. CASE FlushContext(c)
  BY <1>4 DEF FlushContext
<1> QED BY <1>1, <1>2, <1>3, <1>4

\* A check that passes changes nothing else.
LEMMA CheckFresh ==
  ASSUME HandleInv, NEW c \in Client, FreshOK(c),
         NEW cmd \in {"CheckLengths", "CheckKeys", "CheckTag"}, NEW ok, NEW why, Check(c, cmd, ok, why)
  PROVE  FreshOK(c)'
<1>1. AtStep(c, cmd, "none") /\ events' = events /\ TypeOK
  BY DEF Check, HandleInv, IInv
<1>2. CASE ok
  <2>1. Proceed(c) /\ UNCHANGED <<call, outcome, pcr, hier, var, objects, sessions, served>>
    BY <1>2 DEF Check, tpmVars
  <2>2. cmd \notin {"StartAuthSession", "PolicyPCR", "PolicyAuthValue"}
    OBVIOUS
  <2>3. AsMade(c) => AsMade(c)'
    BY <1>1, <2>1, <2>2, PlainFresh
  <2> QED BY <1>1, <2>1, <2>3 DEF FreshOK, AsMade, Calm
<1>3. CASE ~ok
  <2>1. Fail(c, why)
    BY <1>3 DEF Check
  <2>2. todo'[c] = <<>> /\ UNCHANGED <<objects, var, hier, served>>
    BY <1>1, <2>1 DEF Fail, tpmVars, TypeOK
  <2>3. outcome'[c].since = outcome[c].since
    BY <1>1, <2>1 DEF Fail, TypeOK, OutcomeType
  <2> QED BY <1>1, <2>2, <2>3, FreshEnd DEF Calm
<1> QED BY <1>2, <1>3

\* An own step leaves what is to be used as the call made it.
LEMMA OwnFresh ==
  ASSUME HandleInv, TypeOK', NEW c \in Client, PresentOK(c), SinceOK(c), OnceOK(c), FreshOK(c), StepOf(c)
  PROVE  FreshOK(c)'
<1>1. TypeOK /\ StackOK(c) /\ HandlesOK(c) /\ served \subseteq conns
  BY DEF HandleInv, IInv, TypeOK, TPMTypeOK
<1>2. CASE Calls(c)
  <2> PICK a, program : Start(c, a, program)
    BY <1>1, <1>2, CallStarts
  <2>1. c \notin served'
    BY <1>1, IdleReleased DEF Start, Connected
  <2> QED BY <2>1, FreshNothing
<1>3. CASE CheckLengths(c) \/ CheckKeys(c) \/ CheckTag(c)
  BY <1>3, CheckFresh DEF CheckLengths, CheckKeys, CheckTag
<1>4. CASE Dial(c)
  BY <1>4, DialFresh
<1>5. CASE Defer(c) \/ SessionCommand(c) \/ KeyCommand(c) \/ FlushContext(c)
  <2>1. served' = served /\ (Calm(c)' <=> Calm(c))
    BY <1>5, CommandTaken DEF Calm
  <2>2. ASSUME AsMade(c), Calm(c) PROVE AsMade(c)'
    <3>1. CASE Defer(c) \/ FlushContext(c)
      BY <2>2, <3>1, PlainStepsFresh
    <3>2. CASE SessionCommand(c)
      BY <2>2, <3>2, PlainStepsFresh, StartAuthSessionFresh, PolicyFresh DEF SessionCommand
    <3>3. CASE KeyCommand(c)
      BY <2>2, <3>3, PlainStepsFresh, KeyFresh, UseFresh DEF KeyCommand
    <3> QED BY <1>5, <3>1, <3>2, <3>3
  <2> QED BY <2>1, <2>2 DEF FreshOK, AsMade
<1>6. CASE CommandRefused(c) \/ CommandLost(c) \/ CommandFault(c)
  <2>1. PICK why : Fail(c, why)
    BY <1>6 DEF CommandRefused, CommandLost, CommandFault
  <2>2. todo'[c] = <<>> /\ UNCHANGED <<objects, var, hier, served>>
    BY <1>1, <2>1 DEF Fail, tpmVars, TypeOK
  <2>3. outcome'[c].since = outcome[c].since
    BY <1>1, <2>1 DEF Fail, TypeOK, OutcomeType
  <2>4. Calm(c)' => Calm(c)
    <3>1. events' = events \/ events' = events + 1
      BY <1>6 DEF CommandRefused, CommandLost, CommandFault, Happens
    <3> QED BY <1>1, <2>3, <3>1, NotCalm DEF Calm
  <2> QED BY <1>1, <2>2, <2>4, FreshEnd
<1>8. CASE DeferredFlush(c)
  <2>1. /\ UNCHANGED <<todo, var, outcome, served, hier, events>> /\ todo[c] = <<>>
        /\ objects' \subseteq objects
    BY <1>8 DEF DeferredFlush, Flush, Unwinding, dataVars
  <2>2. todo'[c] = <<>> /\ (Calm(c)' => Calm(c))
    BY <2>1 DEF Calm
  <2> QED BY <1>1, <2>1, <2>2, FreshEnd
<1>9. CASE DeferredClose(c) \/ ConnectionLost(c) \/ Crash(c)
  <2>1. c \notin served'
    BY <1>9 DEF DeferredClose, ConnectionLost, Crash
  <2> QED BY <2>1, FreshNothing
<1>10. CASE Returns(c)
  <2> PICK op, status : Ends(c, op, status)
    BY <1>10 DEF Returns, ReturnError, ReturnKeys, ReturnAEAD, ReturnSealed, ReturnOpened
  <2>1. var'[c] = NoHandles
    BY <1>1 DEF Ends, TypeOK
  <2> QED BY <2>1, FreshNothing
<1>11. CASE Accept(c)
  <2>1. var'[c] = NoHandles
    BY <1>1, <1>11 DEF Accept, AcceptConnection, HandlesOK, Connected, callVars
  <2> QED BY <2>1, FreshNothing
<1> QED BY <1>2, <1>3, <1>4, <1>5, <1>6, <1>8, <1>9, <1>10, <1>11 DEF StepOf, Advance, LocalStep

-----------------------------------------------------------------------------
(* What others do. *)

SuccessOK(c) == ConnectedOK(c) /\ OnceOK(c) /\ FreshOK(c) /\ FailureOK(c)

\* Steps of others do not touch what a call has loaded, or its answer.
LEMMA OthersSuccess ==
  ASSUME HandleInv, NEW d \in Client, NEW c \in Client \ {d}, StepOf(d), SinceOK(c), SuccessOK(c)
  PROVE  SuccessOK(c)'
<1>1. TypeOK
  BY DEF HandleInv, IInv
<1>2. /\ call'[c] = call[c] /\ todo'[c] = todo[c] /\ var'[c] = var[c]
      /\ work'[c] = work[c] /\ outcome'[c] = outcome[c]
      /\ (c \in served' <=> c \in served) /\ (c \in conns' <=> c \in conns)
  BY <1>1, OthersApart, OthersConnections
<1>3. pcr' = pcr /\ hier' = hier
  BY <1>1, WorldStays
<1>4. Calm(c)' => Calm(c)
  <2>1. [Next]_vars
    BY DEF Next, Environment, StepOf
  <2> QED BY <1>1, <1>2, <2>1, CalmBefore
<1>5. ConnectedOK(c)'
  BY <1>2, <1>4 DEF SuccessOK, ConnectedOK, Connected, Ahead
<1>6. OnceOK(c)'
  BY <1>2 DEF SuccessOK, OnceOK
<1>7. FailureOK(c)'
  <2>1. /\ Failing(c)' <=> Failing(c)
        /\ Suited(call[c])' <=> Suited(call[c])
        /\ Modest(c)' <=> Modest(c)
        /\ Excused(c)' <=> Excused(c)
    BY <1>2, <1>3 DEF Failing, Suited, Usable, Satisfies, Modest, Excused
  <2> QED BY <1>2, <1>4, <2>1 DEF SuccessOK, FailureOK
<1>8. FreshOK(c)'
  <2> SUFFICES ASSUME c \in served', Calm(c)'
               PROVE  PrimaryFresh(c)' /\ \A v \in SessionVariable : SessionThere(c, v)'
    BY DEF FreshOK
  <2>1. PrimaryFresh(c) /\ \A v \in SessionVariable : SessionThere(c, v)
    BY <1>2, <1>4 DEF SuccessOK, FreshOK
  <2>2. d \in served => Own(c) \intersect Own(d) = {}
    BY <1>2, OwnApart, TransportAssumption DEF HandleInv, OneServed
  <2>3. \A v \in Variable : var[c][v] \in Own(c) \union {NoHandle}
    BY DEF HandleInv, HandlesOK, Variable, Own
  <2>4. NoHandle \notin Own(d)
    BY HandleShape
  <2>5. Touches(d)
    BY StepTouches
  <2>6. PrimaryFresh(c)'
    <3> SUFFICES ASSUME NEW o \in Loaded(c, "primary", "primary")'
                 PROVE  o.key.seed = hier.seed
      BY <1>3 DEF PrimaryFresh
    <3>1. o \in objects' /\ o.handle = var[c]["primary"] /\ o.kind = "primary" /\ "primary" \in Variable
      BY <1>2 DEF Loaded, ObjectsAt, Variable, ObjectVariable
    <3>2. PICK x \in objects : o.handle = x.handle /\ o.kind = x.kind /\ o.key = x.key
      BY <2>2, <2>3, <2>4, <2>5, <3>1 DEF Touches
    <3> QED BY <2>1, <3>1, <3>2 DEF PrimaryFresh, Loaded, ObjectsAt
  <2>7. ASSUME NEW v \in SessionVariable PROVE SessionThere(c, v)'
    <3>1. /\ \A m : (Taken(c, m)' <=> Taken(c, m)) /\ (Ahead(c, m)' <=> Ahead(c, m))
          /\ AssertedIn(c, v)' = AssertedIn(c, v) /\ (Modest(c)' <=> Modest(c))
      BY <1>2 DEF Taken, Ahead, AssertedIn, Modest
    <3> SUFFICES ASSUME Taken(c, <<"StartAuthSession", v>>), Ahead(c, SessionUse[v]), Modest(c),
                        NEW s \in OpenSession(c, v)'
                 PROVE  SessionReady(c, v, s)'
      BY <3>1 DEF SessionThere
    <3>2. s \in sessions' /\ s.handle = var[c][v] /\ v \in Variable
      BY <1>2 DEF OpenSession, SessionsAt, Variable
    <3>3. PICK x \in sessions : SameSession(s, x)
      BY <2>2, <2>3, <2>4, <2>5, <3>2 DEF Touches
    <3>4. SessionReady(c, v, x)
      BY <2>1, <3>2, <3>3 DEF SessionThere, OpenSession, SessionsAt, SameSession
    <3> QED BY <1>2, <1>3, <3>1, <3>3, <3>4 DEF SessionReady, SameSession
  <2> QED BY <2>6, <2>7
<1> QED BY <1>5, <1>6, <1>7, <1>8 DEF SuccessOK

\* What happens to the device ends the calm.
LEMMA DeviceSuccess ==
  ASSUME TypeOK, NEW c \in Client, SinceOK(c), SuccessOK(c), Restart \/ ExtendPCR \/ ChangeOwnerAuth \/ Clear
  PROVE  SuccessOK(c)'
<1>1. UNCHANGED <<call, todo, var, work, outcome>> /\ events' = events + 1
  BY DEF Restart, ExtendPCR, ChangeOwnerAuth, Clear, Happens, callVars
<1>2. ~Calm(c)'
  BY <1>1, NotCalm
<1>3. ConnectedOK(c)' /\ FreshOK(c)'
  BY <1>2 DEF ConnectedOK, FreshOK
<1>4. OnceOK(c)'
  BY <1>1 DEF SuccessOK, OnceOK
<1>5. FailureOK(c)'
  BY <1>1, <1>2 DEF SuccessOK, FailureOK, Failing
<1> QED BY <1>3, <1>4, <1>5 DEF SuccessOK

LEMMA StillSuccess ==
  ASSUME NEW c \in Client, SuccessOK(c), UNCHANGED vars
  PROVE  SuccessOK(c)'
<1>1. UNCHANGED <<call, todo, var, work, outcome, events, objects, sessions, conns, served, pcr, hier>>
  BY DEF vars, callVars, tpmVars
<1>2. ConnectedOK(c)' /\ OnceOK(c)'
  BY <1>1 DEF SuccessOK, ConnectedOK, OnceOK, Calm, Connected, Ahead
<1>3. FailureOK(c)'
  BY <1>1 DEF SuccessOK, FailureOK, Failing, Calm, Suited, Usable, Satisfies, Modest, Excused
<1>4. FreshOK(c)'
  <2>1. PrimaryFresh(c)' <=> PrimaryFresh(c)
    BY <1>1 DEF PrimaryFresh, Loaded, ObjectsAt
  <2>2. ASSUME NEW v \in SessionVariable PROVE SessionThere(c, v)' <=> SessionThere(c, v)
    <3>1. /\ \A m : (Taken(c, m)' <=> Taken(c, m)) /\ (Ahead(c, m)' <=> Ahead(c, m))
          /\ (Modest(c)' <=> Modest(c)) /\ OpenSession(c, v)' = OpenSession(c, v)
      BY <1>1 DEF Taken, Ahead, Modest, OpenSession, SessionsAt
    <3>2. AssertedIn(c, v)' = AssertedIn(c, v)
      BY <1>1, <3>1 DEF AssertedIn
    <3>3. \A s : SessionReady(c, v, s)' <=> SessionReady(c, v, s)
      BY <1>1, <3>2 DEF SessionReady
    <3> QED BY <3>1, <3>3 DEF SessionThere
  <2> QED BY <1>1, <2>1, <2>2 DEF SuccessOK, FreshOK, Calm
<1> QED BY <1>2, <1>3, <1>4 DEF SuccessOK

-----------------------------------------------------------------------------
(* Why a call fails. *)

\* A call that a caller has done everything right for finds its own checks met, ...
LEMMA ChecksMet ==
  ASSUME HandleInv, NEW c \in Client, Suited(call[c])
  PROVE  /\ AtStep(c, "CheckLengths", "none") => LengthsOK(call[c])
         /\ AtStep(c, "CheckKeys", "none") => KeysOK(call[c])
<1>1. ASSUME AtStep(c, "CheckLengths", "none") PROVE LengthsOK(call[c])
  <2>1. call[c].op \in {"Seal", "Open"}
    BY <1>1, StepOfOp
  <2> QED BY <2>1 DEF Suited
<1>2. ASSUME AtStep(c, "CheckKeys", "none") PROVE KeysOK(call[c])
  <2>1. <<"CheckKeys", "none">> \in StepsOf(call[c])
    BY <1>2, StepOfOp
  <2>2. call[c].op = "NewAESCTRHMAC"
    <3>1. call[c].op \in {"NewKey", "NewAESCTRHMAC", "Seal", "Open"}
      BY <2>1 DEF StepsOf
    <3>2. call[c].op # "NewKey"
      BY <2>1 DEF StepsOf, NewKeySteps, SessionSteps
    <3>3. call[c].op # "Seal"
      BY <2>1 DEF StepsOf, SealSteps, CryptSteps, SessionSteps
    <3>4. call[c].op # "Open"
      BY <2>1 DEF StepsOf, OpenSteps, CryptSteps, SessionSteps
    <3> QED BY <3>1, <3>2, <3>3, <3>4
  <2> QED BY <2>2 DEF Suited
<1> QED BY <1>1, <1>2

\* ... but for a tag that is not the right one, ...
LEMMA TagExcused ==
  ASSUME HandleInv, NEW c \in Client, WorkOK(c), ~Failing(c), AtStep(c, "CheckTag", "none"),
         work[c].tag # call[c].tag, call'[c] = call[c], work'[c] = work[c]
  PROVE  Excused(c)'
<1>1. <<"CheckTag", "none">> \in StepsOf(call[c]) /\ <<"CheckTag", "none">>[1] = "CheckTag"
  BY StepOfOp
<1>2. call[c].op = "Open"
  BY <1>1, WhoseSteps
<1>3. Taken(c, TagStep)
  BY <1>2, OpenPosition, OpenPlaces
<1>4. work[c].tag = Tag(call[c].aead.hmac, call[c].nonce, call[c].aad, CallCiphertext(c))
  BY <1>2, <1>3 DEF WorkOK, CryptOK
<1>5. CallCiphertext(c) = call[c].ct
  BY <1>2 DEF CallCiphertext
<1> QED BY <1>2, <1>4, <1>5 DEF Excused

\* ... its connection open, ...
LEMMA StillConnected ==
  ASSUME HandleInv, NEW c \in Client, ConnectedOK(c), Calm(c), todo[c] # <<>>,
         NextStep(c)[1] \notin LocalCommand
  PROVE  Connected(c)
<1> SUFFICES ASSUME Ahead(c, <<"Dial", "none">>) PROVE FALSE
  BY DEF ConnectedOK
<1>1. PICK i \in 1..Len(todo[c]) : todo[c][i] = <<"Dial", "none">>
  BY DEF Ahead
<1>2. i = 1 \/ (i = 2 /\ todo[c][1][1] = "CheckLengths")
  BY <1>1 DEF StackOK, HandleInv, IInv
<1>3. todo[c] \in Seq(Step)
  BY DEF HandleInv, IInv, TypeOK
<1>4. NextStep(c) = todo[c][1]
  BY <1>3 DEF NextStep
<1> QED BY <1>1, <1>2, <1>4 DEF LocalCommand

\* ... the authorisation the right one, ...
LEMMA AuthMet ==
  ASSUME HandleInv, NEW c \in Client, Suited(call[c]), Running(c), todo[c] # <<>>
  PROVE  ~Refused(c, "auth")
<1> SUFFICES ASSUME NextStep(c)[1] = "CreatePrimary" PROVE call[c].parentPass = hier.auth
  BY DEF Refused
<1>1. NextStep(c)[1] \in CommandsOf(call[c].op)
  BY StepOfFunction DEF HandleInv, IInv
<1>2. call[c].op \in {"NewKey", "Seal", "Open"}
  BY <1>1 DEF CommandsOf
<1> QED BY <1>2 DEF Suited, Usable

\* ... the keys children of the primary, ...
LEMMA IntegrityMet ==
  ASSUME HandleInv, NEW c \in Client, Suited(call[c]), PrimaryFresh(c), Running(c), todo[c] # <<>>
  PROVE  ~Refused(c, "integrity")
<1>1. PICK cmd, v : NextStep(c) = <<cmd, v>>
  BY StepOfFunction DEF Step, HandleInv, IInv
<1>2. AtStep(c, cmd, v) /\ NextStep(c)[1] = cmd /\ NextStep(c)[2] = v
  BY <1>1 DEF AtStep
<1> SUFFICES ASSUME cmd = "Load", NEW p \in Loaded(c, "primary", "primary")
             PROVE  KeyFile(c, v).seed = p.key.seed
  BY <1>2 DEF Refused
<1>3. call[c].op \in {"Seal", "Open"} /\ v \in {"aes", "hmac"}
  BY <1>2, StepOfOp
<1>4. KeyFile(c, v).seed = hier.seed
  BY <1>3 DEF Suited, Usable, KeyFile
<1> QED BY <1>4 DEF PrimaryFresh

\* ... the PCRs as its session says, ...
LEMMA ValueMet ==
  ASSUME HandleInv, NEW c \in Client, Suited(call[c]), Modest(c), Running(c), todo[c] # <<>>,
         \A v \in SessionVariable : SessionThere(c, v)
  PROVE  ~Refused(c, "value")
<1>1. PICK cmd, v : NextStep(c) = <<cmd, v>>
  BY StepOfFunction DEF Step, HandleInv, IInv
<1>2. AtStep(c, cmd, v) /\ NextStep(c)[1] = cmd /\ NextStep(c)[2] = v
  BY <1>1 DEF AtStep
<1> SUFFICES ASSUME cmd = "PolicyPCR", NEW s \in OpenSession(c, v)
             PROVE  PCRAccepted(s, call[c].session.digest)
  BY <1>2 DEF Refused
<1>3. v \in SessionVariable
  BY <1>2, NamedInUse DEF Finds
<1>4. <<"PolicyPCR", v>> \in StepsOf(call[c])
  BY <1>2, StepOfOp
<1>5. UsesSession(call[c], v)
  BY <1>3, <1>4, WhoseSessions
<1>6. CASE call[c].op = "NewKey"
  <2>1. v = "trial"
    BY <1>5, <1>6 DEF UsesSession
  <2>2. PlaceOf("NewKey", <<"PolicyPCR", "trial">>) = 3
    BY DEF PlaceOf, NewKeyPlace
  <2>3. /\ Taken(c, <<"StartAuthSession", "trial">>)
        /\ ~Taken(c, <<"PolicyGetDigest", "trial">>)
    BY <1>2, <1>6, <2>1, <2>2, NewKeyPosition
  <2>4. <<"PolicyGetDigest", "trial">> \in StepsOf(call[c])
    BY <1>6 DEF StepsOf, NewKeySteps
  <2>5. Ahead(c, SessionUse["trial"])
    BY <2>3, <2>4 DEF Taken, SessionUse
  <2>6. SessionReady(c, "trial", s)
    BY <1>3, <2>1, <2>3, <2>5 DEF SessionThere
  <2> QED BY <2>6 DEF SessionReady, PCRAccepted
<1>7. CASE call[c].op \in {"Seal", "Open"}
  <2>1. call[c].session.kind \in {"pcr", "pcr_authvalue"}
    BY <1>4, <1>5, SessionPlace
  <2>2. Satisfies(call[c].session, call[c].aead.aes)
    BY <1>7 DEF Suited, Usable
  <2> QED BY <2>1, <2>2 DEF Satisfies, PCRAccepted
<1> QED BY <1>5, <1>6, <1>7 DEF UsesSession

\* The commands that use a key use it under the session that is for it.
LEMMA UsesKeyOf ==
  ASSUME HandleInv, NEW c \in Client, NEW cmd \in UsesKey, NEW v, AtStep(c, cmd, v)
  PROVE  /\ call[c].op \in {"Seal", "Open"} /\ v \in {"aes", "hmac"}
         /\ SessionOf[v] \in SessionVariable /\ UsesSession(call[c], SessionOf[v])
         /\ <<cmd, v>> = SessionUse[SessionOf[v]] /\ <<cmd, v>> = LastUse[v]
<1>1. v \in {"aes", "hmac"}
  BY NamedInUse DEF Finds
<1>2. <<cmd, v>> \in StepsOf(call[c])
  BY StepOfOp DEF UsesKey
<1>3. call[c].op \in {"Seal", "Open"}
  BY <1>2, WhoseSteps DEF UsesKey
<1>4. <<cmd, v>> \in {<<"EncryptDecrypt2", "aes">>, <<"HmacStart", "hmac">>}
  <2>1. CASE call[c].op = "Seal"
    BY <1>2, <2>1 DEF StepsOf, SealSteps, CryptSteps, SessionSteps, UsesKey
  <2>2. CASE call[c].op = "Open"
    BY <1>2, <2>2 DEF StepsOf, OpenSteps, CryptSteps, SessionSteps, UsesKey
  <2> QED BY <1>3, <2>1, <2>2
<1> QED BY <1>1, <1>3, <1>4 DEF SessionOf, SessionVariable, UsesSession, SessionUse, LastUse, AESStep

\* A session made ready for a key authorises its use.
LEMMA ReadyAuthorizes ==
  ASSUME NEW c \in Client, NEW v \in {"aesSession", "hmacSession"}, NEW s, NEW key, SessionReady(c, v, s),
         AssertedIn(c, v) = PolicyOf(call[c].session), Satisfies(call[c].session, key)
  PROVE  Authorizes(s, key)
<1>1. ~s.trial /\ s.pcrCount \in {0, pcr.count} /\ s.digest = PolicyOf(call[c].session)
  BY DEF SessionReady
<1>2. s.digest = key.policy
  BY <1>1 DEF Satisfies
<1>3. ASSUME AuthAssertion \in Range(s.digest) PROVE s.password = key.auth
  <2>1. PICK i \in DOMAIN s.digest : s.digest[i] = AuthAssertion
    BY <1>3 DEF Range
  <2>2. PCRAssertion(call[c].session.digest) # AuthAssertion
    BY DEF PCRAssertion, AuthAssertion
  <2>3. call[c].session.kind \in {"authvalue", "pcr_authvalue"}
    <3> SUFFICES ASSUME call[c].session.kind \notin {"authvalue", "pcr_authvalue"} PROVE FALSE
      OBVIOUS
    <3>1. CASE call[c].session.kind \in {"pcr", "pcr_authvalue"}
      <4>1. s.digest = <<PCRAssertion(call[c].session.digest)>>
        BY <1>1, <3>1 DEF PolicyOf
      <4> QED BY <2>1, <2>2, <4>1
    <3>2. CASE call[c].session.kind \notin {"pcr", "pcr_authvalue"}
      <4>1. s.digest = <<>>
        BY <1>1, <3>2 DEF PolicyOf
      <4> QED BY <2>1, <4>1
    <3> QED BY <3>1, <3>2
  <2>4. s.password = SessionPassword(call[c].session, FALSE)
    BY DEF SessionReady
  <2> QED BY <2>3, <2>4 DEF SessionPassword, Satisfies
<1> QED BY <1>1, <1>2, <1>3 DEF Authorizes, PolicyMet, PCRUnchanged, PasswordMet

\* ... and the policy of its keys satisfied.
LEMMA AuthorizationMet ==
  ASSUME HandleInv, NEW c \in served, c \in Client, ContentOK(c), ~Failing(c), Suited(call[c]), Modest(c),
         Running(c), todo[c] # <<>>, \A v \in SessionVariable : SessionThere(c, v)
  PROVE  ~Refused(c, "policy")
<1>1. PICK cmd, v : NextStep(c) = <<cmd, v>>
  BY StepOfFunction DEF Step, HandleInv, IInv
<1>2. AtStep(c, cmd, v) /\ NextStep(c)[1] = cmd /\ NextStep(c)[2] = v
  BY <1>1 DEF AtStep
<1> SUFFICES ASSUME cmd \in UsesKey, NEW k \in Loaded(c, v, "key"), NEW s \in OpenSession(c, SessionOf[v])
             PROVE  Authorizes(s, k.key)
  BY <1>2 DEF Refused
<1>3. /\ call[c].op \in {"Seal", "Open"} /\ v \in {"aes", "hmac"}
      /\ SessionOf[v] \in SessionVariable /\ UsesSession(call[c], SessionOf[v])
      /\ <<cmd, v>> = SessionUse[SessionOf[v]] /\ <<cmd, v>> = LastUse[v]
  BY <1>2, UsesKeyOf
<1>4. Ahead(c, <<cmd, v>>)
  BY <1>2, AtAhead DEF HandleInv, IInv
<1>5. PICK w \in SessionVariable : w = SessionOf[v]
  BY <1>3
<1>6. w \in {"aesSession", "hmacSession"}
  BY <1>3, <1>5 DEF SessionOf
<1>7. Taken(c, <<"StartAuthSession", w>>) /\ AssertedIn(c, w) = PolicyOf(call[c].session)
  BY <1>2, <1>3, <1>5, AssertedAll
<1>8. SessionReady(c, w, s)
  BY <1>3, <1>4, <1>5, <1>7 DEF SessionThere
<1>9. k.key = KeyFile(c, v)
  <2>1. InUse(c, v)
    BY <1>2, NamedInUse DEF Finds
  <2>2. Taken(c, <<"Load", v>>)
    BY <1>3, <2>1, LoadingSteps DEF InUse
  <2>3. KeysThere(c)
    BY DEF ContentOK
  <2> QED BY <1>3, <1>4, <2>2, <2>3 DEF KeysThere
<1>10. Satisfies(call[c].session, k.key)
  BY <1>3, <1>9 DEF Suited, Usable, KeyFile
<1> QED BY <1>6, <1>7, <1>8, <1>10, ReadyAuthorizes

\* A resource manager gives every connection the slots that a call takes.
SlotsEnough == Transport = "rm" => ObjectSlots >= 3 /\ SessionSlots >= 1

\* Altogether a device refuses such a call nothing but room, on a socket.
LEMMA NoReason ==
  ASSUME SlotsEnough, HandleInv, LoadInv, RMOK, NEW c \in Client, ContentOK(c), ~Failing(c), FreshOK(c), Calm(c),
         Suited(call[c]), Modest(c), Running(c), todo[c] # <<>>, Served(c),
         NEW why \in Reason, Refused(c, why)
  PROVE  why = "memory" /\ Transport = "socket"
<1>1. HandleInv /\ PresentOK(c) /\ Kept(c)
  BY DEF LoadInv, Kept
<1>2. c \in served /\ PrimaryFresh(c) /\ \A v \in SessionVariable : SessionThere(c, v)
  BY DEF Served, FreshOK
<1>3. why # "handle"
  BY <1>1, NotRefused
<1>4. why # "auth" /\ why # "integrity"
  BY <1>1, <1>2, AuthMet, IntegrityMet
<1>5. why # "value"
  BY <1>1, <1>2, ValueMet
<1>6. why # "policy"
  BY <1>1, <1>2, AuthorizationMet
<1>7. why = "memory"
  BY <1>3, <1>4, <1>5, <1>6 DEF Reason
<1>8. Transport # "rm"
  <2> SUFFICES ASSUME Transport = "rm" PROVE FALSE
    OBVIOUS
  <2>1. ObjectSlots >= 3 /\ SessionSlots >= 1 /\ \A x \in Loadings : x.owner \in conns
    BY DEF SlotsEnough, RMOK
  <2>2. ~Refused(c, "memory")
    BY <2>1, SlotsLeft
  <2> QED BY <1>7, <2>2
<1> QED BY <1>7, <1>8, TransportAssumption

LEMMA FailSince ==
  ASSUME TypeOK, NEW c \in Client, NEW why, Fail(c, why)
  PROVE  outcome'[c].since = outcome[c].since
<1> DEFINE o == [outcome[c] EXCEPT !.why = why, !.at = NextStep(c)[1]]
<1>1. outcome' = [outcome EXCEPT ![c] = o]
  BY DEF Fail
<1>2. o.since = outcome[c].since
  BY DEF TypeOK, OutcomeType
<1> HIDE DEF o
<1> QED BY <1>1, <1>2 DEF TypeOK

\* Whoever ends it, such a call fails with an excuse.
LEMMA FailExcused ==
  ASSUME SlotsEnough, HandleInv, LoadInv, RMOK, NEW c \in Client, ContentOK(c), WorkOK(c), SuccessOK(c),
         NEW why, Fails(c, why), Calm(c), Calm(c)', Suited(call[c]), Modest(c)
  PROVE  Excused(c)'
<1>1. HandleInv /\ TypeOK /\ SinceOK(c)
  BY DEF LoadInv, HandleInv, IInv
<1>2. /\ ConnectedOK(c) /\ FreshOK(c) /\ ~Failing(c)
      /\ Running(c) /\ todo[c] # <<>> /\ Fail(c, why)
  BY DEF SuccessOK, FailureOK, Fails
<1>3. outcome'[c].why = why /\ outcome'[c].since = outcome[c].since
  BY <1>1, <1>2, FailWhy, FailSince
<1>4. call'[c] = call[c] /\ work'[c] = work[c]
  BY <1>2 DEF Fail
<1>5. CASE AtStep(c, "CheckLengths", "none") /\ ~LengthsOK(call[c])
  BY <1>1, <1>5, ChecksMet
<1>6. CASE AtStep(c, "CheckKeys", "none") /\ ~KeysOK(call[c])
  BY <1>1, <1>6, ChecksMet
<1>7. CASE AtStep(c, "CheckTag", "none") /\ work[c].tag # call[c].tag
  BY <1>1, <1>2, <1>4, <1>7, TagExcused
<1>8. CASE why \in Reason /\ Served(c) /\ Refused(c, why)
  <2>1. why = "memory" /\ Transport = "socket"
    BY <1>2, <1>8, NoReason
  <2> QED BY <1>3, <2>1 DEF Excused
<1>9. CASE ~Connected(c) /\ NextStep(c)[1] \notin LocalCommand
  BY <1>1, <1>2, <1>9, StillConnected
<1>10. CASE events' = events + 1
  BY <1>1, <1>3, <1>10, NotCalm
<1>11. FailsOf(c, why)
  BY DEF Fails
<1> QED BY <1>5, <1>6, <1>7, <1>8, <1>9, <1>10, <1>11, Zenon DEF FailsOf

\* An excuse stays one until the next call.
LEMMA FailureKept ==
  ASSUME TypeOK, NEW c \in Client, SinceOK(c), FailureOK(c), StepOf(c),
         call'[c] = call[c], todo'[c] = todo[c], work'[c] = work[c], outcome'[c].why = outcome[c].why,
         outcome'[c].status # "none" => call[c].op # "none",
         outcome'[c].status = "failed" => Failing(c)
  PROVE  FailureOK(c)'
<1>1. Failing(c)' <=> Failing(c)
  BY DEF Failing
<1>2. UNCHANGED <<pcr, hier>>
  BY WorldStays
<1>3. [Next]_vars
  BY DEF StepOf, Next, Environment
<1>4. Failing(c) /\ Calm(c)' => Calm(c)
  <2>1. \/ outcome'[c].since = outcome[c].since
        \/ outcome'[c].why = "none"
    BY OwnSince
  <2>2. CASE outcome'[c].since = outcome[c].since
    BY <1>3, <2>2, CalmBefore
  <2>3. CASE outcome'[c].why = "none"
    BY <2>3 DEF Failing
  <2> QED BY <2>1, <2>2, <2>3
<1>5. Suited(call[c])' <=> Suited(call[c])
  BY <1>2 DEF Suited, Usable, Satisfies
<1>6. (Modest(c)' <=> Modest(c)) /\ (Excused(c)' <=> Excused(c))
  BY DEF Modest, Excused
<1> QED BY <1>1, <1>4, <1>5, <1>6 DEF FailureOK

LEMMA OwnFailure ==
  ASSUME SlotsEnough, HandleInv, LoadInv, RMOK, NEW c \in Client, ContentOK(c), WorkOK(c), SuccessOK(c), StepOf(c)
  PROVE  FailureOK(c)'
<1>1. TypeOK /\ SinceOK(c) /\ FailureOK(c)
  BY DEF LoadInv, HandleInv, IInv, SuccessOK
<1>2. [Next]_vars
  BY DEF StepOf, Next, Environment
<1>3. UNCHANGED <<pcr, hier>>
  BY <1>1, WorldStays
<1>4. CASE Calls(c)
  <2>1. PICK a, program : Start(c, a, program) /\ Fresh(a)
    BY <1>1, <1>4, CallStarts
  <2>2. call'[c].op # "none"
    BY <1>1, <2>1 DEF Start, Fresh, TypeOK
  <2>3. outcome'[c].status = "pending" /\ outcome'[c].why = "none"
    BY <1>1, <2>1 DEF Start, TypeOK
  <2> QED BY <2>2, <2>3 DEF FailureOK, Failing
<1>5. CASE Crash(c)
  <2>1. Running(c) /\ Failing(c)' /\ call' = call
    BY <1>1, <1>5, CrashAnswer
  <2>2. call'[c].op # "none"
    BY <1>1, <2>1 DEF FailureOK, Running, Idle
  <2>3. todo'[c] = <<>> /\ events' = events + 1
    BY <1>1, <1>5 DEF Crash, Happens, TypeOK
  <2>4. outcome'[c].since = outcome[c].since
    BY <1>1, <1>5, <2>1, OwnSince DEF Failing
  <2>5. ~Calm(c)'
    BY <1>1, <2>3, <2>4, NotCalm
  <2> QED BY <2>1, <2>2, <2>3, <2>5 DEF FailureOK
<1>6. ASSUME NEW cmd, NEW v, Goes(c, cmd, v) PROVE FailureOK(c)'
  <2>1. UNCHANGED <<call, outcome>> /\ todo[c] # <<>>
    BY <1>6 DEF Goes, AtStep
  <2>2. ~Failing(c)' /\ call'[c].op = call[c].op /\ outcome'[c].status = outcome[c].status
    BY <1>1, <2>1 DEF FailureOK, Failing
  <2> QED BY <1>1, <2>1, <2>2 DEF FailureOK, Failing
<1>7. ASSUME NEW why, Fails(c, why) PROVE FailureOK(c)'
  <2>1. Running(c) /\ todo[c] # <<>> /\ Fail(c, why) /\ FailsOf(c, why)
    BY <1>7 DEF Fails
  <2>2. why # "none"
    BY <2>1 DEF FailsOf, Reason
  <2>3. Failing(c)' /\ outcome'[c].status = outcome[c].status
    BY <1>1, <2>1, <2>2, FailFails
  <2>4. todo'[c] = <<>> /\ call' = call
    BY <1>1, <2>1 DEF Fail, TypeOK
  <2>5. call'[c].op # "none"
    BY <1>1, <2>1, <2>4 DEF FailureOK, Running, Idle
  <2>6. ASSUME Calm(c)', Suited(call[c])', Modest(c)' PROVE Excused(c)'
    <3>1. outcome'[c].since = outcome[c].since
      BY <1>1, <2>1, FailSince
    <3>2. Calm(c)
      BY <1>1, <1>2, <2>6, <3>1, CalmBefore
    <3>3. Suited(call[c]) /\ Modest(c)
      BY <1>3, <2>4, <2>6 DEF Suited, Usable, Satisfies, Modest
    <3> QED BY <1>7, <2>6, <3>2, <3>3, FailExcused
  <2> QED BY <2>3, <2>4, <2>5, <2>6 DEF FailureOK
<1>8. CASE Unwinds(c) /\ ~Calls(c) /\ ~Crash(c)
  <2>1. /\ Running(c) /\ UNCHANGED <<call, todo, work>>
        /\ outcome'[c].why = outcome[c].why
    BY <1>8 DEF Unwinds, Unwinding
  <2>2. call[c].op # "none"
    BY <1>1, <2>1 DEF FailureOK, Running, Idle
  <2>3. outcome'[c].status = "failed" => Failing(c)
    <3>1. ASSUME NEW op, NEW status, Ends(c, op, status)
          PROVE  outcome'[c].status = "failed" => Failing(c)
      BY <1>1, <3>1, Answered
    <3>2. CASE Returns(c)
      BY <3>1, <3>2 DEF Returns, ReturnError, ReturnKeys, ReturnAEAD, ReturnSealed, ReturnOpened
    <3>3. CASE ~Returns(c)
      <4>1. outcome'[c].status = outcome[c].status
        BY <1>1, <1>8, <3>3, Unanswered
      <4> QED BY <1>1, <4>1 DEF FailureOK
    <3> QED BY <3>2, <3>3
  <2> QED BY <1>1, <2>1, <2>2, <2>3, FailureKept
<1>9. CASE Accept(c)
  <2>1. UNCHANGED <<call, todo, work, outcome>>
    BY <1>9 DEF Accept, callVars
  <2> QED BY <1>1, <2>1, FailureKept DEF FailureOK
<1>10. CASE ConnectionLost(c)
  <2>1. /\ UNCHANGED <<call, todo, work>> /\ outcome'[c].why = outcome[c].why
        /\ outcome'[c].status = outcome[c].status
    BY <1>1, <1>10, CutOutcome DEF ConnectionLost
  <2> QED BY <1>1, <2>1, FailureKept DEF FailureOK
<1> QED BY <1>1, <1>4, <1>5, <1>6, <1>7, <1>8, <1>9, <1>10, StepKinds

-----------------------------------------------------------------------------
(* Entitled callers succeed. *)

\* A call's own step leaves it as SuccessOK has it.
LEMMA OwnSuccess ==
  ASSUME SlotsEnough, HandleInv, LoadInv, TypeOK', RMOK, NEW c \in Client, ContentOK(c), WorkOK(c), SuccessOK(c), StepOf(c)
  PROVE  SuccessOK(c)'
<1>1. HandleInv /\ PresentOK(c) /\ SinceOK(c)
  BY DEF LoadInv
<1>2. ConnectedOK(c) /\ OnceOK(c) /\ FreshOK(c)
  BY DEF SuccessOK
<1>3. ConnectedOK(c)'
  BY <1>1, <1>2, OwnConnected
<1>4. OnceOK(c)'
  BY <1>1, <1>2, OwnOnce
<1>5. FreshOK(c)'
  BY <1>1, <1>2, OwnFresh
<1>6. FailureOK(c)'
  BY OwnFailure
<1> QED BY <1>3, <1>4, <1>5, <1>6 DEF SuccessOK

LEMMA InitSuccess == Init => SuccessInv
<1> SUFFICES ASSUME Init PROVE SuccessInv
  OBVIOUS
<1>1. objects = {} /\ sessions = {} /\ served = {}
  BY DEF Init, InitTPM
<1>2. RMOK
  BY <1>1 DEF RMOK, Loadings
<1>3. ASSUME NEW c \in Client
      PROVE  ConnectedOK(c) /\ OnceOK(c) /\ FreshOK(c) /\ FailureOK(c)
  <2>1. todo[c] = <<>> /\ outcome[c].status = "none" /\ outcome[c].why = "none"
    BY DEF Init
  <2>2. Len(todo[c]) = 0
    BY <2>1
  <2>3. ConnectedOK(c)
    BY <2>1 DEF ConnectedOK
  <2>4. OnceOK(c)
    BY <2>2 DEF OnceOK
  <2>5. FreshOK(c)
    BY <1>1 DEF FreshOK
  <2>6. FailureOK(c)
    BY <2>1 DEF FailureOK, Failing
  <2> QED BY <2>3, <2>4, <2>5, <2>6
<1> QED BY <1>2, <1>3 DEF SuccessInv

LEMMA NextSuccess ==
  ASSUME SlotsEnough, DataInv, LoadInv, SuccessInv, [Next]_vars, HandleInv'
  PROVE  SuccessInv'
<1>1. HandleInv /\ TypeOK /\ TypeOK' /\ RMOK
  BY DEF DataInv, HandleInv, IInv, SuccessInv
<1>2. RMOK'
  BY <1>1, NextOwned
<1>3. ASSUME NEW c \in Client PROVE SuccessOK(c)'
  <2>1. SuccessOK(c) /\ ContentOK(c) /\ WorkOK(c) /\ SinceOK(c)
    BY DEF SuccessInv, SuccessOK, DataInv, LoadInv
  <2>2. CASE StepOf(c)
    BY <1>1, <2>1, <2>2, OwnSuccess
  <2>3. ASSUME NEW d \in Client \ {c}, StepOf(d) PROVE SuccessOK(c)'
    BY <1>1, <2>1, <2>3, OthersSuccess
  <2>4. CASE Restart \/ ExtendPCR \/ ChangeOwnerAuth \/ Clear
    BY <1>1, <2>1, <2>4, DeviceSuccess
  <2>5. CASE UNCHANGED vars
    BY <2>1, <2>5, StillSuccess
  <2> QED BY <2>2, <2>3, <2>4, <2>5 DEF StepOf, Next, Environment
<1> QED BY <1>2, <1>3 DEF SuccessInv, SuccessOK

\* As long as nothing happens a call's sessions and its primary stay as its
\* steps made them, and a call of a caller who did everything right fails only
\* with an excuse: on any socket, and with a resource manager that gives every
\* connection the three object slots and the session slot a call takes.
THEOREM SuccessInvariant ==
  ASSUME SlotsEnough
  PROVE  Spec => []SuccessInv
<1>1. Init => SuccessInv
  BY InitSuccess
<1>2. DataInv /\ LoadInv /\ SuccessInv /\ [Next]_vars /\ DataInv' => SuccessInv'
  BY NextSuccess DEF DataInv
<1> QED BY <1>1, <1>2, DataInvariant, LoadInvariant, PTL DEF Spec

\* The caller did everything right whatever Open was given.
LEMMA EntitledSuited ==
  ASSUME NEW a, a.op \in {"NewKey", "NewAESCTRHMAC", "Seal", "Open"}, Entitled(a)
  PROVE  Suited(a)
<1>1. CASE a.op = "NewKey"
  BY <1>1 DEF Entitled, Suited
<1>2. CASE a.op = "NewAESCTRHMAC"
  BY <1>2 DEF Entitled, Suited
<1>3. CASE a.op = "Seal"
  BY <1>3 DEF Entitled, Suited
<1>4. CASE a.op = "Open"
  BY <1>4 DEF Entitled, Suited
<1> QED BY <1>1, <1>2, <1>3, <1>4

\* Input that Seal returned has the right tag.
LEMMA EntitledTag ==
  ASSUME SealedUnderOwnKeys, NEW a, a.op = "Open", Entitled(a)
  PROVE  a.tag = Tag(a.aead.hmac, a.nonce, a.aad, a.ct)
<1>1. PICK b \in sealed : /\ b.aead.hmac = a.aead.hmac
                          /\ b.nonce = a.nonce /\ b.aad = a.aad
                          /\ b.ct = a.ct /\ b.tag = a.tag
  BY DEF Entitled
<1>2. b.tag = [key |-> b.aead.hmac.id, nonce |-> b.nonce, aad |-> b.aad, ct |-> b.ct]
  BY DEF SealedUnderOwnKeys
<1> QED BY <1>1, <1>2 DEF Tag

LEMMA CallLength ==
  ASSUME TypeOK, NEW c \in Client
  PROVE  DataLength(call[c]) \in Nat
<1>1. \A t \in Text : t.len \in Nat
  BY DEF Text, TooShort
<1>2. CASE call[c].op = "Seal"
  <2>1. call[c].pt \in Text
    BY <1>2, CallTypes
  <2> QED BY <1>1, <1>2, <2>1 DEF DataLength
<1>3. CASE call[c].op = "Open"
  <2>1. call[c].ct.pt \in Text
    BY <1>3, CallTypes DEF CiphertextType
  <2> QED BY <1>1, <1>3, <2>1 DEF DataLength
<1> QED BY <1>2, <1>3 DEF DataLength

LEMMA EntitledExcuse ==
  ASSUME DataInv, SuccessInv, NEW c \in Client, FailsThoughEntitled(c)
  PROVE  ~Modest(c)
<1> SUFFICES ASSUME Modest(c) PROVE FALSE
  OBVIOUS
<1>1. /\ outcome[c].status = "failed" /\ Calm(c) /\ Entitled(call[c])
      /\ ~(Transport = "socket" /\ outcome[c].why = "memory")
  BY DEF FailsThoughEntitled, Calm
<1>2. FailureOK(c)
  BY DEF SuccessInv
<1>3. Failing(c) /\ call[c].op # "none"
  BY <1>1, <1>2 DEF FailureOK
<1>4. Suited(call[c])
  <2>1. call[c].op \in {"NewKey", "NewAESCTRHMAC", "Seal", "Open"}
    BY <1>3 DEF DataInv, HandleInv, IInv, TypeOK, CallType
  <2> QED BY <1>1, <2>1, EntitledSuited
<1>5. Excused(c)
  BY <1>1, <1>2, <1>3, <1>4 DEF FailureOK
<1>6. /\ call[c].op = "Open" /\ work[c].tag # call[c].tag
      /\ work[c].tag = Tag(call[c].aead.hmac, call[c].nonce, call[c].aad, call[c].ct)
  BY <1>1, <1>5 DEF Excused
<1>7. SealedUnderOwnKeys
  BY DEF DataInv, HistoryOK
<1>8. call[c].tag = Tag(call[c].aead.hmac, call[c].nonce, call[c].aad, call[c].ct)
  BY <1>1, <1>6, <1>7, EntitledTag
<1> QED BY <1>6, <1>8

\* A caller with the right passwords, PCRs and input succeeds, whatever went
\* wrong before its call, if the keys have no policy or the data fits one
\* EncryptDecrypt2 command: the authorisations of CreatePrimary, the sessions
\* of GetSession and the deferred flushes, for any number of callers at once.
THEOREM EntitledCallersSucceed ==
  ASSUME SlotsEnough
  PROVE  Spec => []EntitledSucceeds
<1>1. DataInv /\ SuccessInv => EntitledSucceeds
  <2> SUFFICES ASSUME DataInv, SuccessInv, NEW c \in Client, FailsThoughEntitled(c)
               PROVE  call[c].session.kind # "none" /\ DataLength(call[c]) > maxDigestBuffer
    BY DEF EntitledSucceeds
  <2>1. call[c].session.kind # "none" /\ ~(DataLength(call[c]) <= maxDigestBuffer)
    BY EntitledExcuse DEF Modest
  <2>2. DataLength(call[c]) \in Nat
    BY CallLength DEF DataInv, HandleInv, IInv
  <2> QED BY <2>1, <2>2 DEF maxDigestBuffer
<1> QED BY <1>1, DataInvariant, SuccessInvariant, PTL
=============================================================================
