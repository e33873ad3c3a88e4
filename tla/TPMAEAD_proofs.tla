--------------------------- MODULE TPMAEAD_proofs ---------------------------
(***************************************************************************)
(* Proofs about TPMAEAD, for any number of clients, slots and events, any  *)
(* messages, sessions and passwords, and both kinds of transport: where    *)
(* calls are in their programs, and that they release what they loaded.    *)
(***************************************************************************)
EXTENDS TPMAEADInvariants, TLAPS

-----------------------------------------------------------------------------
(* The programs. *)

\* s is a sequence of steps with commands in C.
Over(s, C) == s \in Seq(Step) /\ \A i \in 1..Len(s) : s[i][1] \in C

\* The connection is opened first, or right after the lengths were checked.
DialEarly(s) ==
  \A i \in 1..Len(s) : s[i][1] = "Dial" => i = 1 \/ (i = 2 /\ s[1][1] = "CheckLengths")

Begins(s, C) == Over(s, C) /\ DialEarly(s) /\ s # <<>>

\* Two sequences of steps over C make one.
LEMMA OverConcat ==
  ASSUME NEW C, NEW s, NEW t, Over(s, C), Over(t, C)
  PROVE  Over(s \o t, C)
BY DEF Over

\* A program may go on with anything but another Dial.
LEMMA BeginsConcat ==
  ASSUME NEW C, NEW s, NEW t, Begins(s, C), Over(t, C \ {"Dial"})
  PROVE  Begins(s \o t, C)
<1>1. Over(s \o t, C)
  BY DEF Over, Begins
<1>2. DialEarly(s \o t)
  <2> SUFFICES ASSUME NEW i \in 1..Len(s \o t), (s \o t)[i][1] = "Dial"
               PROVE  i = 1 \/ (i = 2 /\ (s \o t)[1][1] = "CheckLengths")
    BY DEF DialEarly
  <2>1. s \in Seq(Step) /\ t \in Seq(Step) /\ Len(s) \in Nat /\ Len(s) > 0
    BY DEF Begins, Over
  <2>2. CASE i <= Len(s)
    BY <2>1, <2>2 DEF Begins, DialEarly
  <2>3. CASE i > Len(s)
    <3>1. (s \o t)[i] = t[i - Len(s)] /\ i - Len(s) \in 1..Len(t)
      BY <2>1, <2>3
    <3> QED BY <3>1 DEF Over
  <2> QED BY <2>1, <2>2, <2>3
<1>3. s \o t # <<>>
  BY DEF Begins, Over
<1> QED BY <1>1, <1>2, <1>3 DEF Begins

\* A step over C, repeated.
LEMMA OverRepeat ==
  ASSUME NEW C, NEW step \in Step, step[1] \in C, NEW n \in Nat
  PROVE  Over(Repeat(step, n), C)
BY DEF Over, Repeat

\* The numbers of commands in the two loops are natural numbers.
LEMMA TurnsType ==
  ASSUME NEW len \in Nat
  PROVE  EncryptTurns(len) \in Nat /\ UpdateTurns(len) \in Nat
BY DEF EncryptTurns, UpdateTurns, maxDigestBuffer, maxInputBuffer

\* So is the length of what is authenticated.
LEMMA MacLengthType ==
  ASSUME NEW a \in Nat, NEW b \in Nat, NEW n \in Nat
  PROVE  MacLength(a, b, n) \in Nat
BY DEF MacLength, PaddingLength, blockSize

\* The parts the programs are put together from.
LEMMA SessionOver ==
  ASSUME NEW C, NEW kind, NEW v \in Variable, SessionCommands \subseteq C
  PROVE  Over(GetSession(kind, v), C)
<1> DEFINE a == << <<"StartAuthSession", v>> >>
           b == IF kind \in {"pcr", "pcr_authvalue"} THEN << <<"PolicyPCR", v>> >> ELSE <<>>
           d == IF kind \in {"authvalue", "pcr_authvalue"} THEN << <<"PolicyAuthValue", v>> >> ELSE <<>>
           e == << <<"Defer", v>> >>
<1>1. \A cmd \in SessionCommands : <<cmd, v>> \in Step /\ cmd \in C
  BY DEF Step, SessionCommands, Command, LocalCommand
<1>2. Over(a, C) /\ Over(b, C) /\ Over(d, C) /\ Over(e, C)
  BY <1>1 DEF Over, SessionCommands
<1>3. Over(((a \o b) \o d) \o e, C)
  <2> HIDE DEF a, b, d, e
  <2> QED BY <1>2, OverConcat
<1> QED BY <1>3 DEF GetSession

\* The loop of encryptDecryptSymmetric issues one command.
LEMMA EncryptOver ==
  ASSUME NEW C, "EncryptDecrypt2" \in C, NEW len \in Nat
  PROVE  Over(Encrypt(len), C)
BY TurnsType, OverRepeat DEF Encrypt, Step, Command, Variable, ObjectVariable

\* tpmhmac issues four, after a read of the key's public part.
LEMMA HmacOver ==
  ASSUME NEW C, {"ReadPublic", "HmacStart", "SequenceUpdate", "SequenceComplete"} \subseteq C,
         NEW len \in Nat
  PROVE  Over(Hmac(len), C)
<1> DEFINE a == << <<"ReadPublic", "hmac">>, <<"HmacStart", "hmac">> >>
           b == Repeat(<<"SequenceUpdate", "sequence">>, UpdateTurns(len))
           d == << <<"SequenceComplete", "sequence">> >>
<1>1. Over(a, C) /\ Over(d, C)
  BY DEF Over, Step, Command, Variable, ObjectVariable
<1>2. Over(b, C)
  BY TurnsType, OverRepeat DEF Step, Command, Variable, ObjectVariable
<1>3. Over((a \o b) \o d, C)
  <2> HIDE DEF a, b, d
  <2> QED BY <1>1, <1>2, OverConcat
<1> QED BY <1>3 DEF Hmac

\* Every program is made of its function's commands and dials early.
LEMMA NewKeyBegins ==
  ASSUME NEW kind
  PROVE  Begins(NewKeyProgram(kind), CommandsOf("NewKey"))
<1> DEFINE C == CommandsOf("NewKey")
           a == << <<"Dial", "none">> >>
           b == << <<"PolicyGetDigest", "trial">>, <<"CreatePrimary", "primary">>,
                   <<"Create", "aes">>, <<"Create", "hmac">> >>
<1>1. Begins(a, C)
  BY DEF Begins, Over, DialEarly, Step, Command, LocalCommand, CommandsOf
<1>2. Over(GetSession(kind, "trial"), C \ {"Dial"})
  BY SessionOver DEF Variable, SessionVariable, SessionCommands, CommandsOf
<1>3. Over(b, C \ {"Dial"})
  BY DEF Over, Step, Command, LocalCommand, CommandsOf, Variable, SessionVariable, ObjectVariable
<1>4. Begins((a \o GetSession(kind, "trial")) \o b, C)
  <2> HIDE DEF a, b, C
  <2> QED BY <1>1, <1>2, <1>3, BeginsConcat
<1> QED BY <1>4 DEF NewKeyProgram

\* The same for NewAESCTRHMAC, ...
LEMMA NewAEADBegins == Begins(NewAESCTRHMACProgram, CommandsOf("NewAESCTRHMAC"))
BY DEF NewAESCTRHMACProgram, Begins, Over, DialEarly, Step, Command, LocalCommand, CommandsOf

\* Seal's and Open's commands but for Dial.
LEMMA CryptParts ==
  ASSUME NEW C, CryptCommands \ {"Dial"} \subseteq C, NEW kind, NEW len \in Nat
  PROVE  /\ Over(GetSession(kind, "aesSession"), C)
         /\ Over(GetSession(kind, "hmacSession"), C)
         /\ Over(Encrypt(len), C)
         /\ Over(Hmac(len), C)
<1>1. SessionCommands \subseteq C /\ "EncryptDecrypt2" \in C
      /\ {"ReadPublic", "HmacStart", "SequenceUpdate", "SequenceComplete"} \subseteq C
  BY DEF CryptCommands, SessionCommands
<1>2. "aesSession" \in Variable /\ "hmacSession" \in Variable
  BY DEF Variable, SessionVariable
<1> QED BY <1>1, <1>2, SessionOver, EncryptOver, HmacOver

\* ... for Seal, ...
LEMMA SealBegins ==
  ASSUME NEW kind, NEW n \in Nat, NEW a \in Nat, NEW len \in Nat
  PROVE  Begins(SealProgram(kind, n, a, len), CommandsOf("Seal"))
<1> DEFINE C == CommandsOf("Seal")
           D == C \ {"Dial"}
           h == << <<"CheckLengths", "none">>, <<"Dial", "none">>,
                   <<"CreatePrimary", "primary">>, <<"Load", "aes">> >>
           f == << <<"FlushContext", "aes">>, <<"FlushContext", "aesSession">> >>
           l == << <<"Load", "hmac">> >>
           d == << <<"Defer", "hmac">> >>
           m == MacLength(n, a, len)
<1>1. Begins(h, C)
  BY DEF Begins, Over, DialEarly, Step, Command, LocalCommand, CommandsOf, CryptCommands,
         Variable, ObjectVariable
<1>2. Over(f, D) /\ Over(l, D) /\ Over(d, D)
  BY DEF Over, Step, Command, LocalCommand, CommandsOf, CryptCommands, SessionCommands,
         Variable, ObjectVariable, SessionVariable
<1>3. /\ Over(GetSession(kind, "aesSession"), D) /\ Over(GetSession(kind, "hmacSession"), D)
      /\ Over(Encrypt(len), D) /\ Over(Hmac(m), D)
  <2>1. CryptCommands \ {"Dial"} \subseteq D /\ m \in Nat
    BY MacLengthType DEF CommandsOf
  <2> HIDE DEF D, m
  <2> QED BY <2>1, CryptParts
<1>4. Begins(h \o GetSession(kind, "aesSession"), C)
  <2> HIDE DEF h, C
  <2> QED BY <1>1, <1>3, BeginsConcat
<1>5. Over(((l \o GetSession(kind, "hmacSession")) \o Hmac(m)) \o d, D)
  <2> HIDE DEF l, d, D, m
  <2> QED BY <1>2, <1>3, OverConcat
<1>6. Begins((((h \o GetSession(kind, "aesSession")) \o Encrypt(len)) \o f)
             \o (((l \o GetSession(kind, "hmacSession")) \o Hmac(m)) \o d), C)
  <2> DEFINE x == h \o GetSession(kind, "aesSession")
             y == ((l \o GetSession(kind, "hmacSession")) \o Hmac(m)) \o d
  <2>1. Begins(x, C) /\ Over(y, D)
    BY <1>4, <1>5
  <2> HIDE DEF f, C, x, y
  <2>2. Begins((x \o Encrypt(len)) \o f, C)
    BY <1>2, <1>3, <2>1, BeginsConcat
  <2>3. Begins(((x \o Encrypt(len)) \o f) \o y, C)
    BY <2>1, <2>2, BeginsConcat
  <2> QED BY <2>3 DEF x, y
<1> QED BY <1>6 DEF SealProgram, SealHead, SealTail

\* ... and for Open.
LEMMA OpenBegins ==
  ASSUME NEW kind, NEW n \in Nat, NEW a \in Nat, NEW len \in Nat
  PROVE  Begins(OpenProgram(kind, n, a, len), CommandsOf("Open"))
<1> DEFINE C == CommandsOf("Open")
           D == C \ {"Dial"}
           h == << <<"CheckLengths", "none">>, <<"Dial", "none">>,
                   <<"CreatePrimary", "primary">>, <<"Load", "hmac">> >>
           f == << <<"FlushContext", "hmacSession">>, <<"FlushContext", "hmac">>,
                   <<"CheckTag", "none">>, <<"Load", "aes">> >>
           m == MacLength(n, a, len)
           g1 == GetSession(kind, "hmacSession")
           g2 == GetSession(kind, "aesSession")
<1>1. Begins(h, C)
  BY DEF Begins, Over, DialEarly, Step, Command, LocalCommand, CommandsOf, CryptCommands,
         Variable, ObjectVariable
<1>2. Over(f, D)
  BY DEF Over, Step, Command, LocalCommand, CommandsOf, CryptCommands, SessionCommands,
         Variable, ObjectVariable, SessionVariable
<1>3. Over(g1, D) /\ Over(g2, D) /\ Over(Encrypt(len), D) /\ Over(Hmac(m), D)
  <2>1. CryptCommands \ {"Dial"} \subseteq D /\ m \in Nat
    BY MacLengthType DEF CommandsOf
  <2> HIDE DEF D, m
  <2> QED BY <2>1, CryptParts
<1>4. Begins(((((h \o g1) \o Hmac(m)) \o f) \o g2) \o Encrypt(len), C)
  <2> HIDE DEF h, f, g1, g2, m, C
  <2>1. Begins(((h \o g1) \o Hmac(m)) \o f, C)
    BY <1>1, <1>2, <1>3, BeginsConcat
  <2> QED BY <1>3, <2>1, BeginsConcat
<1> QED BY <1>4 DEF OpenProgram

-----------------------------------------------------------------------------
(* Types. *)

USE DEF Running, NextStep

\* Handles of free slots are handles, and are neither of the other entries of
\* a stack of deferred functions.
LEMMA FreeHandles ==
  ASSUME NEW c \in Client
  PROVE  /\ \A h \in Allocated(FreeObjectHandles(c)) : h \in ObjectHandle /\ h \in Handle
         /\ \A h \in Allocated(FreeSessionHandles(c)) : h \in SessionHandle /\ h \in Handle
BY DEF Allocated, FreeObjectHandles, FreeSessionHandles, ObjectHandle, SessionHandle, Handle

\* A deferred flush is not the deferred close.
LEMMA HandleIsNotClose ==
  ASSUME NEW h \in Handle \union {NoHandle}
  PROVE  h # CloseConn
BY DEF Handle, NoHandle, ObjectHandle, ObjectHandlesOf, SessionHandle, SessionHandlesOf, CloseConn

\* Taking a step off a program leaves a program.
LEMMA ProceedType ==
  ASSUME NEW c \in Client, todo \in [Client -> Seq(Step)], todo[c] # <<>>, Proceed(c)
  PROVE  todo' \in [Client -> Seq(Step)]
BY DEF Proceed

\* A stack with one more entry is a stack.
LEMMA PushType ==
  ASSUME NEW c \in Client, NEW D, defers \in [Client -> Seq(D)], NEW d \in D, PushDefer(c, d)
  PROVE  defers' \in [Client -> Seq(D)]
BY DEF PushDefer

\* Objects and sessions that change owner or are dropped keep their types.
LEMMA OrphanType ==
  ASSUME NEW c \in Client
  PROVE  /\ \A S \in SUBSET Object : Orphan(c, S) \in SUBSET Object /\ Remaining(c, S) \in SUBSET Object
         /\ \A S \in SUBSET Session : Orphan(c, S) \in SUBSET Session /\ Remaining(c, S) \in SUBSET Session
BY DEF Orphan, Remaining, Object, Session

\* The step of a program that is next belongs to the call's function.
LEMMA StepOfFunction ==
  ASSUME NEW c \in Client, TypeOK, ProgramOK(c), todo[c] # <<>>
  PROVE  /\ NextStep(c) \in Step
         /\ NextStep(c)[1] \in CommandsOf(call[c].op)
BY DEF TypeOK, ProgramOK

\* The arguments each function was called with.
LEMMA CallTypes ==
  ASSUME NEW c \in Client, TypeOK
  PROVE  /\ call[c].op \in {"NewKey", "Seal", "Open"} => call[c].session \in SessionConfig
         /\ call[c].op \in {"Seal", "Open"} =>
              call[c].aead \in AEAD /\ call[c].nonce \in Text /\ call[c].aad \in Text
         /\ call[c].op = "Seal" => call[c].pt \in Text
         /\ call[c].op = "Open" => call[c].ct \in CiphertextType /\ call[c].tag \in TagType
         /\ call[c].op = "NewKey" => call[c].keyPass \in Password
         /\ call[c].op = "NewAESCTRHMAC" =>
              /\ call[c].aes \in Key \union {NilKey} /\ call[c].hmac \in Key \union {NilKey}
              /\ call[c].parentPass \in Password /\ call[c].session \in SessionConfig
<1>1. call[c] \in CallType
  BY DEF TypeOK
<1> QED BY <1>1 DEF CallType

-----------------------------------------------------------------------------
(* One client's part of the invariant. *)

ClientOK(c) == ProgramOK(c) /\ ResultOK(c) /\ StackOK(c)

\* A step that leaves a client's call alone leaves its part of the invariant.
LEMMA Undisturbed ==
  ASSUME NEW c \in Client, ClientOK(c),
         call'[c] = call[c], todo'[c] = todo[c], defers'[c] = defers[c],
         work'[c] = work[c], outcome'[c].status = outcome[c].status,
         outcome'[c].why = outcome[c].why, c \in conns' => c \in conns
  PROVE  ClientOK(c)'
<1>1. ProgramOK(c)'
  BY DEF ClientOK, ProgramOK
<1>2. ResultOK(c)'
  BY DEF ClientOK, ResultOK, Idle, Failing, Ahead, KeysOK
<1>3. StackOK(c)'
  BY DEF ClientOK, StackOK, Idle, Connected, Deferred
<1> QED BY <1>1, <1>2, <1>3 DEF ClientOK

\* Taking a step: what is left has no Dial, unless the step was the check of
\* the lengths, and still has every other step.
LEMMA StepTaken ==
  ASSUME NEW c \in Client, TypeOK, ClientOK(c), NEW cmd, NEW v, AtStep(c, cmd, v),
         Proceed(c), call' = call
  PROVE  /\ todo' \in [Client -> Seq(Step)]
         /\ \A d \in Client \ {c} : todo'[d] = todo[d]
         /\ ProgramOK(c)'
         /\ cmd \in CommandsOf(call[c].op)
         /\ cmd # "CheckLengths" => \A i \in 1..Len(todo'[c]) : todo'[c][i][1] # "Dial"
         /\ \A i \in 1..Len(todo'[c]) : todo'[c][i][1] = "Dial" => i = 1 /\ defers[c] = <<>>
         /\ \A s : Ahead(c, s) /\ s # <<cmd, v>> => Ahead(c, s)'
<1> DEFINE t == todo[c]
<1>1. todo \in [Client -> Seq(Step)] /\ t \in Seq(Step) /\ t # <<>> /\ Head(t) = <<cmd, v>>
  BY DEF TypeOK, AtStep
<1>2. todo' \in [Client -> Seq(Step)] /\ todo'[c] = Tail(t)
      /\ \A d \in Client \ {c} : todo'[d] = todo[d]
  BY <1>1 DEF Proceed
<1>3. /\ Len(t) \in Nat /\ Len(t) > 0 /\ Len(todo'[c]) = Len(t) - 1
      /\ t[1] = <<cmd, v>> /\ t[1][1] = cmd
      /\ \A i \in 1..Len(todo'[c]) : i + 1 \in 1..Len(t) /\ todo'[c][i] = t[i + 1]
  BY <1>1, <1>2
<1>4. ProgramOK(c)' /\ cmd \in CommandsOf(call[c].op)
  BY <1>3 DEF ClientOK, ProgramOK
<1>5. \A i \in 1..Len(t) : t[i][1] = "Dial" =>
        defers[c] = <<>> /\ (i = 1 \/ (i = 2 /\ t[1][1] = "CheckLengths"))
  BY DEF ClientOK, StackOK
<1>6. \A i \in 1..Len(todo'[c]) : todo'[c][i][1] = "Dial" =>
        i = 1 /\ defers[c] = <<>> /\ cmd = "CheckLengths"
  <2> TAKE i \in 1..Len(todo'[c])
  <2> HAVE todo'[c][i][1] = "Dial"
  <2>1. i \in Nat /\ i > 0 /\ i + 1 \in 1..Len(t) /\ t[i + 1][1] = "Dial" /\ i + 1 # 1
    <3>1. i + 1 \in 1..Len(t) /\ todo'[c][i] = t[i + 1]
      BY <1>3
    <3> QED BY <3>1
  <2>2. defers[c] = <<>> /\ i + 1 = 2 /\ t[1][1] = "CheckLengths"
    BY <1>5, <2>1
  <2> QED BY <1>3, <2>1, <2>2
<1>7. \A s : Ahead(c, s) /\ s # <<cmd, v>> => Ahead(c, s)'
  <2> TAKE s
  <2> HAVE Ahead(c, s) /\ s # <<cmd, v>>
  <2> PICK i \in 1..Len(t) : t[i] = s
    BY DEF Ahead
  <2>1. i # 1
    BY <1>3
  <2>2. i - 1 \in 1..Len(todo'[c])
    BY <1>3, <2>1
  <2>3. todo'[c][i - 1] = t[i]
    BY <1>3, <2>2
  <2> QED BY <2>2, <2>3 DEF Ahead
<1> QED BY <1>2, <1>4, <1>6, <1>7

Stack == Seq(Handle \union {NoHandle, CloseConn})

\* A handle pushed on a stack: everything that was on it still is, and the
\* deferred close stays where it is.
LEMMA Pushed ==
  ASSUME NEW c \in Client, TypeOK, ClientOK(c), NEW h \in Handle \union {NoHandle}, PushDefer(c, h)
  PROVE  /\ defers' \in [Client -> Stack]
         /\ \A d \in Client \ {c} : defers'[d] = defers[d]
         /\ Deferred(c, h)'
         /\ \A d \in Client : \A x : Deferred(d, x) => Deferred(d, x)'
         /\ \A i \in 1..Len(defers'[c]) : defers'[c][i] = CloseConn => i = Len(defers'[c])
<1> DEFINE s == defers[c]
<1>1. defers \in [Client -> Stack] /\ s \in Stack
  BY DEF TypeOK, Stack
<1>2. /\ defers' \in [Client -> Stack] /\ \A d \in Client \ {c} : defers'[d] = defers[d]
      /\ defers'[c] = <<h>> \o s
  BY <1>1 DEF PushDefer, Stack
<1>3. /\ Len(s) \in Nat /\ Len(defers'[c]) = Len(s) + 1 /\ defers'[c][1] = h
      /\ \A i \in 1..Len(s) : i + 1 \in 1..Len(defers'[c]) /\ defers'[c][i + 1] = s[i]
      /\ \A i \in 1..Len(defers'[c]) : i # 1 => i - 1 \in 1..Len(s) /\ defers'[c][i] = s[i - 1]
  BY <1>1, <1>2 DEF Stack
<1>4. Deferred(c, h)'
  BY <1>3 DEF Deferred
<1>5. \A x : Deferred(c, x) => Deferred(c, x)'
  BY <1>3 DEF Deferred
<1>6. \A d \in Client : \A x : Deferred(d, x) => Deferred(d, x)'
  BY <1>2, <1>5 DEF Deferred
<1>7. \A i \in 1..Len(defers'[c]) : defers'[c][i] = CloseConn => i = Len(defers'[c])
  <2> TAKE i \in 1..Len(defers'[c])
  <2> HAVE defers'[c][i] = CloseConn
  <2>1. i # 1
    BY <1>3, HandleIsNotClose
  <2>2. i - 1 \in 1..Len(s) /\ s[i - 1] = CloseConn
    BY <1>3, <2>1
  <2>3. i - 1 = Len(s)
    BY <2>2 DEF ClientOK, StackOK
  <2> QED BY <1>3, <2>3
<1> QED BY <1>2, <1>4, <1>6, <1>7

\* A step other than Dial that pushes at most a handle keeps the stack in order.
LEMMA StackKept ==
  ASSUME NEW c \in Client, TypeOK, ClientOK(c), NEW cmd, NEW v, AtStep(c, cmd, v), cmd # "Dial",
         Proceed(c), call' = call, outcome' = outcome, conns' = conns,
         \/ defers' = defers
         \/ cmd # "CheckLengths" /\ \E h \in Handle \union {NoHandle} : PushDefer(c, h)
  PROVE  StackOK(c)'
<1>1. /\ \A i \in 1..Len(todo'[c]) : todo'[c][i][1] = "Dial" => i = 1 /\ defers[c] = <<>>
      /\ cmd # "CheckLengths" => \A i \in 1..Len(todo'[c]) : todo'[c][i][1] # "Dial"
  BY StepTaken
<1>2. Running(c) /\ ~Idle(c)'
  BY DEF AtStep, Idle
<1>3. CASE defers' = defers
  BY <1>1, <1>2, <1>3 DEF StackOK, ClientOK, Connected, Deferred
<1>4. CASE cmd # "CheckLengths" /\ \E h \in Handle \union {NoHandle} : PushDefer(c, h)
  <2> PICK h \in Handle \union {NoHandle} : PushDefer(c, h)
    BY <1>4
  <2>1. /\ \A x : Deferred(c, x) => Deferred(c, x)'
        /\ \A i \in 1..Len(defers'[c]) : defers'[c][i] = CloseConn => i = Len(defers'[c])
    BY Pushed
  <2>2. Connected(c)' => Deferred(c, CloseConn)'
    BY <2>1 DEF Connected, ClientOK, StackOK
  <2> QED BY <1>1, <1>2, <1>4, <2>1, <2>2 DEF StackOK
<1> QED BY <1>3, <1>4

\* A step keeps ResultOK if it computes what it is there to compute.
LEMMA ResultKept ==
  ASSUME NEW c \in Client, TypeOK, ClientOK(c), NEW cmd, NEW v, AtStep(c, cmd, v),
         Proceed(c), call' = call, outcome' = outcome,
         <<cmd, v>> = <<"Create", "aes">> => work'[c].aes \in Key,
         <<cmd, v>> # <<"Create", "aes">> => work'[c].aes = work[c].aes,
         <<cmd, v>> = <<"Create", "hmac">> => work'[c].hmac \in Key,
         <<cmd, v>> # <<"Create", "hmac">> => work'[c].hmac = work[c].hmac,
         cmd = "CheckKeys" => KeysOK(call[c])
  PROVE  ResultOK(c)'
<1>1. \A s : Ahead(c, s) /\ s # <<cmd, v>> => Ahead(c, s)'
  BY StepTaken
<1>2. SUFFICES ASSUME Running(c), ~Failing(c)
               PROVE  ResultOK(c)'
  BY DEF ResultOK, Idle, Failing
<1>3. call[c].op = "NewKey" => work'[c].aes \in Key \/ Ahead(c, <<"Create", "aes">>)'
  BY <1>1, <1>2 DEF ClientOK, ResultOK
<1>4. call[c].op = "NewKey" => work'[c].hmac \in Key \/ Ahead(c, <<"Create", "hmac">>)'
  BY <1>1, <1>2 DEF ClientOK, ResultOK
<1>5. call[c].op = "NewAESCTRHMAC" => KeysOK(call[c]) \/ Ahead(c, <<"CheckKeys", "none">>)'
  BY <1>1, <1>2 DEF ClientOK, ResultOK
<1> QED BY <1>3, <1>4, <1>5 DEF ResultOK

\* A primary or key that is new in the device was loaded by a connected client
\* that defers its flush, and no stack of a loaded object's owner shrinks.
LEMMA CoveredKept ==
  ASSUME Covered, conns \subseteq conns',
         \A d \in Client : \A x : Deferred(d, x) => Deferred(d, x)',
         \A o \in objects' :
           \/ o \in objects \/ o.kind = "sequence" \/ o.owner \notin Client
           \/ o.owner \in conns /\ Deferred(o.owner, o.handle)'
  PROVE  Covered'
<1> SUFFICES ASSUME NEW o \in objects', o.owner \in Client, o.kind # "sequence"
             PROVE  Connected(o.owner)' /\ Deferred(o.owner, o.handle)'
  BY DEF Covered
<1>1. CASE o \in objects
  <2>1. Connected(o.owner) /\ Deferred(o.owner, o.handle)
    BY <1>1 DEF Covered
  <2> QED BY <2>1 DEF Connected
<1>2. CASE o.owner \in conns /\ Deferred(o.owner, o.handle)'
  BY <1>2 DEF Connected
<1> QED BY <1>1, <1>2

\* The types of what a TPM command may change.
CommandTypes ==
  /\ objects' \subseteq Object /\ sessions' \subseteq Session /\ made' \in Nat
  /\ var' \in [Client -> [Variable -> Handle \union {NoHandle}]]
  /\ work' \in [Client -> WorkType]

\* Create makes the keys NewKey returns, and no other command touches them.
WorkEffect(c, cmd, v) ==
  /\ \A d \in Client \ {c} : work'[d] = work[d]
  /\ \/ cmd # "Create" /\ work'[c].aes = work[c].aes /\ work'[c].hmac = work[c].hmac
     \/ cmd = "Create" /\ v = "aes" /\ work'[c].aes \in Key /\ work'[c].hmac = work[c].hmac
     \/ cmd = "Create" /\ v = "hmac" /\ work'[c].hmac \in Key /\ work'[c].aes = work[c].aes

\* A command that loads a primary or a key pushes its handle on the stack.
LoadEffect(c) ==
  /\ defers' = defers \/ \E h \in Handle \union {NoHandle} : PushDefer(c, h)
  /\ \A o \in objects' :
       o \in objects \/ o.kind = "sequence" \/ (o.owner = c /\ PushDefer(c, o.handle))

\* What the proof of every TPM command of a call has in common.
LEMMA Executed ==
  ASSUME IInv, NEW c \in Client, NEW cmd, NEW v, Executes(c, cmd, v),
         cmd \notin LocalCommand, CommandTypes, WorkEffect(c, cmd, v), LoadEffect(c)
  PROVE  IInv'
<1>1. /\ TypeOK /\ ClientOK(c) /\ AtStep(c, cmd, v) /\ Proceed(c) /\ Served(c)
      /\ UNCHANGED <<call, outcome, conns, served, pcr, hier, pairs, aeads, sealed, events>>
      /\ cmd # "Dial" /\ cmd # "CheckLengths" /\ cmd # "CheckKeys"
  BY DEF IInv, ClientOK, Executes, LocalCommand
<1>2. /\ todo' \in [Client -> Seq(Step)] /\ ProgramOK(c)'
      /\ \A d \in Client \ {c} : todo'[d] = todo[d]
  BY <1>1, StepTaken
<1>3. /\ defers' \in [Client -> Stack]
      /\ \A d \in Client \ {c} : defers'[d] = defers[d]
      /\ \A d \in Client : \A x : Deferred(d, x) => Deferred(d, x)'
  <2>1. CASE defers' = defers
    BY <1>1, <2>1 DEF Deferred, TypeOK, Stack
  <2>2. CASE \E h \in Handle \union {NoHandle} : PushDefer(c, h)
    BY <1>1, <2>2, Pushed
  <2> QED BY <2>1, <2>2 DEF LoadEffect
<1>4. TypeOK'
  BY <1>1, <1>2, <1>3 DEF TypeOK, TPMTypeOK, Stack, CommandTypes
<1>5. \A d \in Client : ClientOK(d)'
  <2>1. StackOK(c)'
    BY <1>1, StackKept DEF LoadEffect
  <2>2. ResultOK(c)'
    BY <1>1, ResultKept DEF WorkEffect
  <2>3. ASSUME NEW d \in Client \ {c} PROVE ClientOK(d)'
    <3>1. ClientOK(d) /\ call'[d] = call[d] /\ outcome'[d] = outcome[d] /\ conns' = conns
      BY <1>1 DEF IInv, ClientOK
    <3> QED BY <1>2, <1>3, <3>1, Undisturbed DEF WorkEffect
  <2> QED BY <1>2, <2>1, <2>2, <2>3 DEF ClientOK
<1>6. Covered'
  <2>1. c \in conns /\ conns' = conns /\ Covered
    BY <1>1 DEF IInv, TypeOK, TPMTypeOK, Served
  <2>2. \A o \in objects' : o.owner = c /\ PushDefer(c, o.handle) /\ o \in Object =>
          o.owner \in conns /\ Deferred(o.owner, o.handle)'
    <3> TAKE o \in objects'
    <3> HAVE o.owner = c /\ PushDefer(c, o.handle) /\ o \in Object
    <3>1. o.handle \in Handle \union {NoHandle}
      BY DEF Object, Handle
    <3>2. Deferred(c, o.handle)'
      BY <1>1, <3>1, Pushed
    <3> QED BY <2>1, <3>2
  <2>3. objects' \subseteq Object
    BY DEF CommandTypes
  <2> QED BY <1>3, <2>1, <2>2, <2>3, CoveredKept DEF LoadEffect
<1> QED BY <1>4, <1>5, <1>6 DEF IInv, ClientOK

-----------------------------------------------------------------------------
(* The commands of a call, one by one. *)

\* The functions that issue a command.
LEMMA IssuedBy ==
  ASSUME IInv, NEW c \in Client, NEW cmd, NEW v, AtStep(c, cmd, v)
  PROVE  /\ cmd \in SessionCommands => call[c].op \in {"NewKey", "Seal", "Open"}
         /\ cmd = "Create" => call[c].op = "NewKey"
         /\ cmd \in {"Load", "SequenceComplete"} => call[c].op \in {"Seal", "Open"}
         /\ cmd \in Command /\ v \in Variable \union {"none"}
<1>1. cmd \in CommandsOf(call[c].op) /\ <<cmd, v>> \in Step
  BY StepOfFunction DEF IInv, AtStep
<1>2. call[c].op \in {"none", "NewKey", "NewAESCTRHMAC", "Seal", "Open"}
  BY DEF IInv, TypeOK, CallType
<1>3. cmd \in Command /\ v \in Variable \union {"none"}
  BY <1>1 DEF Step
<1> QED BY <1>1, <1>2, <1>3 DEF CommandsOf, SessionCommands, CryptCommands

\* Seal and Open load a key of their instance.
LEMMA KeyFileType ==
  ASSUME IInv, NEW c \in Client, NEW v, AtStep(c, "Load", v)
  PROVE  KeyFile(c, v) \in Key
<1>1. call[c].op \in {"Seal", "Open"}
  BY IssuedBy
<1>2. call[c].aead \in AEAD
  BY <1>1, CallTypes DEF IInv
<1> QED BY <1>2 DEF KeyFile, AEAD

\* A variable that is given a handle.
LEMMA VarType ==
  ASSUME TypeOK, NEW c \in Client, NEW v \in Variable, NEW h \in Handle
  PROVE  [var EXCEPT ![c][v] = h] \in [Client -> [Variable -> Handle \union {NoHandle}]]
BY DEF TypeOK

\* A command that changes sessions only, in one of them.
LEMMA SessionChanged ==
  ASSUME IInv, NEW c \in Client, NEW cmd \in {"PolicyPCR", "PolicyAuthValue", "ReadPublic", "SequenceUpdate"},
         NEW v, Executes(c, cmd, v), sessions' \subseteq Session,
         UNCHANGED <<objects, defers, var, work, made>>
  PROVE  IInv'
<1>1. CommandTypes
  BY DEF CommandTypes, IInv, TypeOK, TPMTypeOK
<1>2. WorkEffect(c, cmd, v) /\ LoadEffect(c)
  BY DEF WorkEffect, LoadEffect
<1>3. cmd \notin LocalCommand
  BY DEF LocalCommand
<1> QED BY <1>1, <1>2, <1>3, Executed

\* PolicyPCR appends a PCR assertion to a session's digest.
LEMMA PolicyPCRStep ==
  ASSUME IInv, NEW c \in Client, NEW v \in SessionVariable, PolicyPCR(c, v)
  PROVE  IInv'
<1> DEFINE A(s) == [s EXCEPT !.digest = Append(@, PCRAssertion(call[c].session.digest)),
                             !.pcrCount = IF s.trial THEN @ ELSE pcr.count]
<1>1. /\ TypeOK /\ Executes(c, "PolicyPCR", v) /\ AtStep(c, "PolicyPCR", v)
      /\ UNCHANGED <<objects, defers, var, work, made>>
      /\ sessions' = {IF s.handle = var[c][v] THEN A(s) ELSE s : s \in sessions}
  BY DEF IInv, PolicyPCR, Executes, ChangeSession
<1>2. PCRAssertion(call[c].session.digest) \in Assertion
  <2>1. call[c].session \in SessionConfig
    BY <1>1, IssuedBy, CallTypes DEF SessionCommands
  <2> QED BY <2>1, SessionAssumption DEF Assertion
<1>3. \A s \in Session : A(s) \in Session
  <2> TAKE s \in Session
  <2>1. /\ s.digest \in Seq(Assertion) /\ s.pcrCount \in Nat /\ pcr.count \in Nat
        /\ s = [handle |-> s.handle, owner |-> s.owner, trial |-> s.trial,
                password |-> s.password, digest |-> s.digest, pcrCount |-> s.pcrCount]
    BY <1>1 DEF Session, TypeOK, TPMTypeOK
  <2>2. Append(s.digest, PCRAssertion(call[c].session.digest)) \in Seq(Assertion)
    BY <1>2, <2>1
  <2> HIDE DEF A
  <2>3. /\ A(s).handle = s.handle
    BY DEF A, Session
  <2> QED BY <2>1, <2>2 DEF A, Session
<1>4. sessions' \subseteq Session
  <2> HIDE DEF A
  <2> QED BY <1>1, <1>3 DEF TypeOK, TPMTypeOK
<1> QED BY <1>1, <1>4, SessionChanged

\* PolicyAuthValue appends its assertion.
LEMMA PolicyAuthValueStep ==
  ASSUME IInv, NEW c \in Client, NEW v \in SessionVariable, PolicyAuthValue(c, v)
  PROVE  IInv'
<1> DEFINE A(s) == [s EXCEPT !.digest = Append(@, AuthAssertion)]
<1>1. /\ TypeOK /\ Executes(c, "PolicyAuthValue", v)
      /\ UNCHANGED <<objects, defers, var, work, made>>
      /\ sessions' = {IF s.handle = var[c][v] THEN A(s) ELSE s : s \in sessions}
  BY DEF IInv, PolicyAuthValue, ChangeSession
<1>2. \A s \in Session : A(s) \in Session
  <2> TAKE s \in Session
  <2>1. Append(s.digest, AuthAssertion) \in Seq(Assertion)
    BY DEF Session, Assertion
  <2> QED BY <2>1 DEF Session
<1>3. sessions' \subseteq Session
  <2> HIDE DEF A
  <2> QED BY <1>1, <1>2 DEF TypeOK, TPMTypeOK
<1> QED BY <1>1, <1>3, SessionChanged

\* A new session, with the caller's password or none.
LEMMA StartAuthSessionStep ==
  ASSUME IInv, NEW c \in Client, NEW v \in SessionVariable, StartAuthSession(c, v)
  PROVE  IInv'
<1> DEFINE pw == SessionPassword(call[c].session, v = "trial")
<1>1. TypeOK /\ Executes(c, "StartAuthSession", v) /\ AtStep(c, "StartAuthSession", v)
      /\ UNCHANGED <<objects, defers, work, made>>
  BY DEF IInv, StartAuthSession, Executes
<1> PICK h \in Allocated(FreeSessionHandles(c)) :
        /\ sessions' = sessions \union {NewSession(c, h, v = "trial", pw)}
        /\ var' = [var EXCEPT ![c][v] = h]
  BY DEF StartAuthSession
<1>2. h \in SessionHandle /\ h \in Handle
  BY FreeHandles
<1>3. pw \in Password
  <2>1. call[c].session \in SessionConfig
    BY <1>1, IssuedBy, CallTypes DEF SessionCommands
  <2> QED BY <2>1, SessionAssumption, PasswordAssumption DEF SessionPassword
<1>4. NewSession(c, h, v = "trial", pw) \in Session
  BY <1>2, <1>3 DEF NewSession, Session
<1>5. sessions' \subseteq Session
  BY <1>1, <1>4 DEF TypeOK, TPMTypeOK
<1>6. var' \in [Client -> [Variable -> Handle \union {NoHandle}]]
  BY <1>1, <1>2, VarType DEF Variable
<1>7. CommandTypes
  BY <1>1, <1>5, <1>6 DEF CommandTypes, TypeOK, TPMTypeOK
<1>8. WorkEffect(c, "StartAuthSession", v) /\ LoadEffect(c)
  BY <1>1 DEF WorkEffect, LoadEffect
<1> QED BY <1>1, <1>7, <1>8, Executed DEF LocalCommand

\* NewKey reads its trial session's digest.
LEMMA PolicyGetDigestStep ==
  ASSUME IInv, NEW c \in Client, PolicyGetDigest(c)
  PROVE  IInv'
<1>1. /\ TypeOK /\ Executes(c, "PolicyGetDigest", "trial")
      /\ UNCHANGED <<objects, sessions, defers, var, made>>
  BY DEF IInv, PolicyGetDigest
<1> PICK s \in sessions : work' = [work EXCEPT ![c].policy = s.digest]
  BY DEF PolicyGetDigest, OpenSession, SessionsAt
<1>2. s.digest \in Seq(Assertion) /\ work \in [Client -> WorkType]
  BY <1>1 DEF TypeOK, TPMTypeOK, Session
<1>3. /\ work' \in [Client -> WorkType]
      /\ work'[c].aes = work[c].aes /\ work'[c].hmac = work[c].hmac
      /\ \A d \in Client \ {c} : work'[d] = work[d]
  BY <1>2 DEF WorkType
<1>4. CommandTypes
  BY <1>1, <1>3 DEF CommandTypes, TypeOK, TPMTypeOK
<1>5. WorkEffect(c, "PolicyGetDigest", "trial") /\ LoadEffect(c)
  BY <1>1, <1>3 DEF WorkEffect, LoadEffect
<1> QED BY <1>1, <1>4, <1>5, Executed DEF LocalCommand

\* Loading an object into a free slot.
LEMMA ObjectLoaded ==
  ASSUME IInv, NEW c \in Client, NEW v \in ObjectVariable, NEW kind, NEW key,
         LoadObject(c, v, kind, key),
         (kind = "primary" /\ key \in PrimaryKey) \/ (kind \in {"key", "sequence"} /\ key \in Key)
  PROVE  /\ objects' \subseteq Object /\ LoadEffect(c)
         /\ var' \in [Client -> [Variable -> Handle \union {NoHandle}]]
<1> PICK h \in Allocated(FreeObjectHandles(c)) :
        /\ objects' = objects \union {NewObject(c, h, kind, key)}
        /\ var' = [var EXCEPT ![c][v] = h]
        /\ IF kind = "sequence" THEN UNCHANGED defers ELSE PushDefer(c, h)
  BY DEF LoadObject
<1>1. h \in ObjectHandle /\ h \in Handle
  BY FreeHandles
<1>2. NewObject(c, h, kind, key) \in Object
  BY <1>1 DEF NewObject, Object
<1>3. objects' \subseteq Object
  BY <1>2 DEF IInv, TypeOK, TPMTypeOK
<1>4. var' \in [Client -> [Variable -> Handle \union {NoHandle}]]
  BY <1>1, VarType DEF IInv, Variable
<1>5. LoadEffect(c)
  BY <1>1 DEF LoadEffect, NewObject
<1> QED BY <1>3, <1>4, <1>5

\* The primary is loaded and its flush deferred.
LEMMA CreatePrimaryStep ==
  ASSUME IInv, NEW c \in Client, CreatePrimary(c)
  PROVE  IInv'
<1>1. /\ TypeOK /\ Executes(c, "CreatePrimary", "primary") /\ UNCHANGED <<sessions, work, made>>
      /\ LoadObject(c, "primary", "primary", Primary(hier.seed))
  BY DEF IInv, CreatePrimary
<1>2. Primary(hier.seed) \in PrimaryKey /\ "primary" \in ObjectVariable
  BY <1>1 DEF Primary, PrimaryKey, TypeOK, TPMTypeOK, ObjectVariable
<1>3. /\ objects' \subseteq Object /\ LoadEffect(c)
      /\ var' \in [Client -> [Variable -> Handle \union {NoHandle}]]
  BY <1>1, <1>2, ObjectLoaded
<1>4. CommandTypes /\ WorkEffect(c, "CreatePrimary", "primary")
  BY <1>1, <1>3 DEF CommandTypes, WorkEffect, TypeOK, TPMTypeOK
<1> QED BY <1>1, <1>3, <1>4, Executed DEF LocalCommand

\* So is a key of the instance.
LEMMA LoadStep ==
  ASSUME IInv, NEW c \in Client, NEW v \in {"aes", "hmac"}, Load(c, v)
  PROVE  IInv'
<1>1. /\ TypeOK /\ Executes(c, "Load", v) /\ UNCHANGED <<sessions, work, made>>
      /\ LoadObject(c, v, "key", KeyFile(c, v))
  BY DEF IInv, Load
<1>2. KeyFile(c, v) \in Key /\ v \in ObjectVariable
  BY <1>1, KeyFileType DEF Executes, ObjectVariable
<1>3. /\ objects' \subseteq Object /\ LoadEffect(c)
      /\ var' \in [Client -> [Variable -> Handle \union {NoHandle}]]
  BY <1>1, <1>2, ObjectLoaded
<1>4. CommandTypes /\ WorkEffect(c, "Load", v)
  BY <1>1, <1>3 DEF CommandTypes, WorkEffect, TypeOK, TPMTypeOK
<1> QED BY <1>1, <1>3, <1>4, Executed DEF LocalCommand

\* One of the keys that NewKey returns is created.
LEMMA CreateStep ==
  ASSUME IInv, NEW c \in Client, NEW v \in {"aes", "hmac"}, Create(c, v)
  PROVE  IInv'
<1>1. /\ TypeOK /\ Executes(c, "Create", v) /\ AtStep(c, "Create", v) /\ made' = made + 1
      /\ UNCHANGED <<objects, sessions, defers, var>>
  BY DEF IInv, Create, Executes
<1>0. PICK p \in Loaded(c, "primary", "primary") :
        work' = [work EXCEPT ![c][v] =
                   [id |-> made + 1, kind |-> v, seed |-> p.key.seed,
                    policy |-> work[c].policy, auth |-> call[c].keyPass]]
  BY DEF Create
<1> DEFINE k == [id |-> made + 1, kind |-> v, seed |-> p.key.seed,
                 policy |-> work[c].policy, auth |-> call[c].keyPass]
<1>2. p.key.seed \in Nat
  BY <1>1 DEF Loaded, ObjectsAt, TypeOK, TPMTypeOK, Object, PrimaryKey
<1>3. call[c].keyPass \in Password
  BY <1>1, IssuedBy, CallTypes
<1>4. work \in [Client -> WorkType] /\ work[c].policy \in Seq(Assertion) /\ made + 1 \in Nat
  BY <1>1 DEF TypeOK, WorkType
<1>5. k \in Key
  BY <1>2, <1>3, <1>4 DEF Key
<1>6. work' = [work EXCEPT ![c][v] = k]
  BY <1>0
<1>7. /\ work' \in [Client -> WorkType] /\ \A d \in Client \ {c} : work'[d] = work[d]
      /\ v = "aes" => work'[c].aes = k /\ work'[c].hmac = work[c].hmac
      /\ v = "hmac" => work'[c].hmac = k /\ work'[c].aes = work[c].aes
  <2> HIDE DEF k
  <2>1. CASE v = "aes"
    <3>1. work' = [work EXCEPT ![c].aes = k]
      BY <1>6, <2>1
    <3>2. /\ work' \in [Client -> WorkType] /\ \A d \in Client \ {c} : work'[d] = work[d]
          /\ work'[c].aes = k /\ work'[c].hmac = work[c].hmac
      BY <1>4, <1>5, <3>1 DEF WorkType
    <3> QED BY <2>1, <3>2
  <2>2. CASE v = "hmac"
    <3>1. work' = [work EXCEPT ![c].hmac = k]
      BY <1>6, <2>2
    <3>2. /\ work' \in [Client -> WorkType] /\ \A d \in Client \ {c} : work'[d] = work[d]
          /\ work'[c].hmac = k /\ work'[c].aes = work[c].aes
      BY <1>4, <1>5, <3>1 DEF WorkType
    <3> QED BY <2>2, <3>2
  <2> QED BY <2>1, <2>2
<1>8. CommandTypes
  BY <1>1, <1>7 DEF CommandTypes, TypeOK, TPMTypeOK
<1>9. WorkEffect(c, "Create", v) /\ LoadEffect(c)
  <2> HIDE DEF k
  <2> QED BY <1>1, <1>5, <1>7 DEF WorkEffect, LoadEffect
<1> QED BY <1>1, <1>8, <1>9, Executed DEF LocalCommand

\* A session that was used is a session again.
LEMMA SessionsReset ==
  ASSUME TypeOK, NEW h, ChangeSession(h, ResetSession)
  PROVE  sessions' \subseteq Session
<1>1. \A s \in Session : ResetSession(s) \in Session
  <2> TAKE s \in Session
  <2>1. <<>> \in Seq(Assertion)
    OBVIOUS
  <2> QED BY <2>1 DEF ResetSession, Session
<1> QED BY <1>1 DEF ChangeSession, TypeOK, TPMTypeOK

\* Data are encrypted or decrypted, and the session is used up.
LEMMA EncryptDecrypt2Step ==
  ASSUME IInv, NEW c \in Client, EncryptDecrypt2(c)
  PROVE  IInv'
<1>1. /\ TypeOK /\ Executes(c, "EncryptDecrypt2", "aes")
      /\ UNCHANGED <<objects, defers, var, made>> /\ sessions' \subseteq Session
  BY SessionsReset DEF IInv, EncryptDecrypt2
<1> PICK k \in Loaded(c, "aes", "key") : work' = [work EXCEPT ![c].by = @ \union {k.key.id}]
  BY DEF EncryptDecrypt2
<1>2. k.key.id \in Nat /\ work \in [Client -> WorkType]
  BY <1>1 DEF Loaded, ObjectsAt, TypeOK, TPMTypeOK, Object, Key
<1>3. /\ work' \in [Client -> WorkType] /\ \A d \in Client \ {c} : work'[d] = work[d]
      /\ work'[c].aes = work[c].aes /\ work'[c].hmac = work[c].hmac
  BY <1>2 DEF WorkType
<1>4. CommandTypes
  BY <1>1, <1>3 DEF CommandTypes, TypeOK, TPMTypeOK
<1>5. WorkEffect(c, "EncryptDecrypt2", "aes") /\ LoadEffect(c)
  BY <1>1, <1>3 DEF WorkEffect, LoadEffect
<1> QED BY <1>1, <1>4, <1>5, Executed DEF LocalCommand

\* ReadPublic and SequenceUpdate change nothing the model keeps.
LEMMA ReadPublicStep ==
  ASSUME IInv, NEW c \in Client, ReadPublic(c) \/ SequenceUpdate(c)
  PROVE  IInv'
<1>1. sessions' \subseteq Session
  BY DEF ReadPublic, SequenceUpdate, IInv, TypeOK, TPMTypeOK
<1>2. UNCHANGED <<objects, defers, var, work, made>>
  BY DEF ReadPublic, SequenceUpdate
<1> QED BY <1>1, <1>2, SessionChanged DEF ReadPublic, SequenceUpdate

\* A sequence is loaded, without a deferred flush.
LEMMA HmacStartStep ==
  ASSUME IInv, NEW c \in Client, HmacStart(c)
  PROVE  IInv'
<1>1. /\ TypeOK /\ Executes(c, "HmacStart", "hmac") /\ UNCHANGED <<work, made>>
      /\ sessions' \subseteq Session
  BY SessionsReset DEF IInv, HmacStart
<1> PICK k \in Loaded(c, "hmac", "key") : LoadObject(c, "sequence", "sequence", k.key)
  BY DEF HmacStart
<1>2. k.key \in Key /\ "sequence" \in ObjectVariable
  BY <1>1 DEF Loaded, ObjectsAt, TypeOK, TPMTypeOK, Object, ObjectVariable
<1>3. /\ objects' \subseteq Object /\ LoadEffect(c)
      /\ var' \in [Client -> [Variable -> Handle \union {NoHandle}]]
  BY <1>1, <1>2, ObjectLoaded
<1>4. CommandTypes /\ WorkEffect(c, "HmacStart", "hmac")
  BY <1>1, <1>3 DEF CommandTypes, WorkEffect, TypeOK, TPMTypeOK
<1> QED BY <1>1, <1>3, <1>4, Executed DEF LocalCommand

\* The ciphertext that Seal computed or that Open was given.
LEMMA CallCiphertextType ==
  ASSUME IInv, NEW c \in Client, call[c].op \in {"Seal", "Open"}
  PROVE  CallCiphertext(c) \in CiphertextType
<1>1. CASE call[c].op = "Seal"
  <2>1. call[c].nonce \in Text /\ call[c].pt \in Text
    BY <1>1, CallTypes DEF IInv
  <2>2. work[c].by \in SUBSET Nat
    BY DEF IInv, TypeOK, WorkType
  <2> QED BY <1>1, <2>1, <2>2 DEF CallCiphertext, Ciphertext, CiphertextType
<1>2. CASE call[c].op = "Open"
  BY <1>2, CallTypes DEF IInv, CallCiphertext
<1> QED BY <1>1, <1>2

\* The tag is computed and the sequence is gone.
LEMMA SequenceCompleteStep ==
  ASSUME IInv, NEW c \in Client, SequenceComplete(c)
  PROVE  IInv'
<1>1. /\ TypeOK /\ Executes(c, "SequenceComplete", "sequence") /\ AtStep(c, "SequenceComplete", "sequence")
      /\ UNCHANGED <<sessions, defers, var, made>>
  BY DEF IInv, SequenceComplete, Executes
<1> DEFINE tag(q) == Tag(q.key, call[c].nonce, call[c].aad, CallCiphertext(c))
<1> PICK q \in Loaded(c, "sequence", "sequence") :
        work' = [work EXCEPT ![c].tag = tag(q)] /\ objects' = objects \ {q}
  BY DEF SequenceComplete
<1>2. q.key.id \in Nat /\ work \in [Client -> WorkType]
  BY <1>1 DEF Loaded, ObjectsAt, TypeOK, TPMTypeOK, Object, Key
<1>3. tag(q) \in TagType
  <2>1. call[c].op \in {"Seal", "Open"}
    BY <1>1, IssuedBy
  <2>2. call[c].nonce \in Text /\ call[c].aad \in Text /\ CallCiphertext(c) \in CiphertextType
    BY <2>1, CallTypes, CallCiphertextType DEF IInv
  <2> QED BY <1>2, <2>2 DEF Tag, TagType
<1>4. /\ work' \in [Client -> WorkType] /\ \A d \in Client \ {c} : work'[d] = work[d]
      /\ work'[c].aes = work[c].aes /\ work'[c].hmac = work[c].hmac
  <2> HIDE DEF tag
  <2> QED BY <1>2, <1>3 DEF WorkType
<1>5. CommandTypes
  BY <1>1, <1>4 DEF CommandTypes, TypeOK, TPMTypeOK
<1>6. WorkEffect(c, "SequenceComplete", "sequence") /\ LoadEffect(c)
  BY <1>1, <1>4 DEF WorkEffect, LoadEffect
<1> QED BY <1>1, <1>5, <1>6, Executed DEF LocalCommand

-----------------------------------------------------------------------------
(* The local steps of a call, and its failures. *)

\* The invariant holds again if it does for one client and the others' calls
\* and connections are as they were.
LEMMA OthersKept ==
  ASSUME IInv, NEW c \in Client, TypeOK', ClientOK(c)', Covered',
         \A d \in Client \ {c} :
           /\ call'[d] = call[d] /\ todo'[d] = todo[d] /\ defers'[d] = defers[d]
           /\ work'[d] = work[d] /\ outcome'[d] = outcome[d] /\ (d \in conns' => d \in conns)
  PROVE  IInv'
<1>1. ASSUME NEW d \in Client \ {c} PROVE ClientOK(d)'
  <2>1. ClientOK(d)
    BY DEF IInv, ClientOK
  <2> QED BY <2>1, Undisturbed
<1>2. \A d \in Client : ClientOK(d)'
  BY <1>1
<1> QED BY <1>2 DEF IInv, ClientOK

\* Nothing is new in the device and no stack shrinks.
LEMMA CoveredStays ==
  ASSUME Covered, conns \subseteq conns', defers' = defers, objects' \subseteq objects
  PROVE  Covered'
BY DEF Covered, Connected, Deferred

\* A call that gives up keeps its stack of deferred functions.
LEMMA Failed ==
  ASSUME IInv, NEW c \in Client, Running(c), todo[c] # <<>>, NEW why \in Failure,
         Fail(c, why), events' \in Nat
  PROVE  IInv'
<1>1. TypeOK /\ ClientOK(c) /\ Covered
  BY DEF IInv, ClientOK
<1>2. NextStep(c)[1] \in Command
  BY <1>1, StepOfFunction DEF ClientOK, Step
<1>3. /\ todo' \in [Client -> Seq(Step)] /\ todo'[c] = <<>>
      /\ \A d \in Client \ {c} : todo'[d] = todo[d]
  BY <1>1 DEF Fail, TypeOK
<1>4. /\ outcome' \in [Client -> OutcomeType]
      /\ outcome'[c].why = why /\ outcome'[c].status = outcome[c].status
      /\ \A d \in Client \ {c} : outcome'[d] = outcome[d]
  <2>1. outcome \in [Client -> OutcomeType]
    BY <1>1 DEF TypeOK
  <2> QED BY <1>2, <2>1 DEF Fail, OutcomeType
<1>5. UNCHANGED <<call, defers, var, work, tpmVars, dataVars>>
  BY DEF Fail
<1>6. TypeOK'
  BY <1>1, <1>3, <1>4, <1>5 DEF TypeOK, TPMTypeOK, tpmVars, dataVars
<1>7. ProgramOK(c)' /\ ResultOK(c)'
  <2>1. ProgramOK(c)'
    BY <1>3 DEF ProgramOK
  <2>2. why # "none"
    BY DEF Failure, Reason
  <2>3. ResultOK(c)'
    BY <1>4, <2>2 DEF ResultOK, Failing
  <2> QED BY <2>1, <2>3
<1>8. StackOK(c)'
  <2>1. StackOK(c)
    BY <1>1 DEF ClientOK
  <2> QED BY <1>3, <1>4, <1>5, <2>1 DEF StackOK, Idle, Connected, Deferred, tpmVars
<1>9. Covered'
  BY <1>1, <1>5, CoveredStays DEF tpmVars
<1> QED BY <1>3, <1>4, <1>5, <1>6, <1>7, <1>8, <1>9, OthersKept DEF ClientOK, tpmVars

\* A step that takes one local step off the program and pushes at most a
\* handle.
LEMMA LocalTaken ==
  ASSUME IInv, NEW c \in Client, NEW cmd, NEW v, AtStep(c, cmd, v), cmd \notin {"Dial", "Create"},
         Proceed(c), UNCHANGED <<call, var, work, outcome, conns, served, pcr, hier, dataVars, events>>,
         objects' \subseteq objects, sessions' \subseteq sessions,
         \/ defers' = defers
         \/ cmd # "CheckLengths" /\ \E h \in Handle \union {NoHandle} : PushDefer(c, h),
         cmd = "CheckKeys" => KeysOK(call[c])
  PROVE  IInv'
<1>1. TypeOK /\ ClientOK(c) /\ Covered
  BY DEF IInv, ClientOK
<1>2. /\ todo' \in [Client -> Seq(Step)] /\ ProgramOK(c)'
      /\ \A d \in Client \ {c} : todo'[d] = todo[d]
  BY <1>1, StepTaken
<1>3. StackOK(c)'
  BY <1>1, StackKept
<1>4. ResultOK(c)'
  BY <1>1, ResultKept
<1>5. /\ defers' \in [Client -> Stack]
      /\ \A d \in Client \ {c} : defers'[d] = defers[d]
      /\ \A d \in Client : \A x : Deferred(d, x) => Deferred(d, x)'
  <2>1. CASE defers' = defers
    BY <1>1, <2>1 DEF Deferred, TypeOK, Stack
  <2>2. CASE \E h \in Handle \union {NoHandle} : PushDefer(c, h)
    BY <1>1, <2>2, Pushed
  <2> QED BY <2>1, <2>2
<1>6. TypeOK'
  BY <1>1, <1>2, <1>5 DEF TypeOK, TPMTypeOK, Stack, dataVars
<1>7. Covered'
  BY <1>1, <1>5, CoveredKept
<1> QED BY <1>2, <1>3, <1>4, <1>5, <1>6, <1>7, OthersKept DEF ClientOK

\* The library's own checks pass or end the call.
LEMMA CheckStep ==
  ASSUME IInv, NEW c \in Client, CheckLengths(c) \/ CheckKeys(c) \/ CheckTag(c)
  PROVE  IInv'
<1>1. ASSUME NEW cmd \in {"CheckLengths", "CheckKeys", "CheckTag"}, NEW ok,
             NEW why \in {"length", "nil key", "tag"}, Check(c, cmd, ok, why),
             cmd = "CheckKeys" => ok = KeysOK(call[c])
      PROVE  IInv'
  <2>1. AtStep(c, cmd, "none") /\ UNCHANGED events
    BY <1>1 DEF Check
  <2>2. CASE ok
    <3>1. Proceed(c) /\ UNCHANGED <<call, defers, var, work, outcome, tpmVars, dataVars>>
      BY <1>1, <2>2 DEF Check
    <3> QED BY <1>1, <2>1, <2>2, <3>1, LocalTaken DEF tpmVars
  <2>3. CASE ~ok
    <3>1. Fail(c, why) /\ Running(c) /\ todo[c] # <<>> /\ why \in Failure
      BY <1>1, <2>1, <2>3 DEF Check, AtStep, Failure
    <3>2. events' \in Nat
      BY <2>1 DEF IInv, TypeOK
    <3> QED BY <3>1, <3>2, Failed
  <2> QED BY <2>2, <2>3
<1>2. CASE CheckLengths(c)
  BY <1>1, <1>2 DEF CheckLengths
<1>3. CASE CheckKeys(c)
  BY <1>1, <1>3 DEF CheckKeys
<1>4. CASE CheckTag(c)
  BY <1>1, <1>4 DEF CheckTag
<1> QED BY <1>2, <1>3, <1>4

\* A session's close or a second flush of the HMAC key is deferred.
LEMMA DeferStep ==
  ASSUME IInv, NEW c \in Client, Defer(c)
  PROVE  IInv'
<1> PICK v \in SessionVariable \union {"hmac"} :
        /\ AtStep(c, "Defer", v) /\ Proceed(c) /\ PushDefer(c, var[c][v])
        /\ UNCHANGED <<call, var, work, outcome, tpmVars, dataVars, events>>
  BY DEF Defer
<1>1. var[c][v] \in Handle \union {NoHandle}
  BY DEF IInv, TypeOK, Variable, ObjectVariable
<1> QED BY <1>1, LocalTaken DEF tpmVars

\* A TPM command fails, for whatever reason.
LEMMA CommandFails ==
  ASSUME IInv, NEW c \in Client, CommandRefused(c) \/ CommandLost(c) \/ CommandFault(c)
  PROVE  IInv'
<1>1. events' \in Nat
  <2>1. events \in Nat /\ events' \in {events, events + 1}
    BY DEF CommandRefused, CommandLost, CommandFault, Happens, IInv, TypeOK
  <2> QED BY <2>1
<1>2. Running(c) /\ todo[c] # <<>>
  BY DEF CommandRefused, CommandLost, CommandFault
<1>3. \E why \in Reason \union {"transport", "fault"} : Fail(c, why)
  BY DEF CommandRefused, CommandLost, CommandFault
<1>4. Reason \union {"transport", "fault"} \subseteq Failure
  BY DEF Failure
<1> QED BY <1>1, <1>2, <1>3, <1>4, Failed

\* The connection is opened with nothing deferred before its close.
LEMMA DialStep ==
  ASSUME IInv, NEW c \in Client, Dial(c)
  PROVE  IInv'
<1>1. /\ TypeOK /\ ClientOK(c) /\ Covered
      /\ AtStep(c, "Dial", "none") /\ Proceed(c) /\ Connect(c) /\ PushDefer(c, CloseConn)
      /\ UNCHANGED <<call, var, work, outcome, objects, sessions, pcr, hier, dataVars, events>>
  BY DEF IInv, ClientOK, Dial
<1>2. /\ todo' \in [Client -> Seq(Step)] /\ ProgramOK(c)'
      /\ \A d \in Client \ {c} : todo'[d] = todo[d]
      /\ \A i \in 1..Len(todo'[c]) : todo'[c][i][1] # "Dial"
  BY <1>1, StepTaken
<1>3. defers[c] = <<>>
  <2>1. /\ todo[c] \in Seq(Step) /\ todo[c] # <<>> /\ todo[c][1] = <<"Dial", "none">>
        /\ 1 \in 1..Len(todo[c])
    BY <1>1 DEF AtStep, TypeOK
  <2> QED BY <1>1, <2>1 DEF ClientOK, StackOK
<1>4. /\ defers' \in [Client -> Stack] /\ defers'[c] = <<CloseConn>>
      /\ \A d \in Client \ {c} : defers'[d] = defers[d]
  BY <1>1, <1>3 DEF PushDefer, TypeOK, Stack
<1>5. conns \subseteq conns' /\ conns' \subseteq Client /\ served' \subseteq conns'
      /\ \A d \in Client \ {c} : d \in conns' => d \in conns
  BY <1>1 DEF Connect, TypeOK, TPMTypeOK
<1>6. TypeOK'
  BY <1>1, <1>2, <1>4, <1>5 DEF TypeOK, TPMTypeOK, Stack, dataVars
<1>7. StackOK(c)'
  BY <1>1, <1>2, <1>4 DEF StackOK, Idle, AtStep, Deferred
<1>8. ResultOK(c)'
  BY <1>1, ResultKept
<1>9. Covered'
  BY <1>1, <1>3, <1>4, <1>5, CoveredKept DEF Deferred
<1> QED BY <1>1, <1>2, <1>4, <1>5, <1>6, <1>7, <1>8, <1>9, OthersKept DEF ClientOK

\* A flush in the middle of a call removes objects only.
LEMMA FlushContextStep ==
  ASSUME IInv, NEW c \in Client, FlushContext(c)
  PROVE  IInv'
<1> PICK v \in Variable :
        /\ AtStep(c, "FlushContext", v)
        /\ IF Connected(c) THEN Served(c) /\ Flush(var[c][v]) ELSE UNCHANGED <<objects, sessions>>
        /\ Proceed(c)
        /\ UNCHANGED <<call, defers, var, work, outcome, conns, served, pcr, hier, dataVars, events>>
  BY DEF FlushContext
<1>1. objects' \subseteq objects /\ sessions' \subseteq sessions
  BY DEF Flush
<1> QED BY <1>1, LocalTaken

-----------------------------------------------------------------------------
(* The end of a call. *)

\* Taking the last deferred function off the stack.
LEMMA Popped ==
  ASSUME NEW c \in Client, TypeOK, ClientOK(c), defers[c] # <<>>,
         defers' = [defers EXCEPT ![c] = Tail(@)]
  PROVE  /\ defers' \in [Client -> Stack]
         /\ \A d \in Client \ {c} : defers'[d] = defers[d]
         /\ \A x : Deferred(c, x) /\ x # Head(defers[c]) => Deferred(c, x)'
         /\ \A i \in 1..Len(defers'[c]) : defers'[c][i] = CloseConn => i = Len(defers'[c])
         /\ Head(defers[c]) = CloseConn => defers'[c] = <<>> /\ Len(defers[c]) = 1
<1> DEFINE s == defers[c]
<1>1. /\ s \in Stack /\ defers' \in [Client -> Stack] /\ defers'[c] = Tail(s)
      /\ \A d \in Client \ {c} : defers'[d] = defers[d]
  BY DEF TypeOK, Stack
<1>2. /\ Len(s) \in Nat /\ Len(s) > 0 /\ Len(defers'[c]) = Len(s) - 1 /\ Head(s) = s[1]
      /\ \A i \in 1..Len(defers'[c]) : i + 1 \in 1..Len(s) /\ defers'[c][i] = s[i + 1]
  BY <1>1 DEF Stack
<1>3. \A i \in 1..Len(s) : s[i] = CloseConn => i = Len(s)
  BY DEF ClientOK, StackOK
<1>4. \A x : Deferred(c, x) /\ x # Head(s) => Deferred(c, x)'
  <2> TAKE x
  <2> HAVE Deferred(c, x) /\ x # Head(s)
  <2> PICK i \in 1..Len(s) : s[i] = x
    BY DEF Deferred
  <2>1. i # 1
    BY <1>2
  <2>2. i - 1 \in 1..Len(defers'[c])
    BY <1>2, <2>1
  <2>3. defers'[c][i - 1] = s[i]
    BY <1>2, <2>2
  <2> QED BY <2>2, <2>3 DEF Deferred
<1>5. \A i \in 1..Len(defers'[c]) : defers'[c][i] = CloseConn => i = Len(defers'[c])
  BY <1>2, <1>3
<1>6. Head(s) = CloseConn => Len(s) = 1 /\ defers'[c] = <<>>
  <2> HAVE Head(s) = CloseConn
  <2>1. 1 \in 1..Len(s) /\ s[1] = CloseConn
    BY <1>2
  <2>2. Len(s) = 1
    BY <1>3, <2>1
  <2>3. Len(defers'[c]) = 0
    BY <1>2, <2>2
  <2>4. defers'[c] \in Stack
    BY <1>1
  <2> QED BY <2>2, <2>3, <2>4 DEF Stack
<1> QED BY <1>1, <1>4, <1>5, <1>6

\* A stack that has been popped is in order, unless a connection is left open.
LEMMA StackPopped ==
  ASSUME NEW c \in Client, TypeOK, ClientOK(c), Unwinding(c), defers[c] # <<>>,
         defers' = [defers EXCEPT ![c] = Tail(@)], UNCHANGED <<todo, outcome>>,
         c \in conns' => c \in conns /\ Head(defers[c]) # CloseConn
  PROVE  StackOK(c)'
<1>1. /\ \A x : Deferred(c, x) /\ x # Head(defers[c]) => Deferred(c, x)'
      /\ \A i \in 1..Len(defers'[c]) : defers'[c][i] = CloseConn => i = Len(defers'[c])
  BY Popped
<1>2. Connected(c)' => Deferred(c, CloseConn)'
  <2> HAVE Connected(c)'
  <2>1. Deferred(c, CloseConn) /\ CloseConn # Head(defers[c])
    BY DEF Connected, ClientOK, StackOK
  <2> QED BY <1>1, <2>1
<1>3. ~Idle(c)'
  BY DEF Unwinding, Idle
<1>4. \A i \in 1..Len(todo'[c]) : FALSE
  BY DEF Unwinding
<1> QED BY <1>1, <1>2, <1>3, <1>4 DEF StackOK

\* A deferred flush takes out at least the object it covers.
LEMMA DeferredFlushStep ==
  ASSUME IInv, NEW c \in Client, DeferredFlush(c)
  PROVE  IInv'
<1> DEFINE h == Head(defers[c])
<1>1. /\ TypeOK /\ ClientOK(c) /\ Covered
      /\ Unwinding(c) /\ defers[c] # <<>> /\ h # CloseConn
      /\ defers' = [defers EXCEPT ![c] = Tail(@)]
      /\ UNCHANGED <<call, todo, var, work, outcome, conns, served, pcr, hier, dataVars, events>>
  BY DEF IInv, ClientOK, DeferredFlush
<1>2. /\ objects' \subseteq objects /\ sessions' \subseteq sessions
      /\ Connected(c) => \A o \in objects' : o.handle # h
  BY DEF DeferredFlush, Flush
<1>3. /\ defers' \in [Client -> Stack] /\ \A d \in Client \ {c} : defers'[d] = defers[d]
      /\ \A x : Deferred(c, x) /\ x # h => Deferred(c, x)'
  BY <1>1, Popped
<1>4. TypeOK'
  BY <1>1, <1>2, <1>3 DEF TypeOK, TPMTypeOK, Stack, dataVars
<1>5. StackOK(c)'
  BY <1>1, StackPopped
<1>6. ProgramOK(c)' /\ ResultOK(c)'
  BY <1>1 DEF ClientOK, ProgramOK, ResultOK, Idle, Failing, Ahead
<1>7. Covered'
  <2> SUFFICES ASSUME NEW o \in objects', o.owner \in Client, o.kind # "sequence"
               PROVE  Connected(o.owner)' /\ Deferred(o.owner, o.handle)'
    BY DEF Covered
  <2>1. Connected(o.owner) /\ Deferred(o.owner, o.handle)
    BY <1>1, <1>2 DEF Covered
  <2>2. Connected(o.owner)'
    BY <1>1, <2>1 DEF Connected
  <2>3. Deferred(o.owner, o.handle)'
    <3>1. CASE o.owner = c
      BY <1>2, <1>3, <2>1, <3>1
    <3>2. CASE o.owner # c
      BY <1>3, <2>1, <3>2 DEF Deferred
    <3> QED BY <3>1, <3>2
  <2> QED BY <2>2, <2>3
<1> QED BY <1>1, <1>3, <1>4, <1>5, <1>6, <1>7, OthersKept DEF ClientOK

\* When the connection is closed every flush has been run.
LEMMA DeferredCloseStep ==
  ASSUME IInv, NEW c \in Client, DeferredClose(c)
  PROVE  IInv'
<1>1. /\ TypeOK /\ ClientOK(c) /\ Covered
      /\ Unwinding(c) /\ defers[c] # <<>> /\ Head(defers[c]) = CloseConn
      /\ conns' = conns \ {c} /\ served' = served \ {c}
      /\ defers' = [defers EXCEPT ![c] = Tail(@)]
      /\ UNCHANGED <<call, todo, var, work, outcome, pcr, hier, dataVars, events>>
  BY DEF IInv, ClientOK, DeferredClose
<1>2. objects' \subseteq objects /\ sessions' \subseteq sessions
  BY DEF DeferredClose, Remaining
<1>3. /\ defers' \in [Client -> Stack] /\ \A d \in Client \ {c} : defers'[d] = defers[d]
      /\ Len(defers[c]) = 1
  BY <1>1, Popped
<1>4. TypeOK'
  BY <1>1, <1>2, <1>3 DEF TypeOK, TPMTypeOK, Stack, dataVars
<1>5. StackOK(c)'
  BY <1>1, StackPopped
<1>6. ProgramOK(c)' /\ ResultOK(c)'
  BY <1>1 DEF ClientOK, ProgramOK, ResultOK, Idle, Failing, Ahead
<1>7. Covered'
  <2> SUFFICES ASSUME NEW o \in objects', o.owner \in Client, o.kind # "sequence"
               PROVE  Connected(o.owner)' /\ Deferred(o.owner, o.handle)'
    BY DEF Covered
  <2>1. Connected(o.owner) /\ Deferred(o.owner, o.handle)
    BY <1>1, <1>2 DEF Covered
  <2>2. o.owner # c
    <3>1. o.handle # CloseConn
      BY <1>1, <1>2, HandleIsNotClose DEF TypeOK, TPMTypeOK, Object, Handle
    <3>2. \A i \in 1..Len(defers[c]) : defers[c][i] = CloseConn
      BY <1>1, <1>3 DEF TypeOK
    <3> QED BY <2>1, <3>1, <3>2 DEF Deferred
  <2> QED BY <1>1, <1>3, <2>1, <2>2 DEF Connected, Deferred
<1> QED BY <1>1, <1>3, <1>4, <1>5, <1>6, <1>7, OthersKept DEF ClientOK

\* What the four ways to return have in common.
LEMMA Ended ==
  ASSUME IInv, NEW c \in Client, NEW op, NEW status \in {"ok", "failed"}, Ends(c, op, status),
         pairs' \subseteq [aes : Key, hmac : Key], aeads' \subseteq AEAD,
         sealed' \subseteq [aead : AEAD, nonce : Text, pt : Text, aad : Text,
                            ct : CiphertextType, tag : TagType]
  PROVE  IInv'
<1>1. /\ TypeOK /\ ClientOK(c) /\ Covered
      /\ Unwinding(c) /\ defers[c] = <<>>
      /\ outcome' = [outcome EXCEPT ![c].status = status]
      /\ var' = [var EXCEPT ![c] = NoHandles]
      /\ UNCHANGED <<call, todo, defers, work, tpmVars, made, events>>
  BY DEF IInv, ClientOK, Ends
<1>2. /\ outcome' \in [Client -> OutcomeType] /\ outcome'[c].status = status
      /\ \A d \in Client \ {c} : outcome'[d] = outcome[d]
  BY <1>1 DEF TypeOK, OutcomeType
<1>3. var' \in [Client -> [Variable -> Handle \union {NoHandle}]]
  BY <1>1 DEF TypeOK, NoHandles
<1>4. TypeOK'
  BY <1>1, <1>2, <1>3 DEF TypeOK, TPMTypeOK, tpmVars
<1>5. ProgramOK(c)' /\ ResultOK(c)'
  BY <1>1, <1>2 DEF ProgramOK, ClientOK, ResultOK, Idle
<1>6. StackOK(c)'
  BY <1>1 DEF ClientOK, StackOK, Connected, Deferred, tpmVars
<1>7. Covered'
  BY <1>1, CoveredStays DEF tpmVars
<1> QED BY <1>1, <1>2, <1>4, <1>5, <1>6, <1>7, OthersKept DEF ClientOK, tpmVars

\* A result is made of what the call has computed.
LEMMA ReturnStep ==
  ASSUME IInv, NEW c \in Client, Returns(c)
  PROVE  IInv'
<1>1. /\ TypeOK /\ ClientOK(c)
      /\ pairs \subseteq [aes : Key, hmac : Key] /\ aeads \subseteq AEAD
      /\ sealed \subseteq [aead : AEAD, nonce : Text, pt : Text, aad : Text,
                           ct : CiphertextType, tag : TagType]
  BY DEF IInv, TypeOK, ClientOK
<1>2. ASSUME NEW op, Ends(c, op, "ok")
      PROVE  /\ call[c].op = op
             /\ op = "NewKey" => work[c].aes \in Key /\ work[c].hmac \in Key
             /\ op = "NewAESCTRHMAC" => KeysOK(call[c])
  <2>1. call[c].op = op /\ Running(c) /\ ~Failing(c) /\ \A s : ~Ahead(c, s)
    BY <1>2 DEF Ends, Unwinding, Ahead
  <2> QED BY <1>1, <2>1 DEF ClientOK, ResultOK
<1>3. CASE ReturnError(c)
  BY <1>1, <1>3, Ended DEF ReturnError
<1>4. CASE ReturnKeys(c)
  <2>1. [aes |-> work[c].aes, hmac |-> work[c].hmac] \in [aes : Key, hmac : Key]
    BY <1>2, <1>4 DEF ReturnKeys
  <2>2. pairs' \subseteq [aes : Key, hmac : Key]
    BY <1>1, <1>4, <2>1 DEF ReturnKeys
  <2> QED BY <1>1, <1>4, <2>2, Ended DEF ReturnKeys
<1>5. CASE ReturnAEAD(c)
  <2> DEFINE a == [aes |-> call[c].aes, hmac |-> call[c].hmac,
                   parentPass |-> call[c].parentPass, session |-> call[c].session]
  <2>1. call[c].op = "NewAESCTRHMAC" /\ KeysOK(call[c])
    BY <1>2, <1>5 DEF ReturnAEAD
  <2>2. a \in AEAD
    BY <1>1, <2>1, CallTypes DEF KeysOK, AEAD
  <2>3. aeads' \subseteq AEAD
    BY <1>1, <1>5, <2>2 DEF ReturnAEAD
  <2> QED BY <1>1, <1>5, <2>3, Ended DEF ReturnAEAD
<1>6. CASE ReturnSealed(c)
  <2>1. call[c].op = "Seal"
    BY <1>2, <1>6 DEF ReturnSealed
  <2>2. /\ call[c].aead \in AEAD /\ call[c].nonce \in Text /\ call[c].aad \in Text
        /\ call[c].pt \in Text /\ CallCiphertext(c) \in CiphertextType
    BY <1>1, <2>1, CallTypes, CallCiphertextType
  <2>3. work[c].tag \in TagType
    BY <1>1 DEF TypeOK, WorkType
  <2>4. sealed' \subseteq [aead : AEAD, nonce : Text, pt : Text, aad : Text,
                           ct : CiphertextType, tag : TagType]
    BY <1>1, <1>6, <2>2, <2>3 DEF ReturnSealed
  <2> QED BY <1>1, <1>6, <2>4, Ended DEF ReturnSealed
<1>7. CASE ReturnOpened(c)
  BY <1>1, <1>7, Ended DEF ReturnOpened
<1> QED BY <1>3, <1>4, <1>5, <1>6, <1>7 DEF Returns

-----------------------------------------------------------------------------
(* The start of a call. *)

\* An idle client has nothing deferred and no connection.
LEMMA IdleReleased ==
  ASSUME NEW c \in Client, StackOK(c), Idle(c)
  PROVE  defers[c] = <<>> /\ ~Connected(c)
BY DEF StackOK, Deferred

\* What is orphaned has no client.
LEMMA NotOrphaned ==
  ASSUME NEW c \in Client, objects \subseteq Object,
         NEW o \in Orphan(c, objects), o.owner \in Client
  PROVE  o \in objects /\ o.owner # c
<1> PICK x \in objects : o = IF x.owner = c THEN [x EXCEPT !.owner = NoClient] ELSE x
  BY DEF Orphan
<1>1. CASE x.owner = c
  <2>1. o.owner = NoClient
    BY <1>1 DEF Object
  <2> QED BY <2>1, ClientAssumption
<1>2. CASE x.owner # c
  BY <1>2
<1> QED BY <1>1, <1>2

\* Orphaned objects need no deferred flush.
LEMMA OrphanCovered ==
  ASSUME Covered, objects \subseteq Object,
         NEW c \in Client, objects' = Orphan(c, objects), UNCHANGED defers,
         \A d \in Client \ {c} : d \in conns => d \in conns'
  PROVE  Covered'
<1> SUFFICES ASSUME NEW o \in objects', o.owner \in Client, o.kind # "sequence"
             PROVE  Connected(o.owner)' /\ Deferred(o.owner, o.handle)'
  BY DEF Covered
<1>1. o \in objects /\ o.owner # c
  BY NotOrphaned
<1>2. Connected(o.owner) /\ Deferred(o.owner, o.handle)
  BY <1>1 DEF Covered
<1> QED BY <1>1, <1>2 DEF Connected, Deferred

\* What the four calls have in common.
LEMMA Started ==
  ASSUME IInv, NEW c \in Client, NEW a \in CallType, NEW program, Start(c, a, program),
         Begins(program, CommandsOf(a.op)),
         a.op = "NewKey" => /\ \E i \in 1..Len(program) : program[i] = <<"Create", "aes">>
                            /\ \E i \in 1..Len(program) : program[i] = <<"Create", "hmac">>,
         a.op = "NewAESCTRHMAC" => \E i \in 1..Len(program) : program[i] = <<"CheckKeys", "none">>
  PROVE  IInv'
<1>1. /\ TypeOK /\ ClientOK(c) /\ Covered /\ defers[c] = <<>> /\ ~Connected(c)
      /\ UNCHANGED <<defers, conns, served, pcr, hier, dataVars, events>>
      /\ objects' = Orphan(c, objects) /\ sessions' = Orphan(c, sessions)
  BY IdleReleased DEF IInv, ClientOK, Start
<1>2. /\ call' \in [Client -> CallType] /\ call'[c] = a
      /\ \A d \in Client \ {c} : call'[d] = call[d]
  BY <1>1 DEF Start, TypeOK
<1>3. /\ todo' \in [Client -> Seq(Step)] /\ todo'[c] = program
      /\ \A d \in Client \ {c} : todo'[d] = todo[d]
  BY <1>1 DEF Start, TypeOK, Begins, Over
<1>4. var' \in [Client -> [Variable -> Handle \union {NoHandle}]]
  BY <1>1 DEF Start, TypeOK, NoHandles
<1>5. work' \in [Client -> WorkType] /\ \A d \in Client \ {c} : work'[d] = work[d]
  <2>1. NoWork \in WorkType
    BY DEF NoWork, WorkType, TagType, NoTag, NilKey
  <2> QED BY <1>1, <2>1 DEF Start, TypeOK
<1>6. outcome' \in [Client -> OutcomeType] /\ \A d \in Client \ {c} : outcome'[d] = outcome[d]
  <2>1. [status |-> "pending", why |-> "none", at |-> "none", since |-> events,
        cut |-> FALSE] \in OutcomeType
    BY <1>1 DEF OutcomeType, TypeOK
  <2> QED BY <1>1, <2>1 DEF Start, TypeOK
<1>7. outcome'[c].status = "pending"
  BY <1>1 DEF Start, TypeOK
<1>8. objects' \subseteq Object /\ sessions' \subseteq Session
  BY <1>1, OrphanType DEF TypeOK, TPMTypeOK
<1>9. TypeOK'
  BY <1>1, <1>2, <1>3, <1>4, <1>5, <1>6, <1>8 DEF TypeOK, TPMTypeOK, dataVars
<1>10. ProgramOK(c)'
  BY <1>2, <1>3 DEF ProgramOK, Begins, Over
<1>11. ResultOK(c)'
  BY <1>2, <1>3 DEF ResultOK, Ahead
<1>12. StackOK(c)'
  BY <1>1, <1>3, <1>7 DEF StackOK, Begins, DialEarly, Idle, Connected
<1>13. Covered'
  BY <1>1, OrphanCovered DEF TypeOK, TPMTypeOK
<1> QED BY <1>1, <1>2, <1>3, <1>5, <1>6, <1>9, <1>10, <1>11, <1>12, <1>13, OthersKept DEF ClientOK

\* The second of two sequences comes after the first.
LEMMA ConcatEnd ==
  ASSUME NEW s \in Seq(Step), NEW t \in Seq(Step), NEW i \in 1..Len(t)
  PROVE  Len(s) + i \in 1..Len(s \o t) /\ (s \o t)[Len(s) + i] = t[i]
OBVIOUS

\* NewKey's program creates both keys, and NewAESCTRHMAC's checks them.
LEMMA NewKeyCreates ==
  ASSUME NEW kind
  PROVE  /\ \E i \in 1..Len(NewKeyProgram(kind)) : NewKeyProgram(kind)[i] = <<"Create", "aes">>
         /\ \E i \in 1..Len(NewKeyProgram(kind)) : NewKeyProgram(kind)[i] = <<"Create", "hmac">>
<1> DEFINE d == << <<"Dial", "none">> >>
           g == GetSession(kind, "trial")
           b == << <<"PolicyGetDigest", "trial">>, <<"CreatePrimary", "primary">>,
                   <<"Create", "aes">>, <<"Create", "hmac">> >>
           t == d \o g
<1>1. d \in Seq(Step) /\ b \in Seq(Step) /\ Len(b) = 4
      /\ b[3] = <<"Create", "aes">> /\ b[4] = <<"Create", "hmac">>
  BY DEF Step, Command, LocalCommand, Variable, SessionVariable, ObjectVariable
<1>2. g \in Seq(Step)
  BY SessionOver DEF Over, Variable, SessionVariable
<1>3. t \in Seq(Step) /\ Len(t) \in Nat
  <2> HIDE DEF d, g
  <2> QED BY <1>1, <1>2
<1>4. NewKeyProgram(kind) = t \o b
  BY DEF NewKeyProgram
<1>5. /\ Len(t) + 3 \in 1..Len(t \o b) /\ (t \o b)[Len(t) + 3] = b[3]
      /\ Len(t) + 4 \in 1..Len(t \o b) /\ (t \o b)[Len(t) + 4] = b[4]
  <2> HIDE DEF t, b
  <2>1. b \in Seq(Step) /\ t \in Seq(Step) /\ 3 \in 1..Len(b) /\ 4 \in 1..Len(b)
    BY <1>1, <1>3
  <2> QED BY <2>1, ConcatEnd
<1> HIDE DEF t, b
<1> QED BY <1>1, <1>4, <1>5

\* The same for the check of the keys.
LEMMA NewAEADChecks ==
  \E i \in 1..Len(NewAESCTRHMACProgram) : NewAESCTRHMACProgram[i] = <<"CheckKeys", "none">>
<1>1. /\ NewAESCTRHMACProgram[2] = <<"CheckKeys", "none">>
      /\ 2 \in 1..Len(NewAESCTRHMACProgram)
  BY DEF NewAESCTRHMACProgram
<1> QED BY <1>1

\* NewKey is called.
LEMMA NewKeyStep ==
  ASSUME IInv, NEW c \in Client, NewKey(c)
  PROVE  IInv'
<1> PICK keyPass \in Password, parentPass \in Password, s \in SessionConfig :
        Start(c, [op |-> "NewKey", keyPass |-> keyPass, parentPass |-> parentPass, session |-> s],
              NewKeyProgram(s.kind))
  BY DEF NewKey
<1> DEFINE a == [op |-> "NewKey", keyPass |-> keyPass, parentPass |-> parentPass, session |-> s]
<1>1. a \in CallType /\ a.op = "NewKey"
  BY DEF CallType
<1>2. Start(c, a, NewKeyProgram(s.kind)) /\ Begins(NewKeyProgram(s.kind), CommandsOf(a.op))
  BY NewKeyBegins
<1> HIDE DEF a
<1> QED BY <1>1, <1>2, NewKeyCreates, Started

\* NewAESCTRHMAC is called.
LEMMA NewAESCTRHMACStep ==
  ASSUME IInv, NEW c \in Client, NewAESCTRHMAC(c)
  PROVE  IInv'
<1> PICK aes \in {p.aes : p \in pairs} \union {NilKey}, hmac \in {p.hmac : p \in pairs} \union {NilKey},
         parentPass \in Password, s \in SessionConfig :
           Start(c, [op |-> "NewAESCTRHMAC", aes |-> aes, hmac |-> hmac,
                     parentPass |-> parentPass, session |-> s], NewAESCTRHMACProgram)
  BY DEF NewAESCTRHMAC
<1> DEFINE a == [op |-> "NewAESCTRHMAC", aes |-> aes, hmac |-> hmac,
                 parentPass |-> parentPass, session |-> s]
<1>1. aes \in Key \union {NilKey} /\ hmac \in Key \union {NilKey}
  BY DEF IInv, TypeOK
<1>2. a \in CallType /\ a.op = "NewAESCTRHMAC"
  BY <1>1 DEF CallType
<1>3. Start(c, a, NewAESCTRHMACProgram) /\ Begins(NewAESCTRHMACProgram, CommandsOf(a.op))
  BY NewAEADBegins
<1> HIDE DEF a
<1> QED BY <1>2, <1>3, NewAEADChecks, Started

\* Seal is called.
LEMMA SealStep ==
  ASSUME IInv, NEW c \in Client, Seal(c)
  PROVE  IInv'
<1> PICK i \in aeads, nonce \in Nonce, pt \in Plaintext, aad \in AAD :
        Start(c, [op |-> "Seal", aead |-> i, parentPass |-> i.parentPass, session |-> i.session,
                  nonce |-> nonce, pt |-> pt, aad |-> aad],
              SealProgram(i.session.kind, nonce.len, aad.len, pt.len))
  BY DEF Seal
<1> DEFINE a == [op |-> "Seal", aead |-> i, parentPass |-> i.parentPass, session |-> i.session,
                 nonce |-> nonce, pt |-> pt, aad |-> aad]
           program == SealProgram(i.session.kind, nonce.len, aad.len, pt.len)
<1>1. i \in AEAD /\ nonce \in Text /\ pt \in Text /\ aad \in Text
  BY TextAssumption DEF IInv, TypeOK
<1>2. /\ i.parentPass \in Password /\ i.session \in SessionConfig
      /\ nonce.len \in Nat /\ aad.len \in Nat /\ pt.len \in Nat
  BY <1>1 DEF AEAD, Text, TooShort
<1>3. a \in CallType /\ a.op = "Seal"
  BY <1>1, <1>2 DEF CallType
<1>4. Begins(program, CommandsOf(a.op))
  BY <1>2, SealBegins
<1>5. Start(c, a, program)
  OBVIOUS
<1> HIDE DEF a, program
<1> QED BY <1>3, <1>4, <1>5, Started

\* Open's input is parts of sealed messages, or is too short to hold a tag.
LEMMA InputType ==
  ASSUME TypeOK, NEW in \in Input
  PROVE  /\ in.ct \in CiphertextType /\ in.tag \in TagType /\ in.len \in Nat
         /\ in.len >= tagSize => \E b \in sealed : b.tag = in.tag
<1>1. \A b \in sealed : b.ct \in CiphertextType /\ b.tag \in TagType
  BY DEF TypeOK
<1>2. CASE \E b1, b2 \in sealed :
             in = [ct |-> b1.ct, tag |-> b2.tag, len |-> b1.ct.pt.len + tagSize]
  <2> PICK b1 \in sealed, b2 \in sealed :
           in = [ct |-> b1.ct, tag |-> b2.tag, len |-> b1.ct.pt.len + tagSize]
    BY <1>2
  <2>1. b1.ct \in CiphertextType /\ b2.tag \in TagType
    BY <1>1
  <2>2. b1.ct.pt.len + tagSize \in Nat
    BY <2>1 DEF CiphertextType, Text, TooShort, tagSize
  <2> QED BY <2>1, <2>2
<1>3. CASE \E n \in Nonce :
             in = [ct |-> Ciphertext({}, n, TooShort), tag |-> NoTag, len |-> tagSize - 1]
  <2> PICK n \in Nonce :
           in = [ct |-> Ciphertext({}, n, TooShort), tag |-> NoTag, len |-> tagSize - 1]
    BY <1>3
  <2>1. Ciphertext({}, n, TooShort) \in CiphertextType
    <3>1. n \in Text /\ TooShort \in Text
      BY TextAssumption DEF Text
    <3> QED BY <3>1 DEF CiphertextType, Ciphertext
  <2>2. NoTag \in TagType /\ tagSize - 1 \in Nat /\ ~(tagSize - 1 >= tagSize)
    BY DEF TagType, tagSize
  <2> QED BY <2>1, <2>2
<1> QED BY <1>2, <1>3 DEF Input

\* Open is called, with parts of sealed messages or too little input.
LEMMA OpenStep ==
  ASSUME IInv, NEW c \in Client, Open(c)
  PROVE  IInv'
<1> PICK i \in aeads, nonce \in Nonce, aad \in AAD, in \in Input :
        Start(c, [op |-> "Open", aead |-> i, parentPass |-> i.parentPass, session |-> i.session,
                  nonce |-> nonce, aad |-> aad, ct |-> in.ct, tag |-> in.tag, len |-> in.len],
              OpenProgram(i.session.kind, nonce.len, aad.len, in.ct.pt.len))
  BY DEF Open
<1> DEFINE a == [op |-> "Open", aead |-> i, parentPass |-> i.parentPass, session |-> i.session,
                 nonce |-> nonce, aad |-> aad, ct |-> in.ct, tag |-> in.tag, len |-> in.len]
           program == OpenProgram(i.session.kind, nonce.len, aad.len, in.ct.pt.len)
<1>1. i \in AEAD /\ nonce \in Text /\ aad \in Text
  BY TextAssumption DEF IInv, TypeOK
<1>2. in.ct \in CiphertextType /\ in.tag \in TagType /\ in.len \in Nat
  BY InputType DEF IInv
<1>3. /\ i.parentPass \in Password /\ i.session \in SessionConfig
      /\ nonce.len \in Nat /\ aad.len \in Nat /\ in.ct.pt.len \in Nat
  BY <1>1, <1>2 DEF AEAD, Text, TooShort, CiphertextType
<1>4. a \in CallType /\ a.op = "Open"
  BY <1>1, <1>2, <1>3 DEF CallType
<1>5. Begins(program, CommandsOf(a.op))
  BY <1>3, OpenBegins
<1>6. Start(c, a, program)
  OBVIOUS
<1> HIDE DEF a, program
<1> QED BY <1>4, <1>5, <1>6, Started

-----------------------------------------------------------------------------
(* The environment. *)

\* The number of events stays a natural number.
LEMMA EventsType ==
  ASSUME TypeOK, NEW e, Happens(e)
  PROVE  events' \in Nat
BY DEF Happens, TypeOK

\* What a broken connection or a dead client leaves in the device.
LEMMA RemainingOrphans ==
  ASSUME NEW c \in Client
  PROVE  /\ Remaining(c, Orphan(c, objects)) \subseteq Orphan(c, objects)
         /\ Remaining(c, Orphan(c, sessions)) \subseteq Orphan(c, sessions)
BY DEF Remaining

\* A broken connection only notes in the outcome that the call was cut off.
LEMMA CutOutcome ==
  ASSUME TypeOK, NEW c \in Client, ConnectionLost(c)
  PROVE  /\ outcome' \in [Client -> OutcomeType]
         /\ \A d \in Client \ {c} : outcome'[d] = outcome[d]
         /\ \A d \in Client : /\ outcome'[d].status = outcome[d].status
                             /\ outcome'[d].why = outcome[d].why
                             /\ outcome'[d].at = outcome[d].at
                             /\ outcome'[d].since = outcome[d].since
<1> DEFINE o == [outcome[c] EXCEPT !.cut = TRUE]
<1>1. outcome' = [outcome EXCEPT ![c] = o] /\ outcome \in [Client -> OutcomeType]
  BY DEF ConnectionLost, TypeOK
<1>2. /\ o \in OutcomeType /\ o.status = outcome[c].status /\ o.why = outcome[c].why
      /\ o.at = outcome[c].at /\ o.since = outcome[c].since
  BY <1>1 DEF OutcomeType
<1> HIDE DEF o
<1> QED BY <1>1, <1>2

\* A broken connection orphans what its client had loaded.
LEMMA ConnectionLostStep ==
  ASSUME IInv, NEW c \in Client, ConnectionLost(c)
  PROVE  IInv'
<1>1. /\ TypeOK /\ ClientOK(c) /\ Covered /\ events' \in Nat
      /\ conns' = conns \ {c} /\ served' = served \ {c}
      /\ objects' = Orphan(c, objects) /\ sessions' = Orphan(c, sessions)
      /\ UNCHANGED <<call, todo, defers, var, work, dataVars, pcr, hier>>
  BY EventsType DEF IInv, ClientOK, ConnectionLost
<1>2. objects' \subseteq Object /\ sessions' \subseteq Session
  BY <1>1, OrphanType DEF TypeOK, TPMTypeOK
<1>3. TypeOK'
  BY <1>1, <1>2, CutOutcome DEF TypeOK, TPMTypeOK, dataVars
<1>4. ClientOK(c)'
  BY <1>1, CutOutcome, Undisturbed
<1>5. Covered'
  BY <1>1, OrphanCovered DEF TypeOK, TPMTypeOK
<1> QED BY <1>1, <1>3, <1>4, <1>5, CutOutcome, OthersKept

\* So does the death of a client, with all its deferred functions.
LEMMA CrashStep ==
  ASSUME IInv, NEW c \in Client, Crash(c)
  PROVE  IInv'
<1>1. /\ TypeOK /\ ClientOK(c) /\ Covered /\ events' \in Nat
      /\ conns' = conns \ {c} /\ served' = served \ {c}
      /\ objects' = Remaining(c, Orphan(c, objects))
      /\ sessions' = Remaining(c, Orphan(c, sessions))
      /\ todo' = [todo EXCEPT ![c] = <<>>] /\ defers' = [defers EXCEPT ![c] = <<>>]
      /\ outcome' = [outcome EXCEPT ![c].status = "failed", ![c].why = "crash", ![c].at = "none",
                                     ![c].cut = TRUE]
      /\ var' = [var EXCEPT ![c] = NoHandles]
      /\ UNCHANGED <<call, work, dataVars, pcr, hier>>
  BY EventsType DEF IInv, ClientOK, Crash
<1>2. objects' \subseteq Object /\ sessions' \subseteq Session
  BY <1>1, OrphanType DEF TypeOK, TPMTypeOK
<1>3. /\ todo' \in [Client -> Seq(Step)] /\ todo'[c] = <<>>
      /\ defers' \in [Client -> Stack] /\ defers'[c] = <<>>
      /\ \A d \in Client \ {c} : todo'[d] = todo[d] /\ defers'[d] = defers[d]
  BY <1>1 DEF TypeOK, Stack
<1>4. /\ outcome' \in [Client -> OutcomeType] /\ outcome'[c].status = "failed"
      /\ \A d \in Client \ {c} : outcome'[d] = outcome[d]
  <2> DEFINE o == [outcome[c] EXCEPT !.status = "failed", !.why = "crash", !.at = "none",
                             !.cut = TRUE]
  <2>1. outcome' = [outcome EXCEPT ![c] = o] /\ outcome \in [Client -> OutcomeType]
    BY <1>1 DEF TypeOK
  <2>2. "crash" \in Failure
    BY DEF Failure
  <2>3. o \in OutcomeType /\ o.status = "failed"
    BY <2>1, <2>2 DEF OutcomeType
  <2> HIDE DEF o
  <2> QED BY <2>1, <2>3
<1>5. var' \in [Client -> [Variable -> Handle \union {NoHandle}]]
  BY <1>1 DEF TypeOK, NoHandles
<1>6. TypeOK'
  BY <1>1, <1>2, <1>3, <1>4, <1>5 DEF TypeOK, TPMTypeOK, Stack, dataVars
<1>7. ClientOK(c)'
  BY <1>1, <1>3, <1>4 DEF ClientOK, ProgramOK, ResultOK, StackOK, Idle, Connected
<1>8. Covered'
  <2> SUFFICES ASSUME NEW o \in objects', o.owner \in Client, o.kind # "sequence"
               PROVE  Connected(o.owner)' /\ Deferred(o.owner, o.handle)'
    BY DEF Covered
  <2>1. o \in Orphan(c, objects)
    BY <1>1, RemainingOrphans
  <2>2. o \in objects /\ o.owner # c
    BY <1>1, <2>1, NotOrphaned DEF TypeOK, TPMTypeOK
  <2>3. Connected(o.owner) /\ Deferred(o.owner, o.handle)
    BY <1>1, <2>2 DEF Covered
  <2> QED BY <1>1, <1>3, <2>2, <2>3 DEF Connected, Deferred
<1> QED BY <1>1, <1>3, <1>4, <1>6, <1>7, <1>8, OthersKept

\* Events in the device itself.
LEMMA DeviceStep ==
  ASSUME IInv, Restart \/ ExtendPCR \/ ChangeOwnerAuth \/ Clear
  PROVE  IInv'
<1>1. /\ TypeOK /\ Covered /\ events' \in Nat
      /\ UNCHANGED <<callVars, dataVars>>
  BY EventsType DEF IInv, Restart, ExtendPCR, ChangeOwnerAuth, Clear
<1>2. /\ objects' \subseteq objects /\ sessions' \subseteq sessions
      /\ conns' \subseteq conns /\ served' \subseteq conns'
      /\ conns' = conns \/ objects' = {}
  BY <1>1 DEF Restart, ExtendPCR, ChangeOwnerAuth, Clear, TypeOK, TPMTypeOK
<1>3. pcr' \in [value : PCRValue, count : Nat] /\ hier' \in [seed : Nat, auth : Password]
  <2>1. pcr \in [value : PCRValue, count : Nat] /\ hier \in [seed : Nat, auth : Password]
    BY <1>1 DEF TypeOK, TPMTypeOK
  <2>2. CASE Restart
    BY <2>1, <2>2 DEF Restart
  <2>3. CASE ExtendPCR
    BY <2>1, <2>3 DEF ExtendPCR
  <2>4. CASE ChangeOwnerAuth
    BY <2>1, <2>4 DEF ChangeOwnerAuth
  <2>5. CASE Clear
    BY <2>1, <2>5, PasswordAssumption DEF Clear
  <2> QED BY <2>2, <2>3, <2>4, <2>5
<1>4. TypeOK'
  BY <1>1, <1>2, <1>3 DEF TypeOK, TPMTypeOK, callVars, dataVars
<1>5. ASSUME NEW c \in Client PROVE ClientOK(c)'
  <2>1. ClientOK(c)
    BY DEF IInv, ClientOK
  <2> QED BY <1>1, <1>2, <2>1, Undisturbed DEF callVars
<1>6. Covered'
  BY <1>1, <1>2 DEF Covered, Connected, Deferred, callVars
<1> QED BY <1>4, <1>5, <1>6 DEF IInv, ClientOK

\* A socket turns to a waiting connection.
LEMMA AcceptStep ==
  ASSUME IInv, NEW c \in Client, Accept(c)
  PROVE  IInv'
<1>1. /\ TypeOK /\ ClientOK(c) /\ Covered
      /\ c \in conns /\ served' = {c}
      /\ UNCHANGED <<objects, sessions, conns, pcr, hier>> /\ UNCHANGED <<dataVars, callVars, events>>
  BY DEF IInv, ClientOK, Accept, AcceptConnection
<1>2. TypeOK'
  BY <1>1 DEF TypeOK, TPMTypeOK, callVars, dataVars
<1>3. ClientOK(c)'
  BY <1>1, Undisturbed DEF callVars
<1>4. Covered'
  BY <1>1, CoveredStays DEF callVars
<1> QED BY <1>1, <1>2, <1>3, <1>4, OthersKept DEF callVars

-----------------------------------------------------------------------------
(* The theorems. *)

\* The invariant holds at first.
LEMMA InitInvariant == Init => IInv
<1> SUFFICES ASSUME Init PROVE IInv
  OBVIOUS
<1>1. TypeOK
  <2>1. TPMTypeOK
    BY DEF Init, InitTPM, TPMTypeOK
  <2>2. NoWork \in WorkType /\ NoHandles \in [Variable -> Handle \union {NoHandle}]
    BY DEF NoWork, WorkType, TagType, NoTag, NilKey, NoHandles
  <2>3. /\ [op |-> "none"] \in CallType
        /\ [status |-> "none", why |-> "none", at |-> "none", since |-> 0,
            cut |-> FALSE] \in OutcomeType
    BY DEF CallType, OutcomeType
  <2> QED BY <2>1, <2>2, <2>3, InitAssumption, BoundAssumption DEF Init, TypeOK
<1>2. ASSUME NEW c \in Client PROVE ProgramOK(c) /\ ResultOK(c) /\ StackOK(c)
  BY DEF Init, InitTPM, ProgramOK, ResultOK, StackOK, Idle, Connected
<1>3. Covered
  BY DEF Init, InitTPM, Covered
<1> QED BY <1>1, <1>2, <1>3 DEF IInv

\* Every step of the specification preserves the invariant.
LEMMA NextInvariant == IInv /\ [Next]_vars => IInv'
<1> SUFFICES ASSUME IInv, [Next]_vars PROVE IInv'
  OBVIOUS
<1>1. ASSUME NEW c \in Client, Calls(c) PROVE IInv'
  BY <1>1, NewKeyStep, NewAESCTRHMACStep, SealStep, OpenStep DEF Calls
<1>2. ASSUME NEW c \in Client, Advance(c) PROVE IInv'
  <2>1. CASE LocalStep(c)
    BY <2>1, CheckStep, DialStep, DeferStep DEF LocalStep
  <2>2. CASE SessionCommand(c)
    BY <2>2, PolicyGetDigestStep, StartAuthSessionStep, PolicyPCRStep, PolicyAuthValueStep
       DEF SessionCommand
  <2>3. CASE KeyCommand(c)
    BY <2>3, CreatePrimaryStep, CreateStep, LoadStep, EncryptDecrypt2Step, ReadPublicStep,
       HmacStartStep, SequenceCompleteStep DEF KeyCommand
  <2>4. CASE FlushContext(c) \/ CommandRefused(c) \/ CommandLost(c)
    BY <2>4, FlushContextStep, CommandFails
  <2>5. CASE DeferredFlush(c) \/ DeferredClose(c) \/ Returns(c)
    BY <2>5, DeferredFlushStep, DeferredCloseStep, ReturnStep
  <2> QED BY <1>2, <2>1, <2>2, <2>3, <2>4, <2>5 DEF Advance
<1>3. ASSUME NEW c \in Client, Accept(c) PROVE IInv'
  BY <1>3, AcceptStep
<1>4. CASE Environment
  BY <1>4, CommandFails, ConnectionLostStep, CrashStep, DeviceStep DEF Environment
<1>5. CASE UNCHANGED vars
  <2>1. UNCHANGED <<tpmVars, dataVars, callVars, events>>
    BY <1>5 DEF vars
  <2>2. TypeOK'
    BY <2>1 DEF IInv, TypeOK, TPMTypeOK, tpmVars, dataVars, callVars
  <2>3. ASSUME NEW c \in Client PROVE ClientOK(c)'
    <3>1. ClientOK(c)
      BY DEF IInv, ClientOK
    <3> QED BY <2>1, <3>1, Undisturbed DEF tpmVars, callVars
  <2>4. Covered'
    BY <2>1 DEF IInv, Covered, Connected, Deferred, tpmVars, callVars
  <2> QED BY <2>2, <2>3, <2>4 DEF IInv, ClientOK
<1> QED BY <1>1, <1>2, <1>3, <1>4, <1>5 DEF Next

\* Whatever the clients call and the environment does, the state has its type.
THEOREM TypeCorrect == Spec => []TypeOK
<1>1. IInv => TypeOK
  BY DEF IInv
<1> QED BY <1>1, InitInvariant, NextInvariant, PTL DEF Spec

\* When a call is over, its connection is closed, and neither its primary nor a
\* key it loaded is in the device any more unless its connection broke or its
\* process died: the deferred closes and flushes of NewKey, Seal and Open release
\* them on every way out of the function.
THEOREM ReleasesKeys == Spec => []KeysReleased
<1>1. IInv => KeysReleased
  <2> SUFFICES ASSUME IInv, NEW c \in Client, Idle(c)
               PROVE  ~Connected(c) /\ \A o \in objects : o.owner = c => o.kind = "sequence"
    BY DEF KeysReleased
  <2>1. StackOK(c) /\ Covered
    BY DEF IInv
  <2>2. ~Connected(c)
    BY <2>1, IdleReleased
  <2> QED BY <2>1, <2>2 DEF Covered
<1> QED BY <1>1, InitInvariant, NextInvariant, PTL DEF Spec

-----------------------------------------------------------------------------
(* The order of the programs. *)

\* s has the steps S, perhaps with Optional, in order and at places lo to hi.
Arranged(op, s, S, lo, hi) ==
  /\ s \in Seq(Step)
  /\ \A i \in 1..Len(s) : s[i] \in S \union {Optional} /\ PlaceOf(op, s[i]) \in lo..hi
  /\ \A i, j \in 1..Len(s) : i < j =>
       \/ PlaceOf(op, s[i]) < PlaceOf(op, s[j])
       \/ s[i] = s[j] /\ s[i] \in Repeated
  /\ \A m \in S : \E j \in 1..Len(s) : s[j] = m

\* Two sequences in order, one at places after the other's, make one.
LEMMA ArrangedConcat ==
  ASSUME NEW op, NEW s, NEW S, NEW t, NEW T, NEW lo \in Nat, NEW mid \in Nat, NEW hi \in Nat,
         NEW next \in Nat, lo <= mid, mid < next, next <= hi,
         Arranged(op, s, S, lo, mid), Arranged(op, t, T, next, hi)
  PROVE  Arranged(op, s \o t, S \union T, lo, hi)
<1> DEFINE u == s \o t
           P(x) == PlaceOf(op, x)
<1>1. /\ s \in Seq(Step) /\ t \in Seq(Step) /\ u \in Seq(Step)
      /\ Len(s) \in Nat /\ Len(t) \in Nat /\ Len(u) = Len(s) + Len(t)
  BY DEF Arranged
<1>2. \A i \in 1..Len(u) :
        \/ i \in 1..Len(s) /\ u[i] = s[i]
        \/ i - Len(s) \in 1..Len(t) /\ i > Len(s) /\ u[i] = t[i - Len(s)]
  BY <1>1
<1>3. /\ \A i \in 1..Len(s) : i \in 1..Len(u) /\ u[i] = s[i]
      /\ \A i \in 1..Len(t) : i + Len(s) \in 1..Len(u) /\ u[i + Len(s)] = t[i]
  BY <1>1
<1>4. /\ \A i \in 1..Len(s) : s[i] \in S \union {Optional} /\ P(s[i]) \in lo..mid
      /\ \A i \in 1..Len(t) : t[i] \in T \union {Optional} /\ P(t[i]) \in next..hi
  BY DEF Arranged
<1> HIDE DEF u, P
<1>5. ASSUME NEW i \in 1..Len(u) PROVE u[i] \in S \union T \union {Optional} /\ P(u[i]) \in lo..hi
  <2>1. CASE i \in 1..Len(s) /\ u[i] = s[i]
    <3>1. s[i] \in S \union {Optional} /\ P(s[i]) \in lo..mid
      BY <1>4, <2>1
    <3> QED BY <2>1, <3>1
  <2>2. CASE i - Len(s) \in 1..Len(t) /\ u[i] = t[i - Len(s)]
    <3>1. t[i - Len(s)] \in T \union {Optional} /\ P(t[i - Len(s)]) \in next..hi
      BY <1>4, <2>2
    <3> QED BY <2>2, <3>1
  <2> QED BY <1>2, <2>1, <2>2
<1>6. ASSUME NEW i \in 1..Len(u), NEW j \in 1..Len(u), i < j
      PROVE  P(u[i]) < P(u[j]) \/ (u[i] = u[j] /\ u[i] \in Repeated)
  <2>1. CASE j \in 1..Len(s) /\ u[j] = s[j]
    <3>1. i \in 1..Len(s) /\ u[i] = s[i]
      BY <1>1, <1>2, <1>6, <2>1
    <3> QED BY <1>6, <2>1, <3>1 DEF Arranged, P
  <2>2. CASE i \in 1..Len(s) /\ u[i] = s[i] /\ j - Len(s) \in 1..Len(t) /\ u[j] = t[j - Len(s)]
    <3>1. P(s[i]) \in lo..mid /\ P(t[j - Len(s)]) \in next..hi
      BY <1>4, <2>2
    <3>2. P(s[i]) < P(t[j - Len(s)])
      BY <3>1
    <3> QED BY <2>2, <3>2
  <2>3. CASE /\ i - Len(s) \in 1..Len(t) /\ u[i] = t[i - Len(s)]
             /\ j - Len(s) \in 1..Len(t) /\ u[j] = t[j - Len(s)]
    <3>1. i - Len(s) < j - Len(s)
      BY <1>1, <1>6
    <3> QED BY <2>3, <3>1 DEF Arranged, P
  <2>4. i > Len(s) /\ j \in 1..Len(s) => FALSE
    BY <1>1, <1>6
  <2> QED BY <1>2, <2>1, <2>2, <2>3, <2>4
<1>7. \A m \in S \union T : \E j \in 1..Len(u) : u[j] = m
  <2> TAKE m \in S \union T
  <2>1. CASE m \in S
    BY <1>3, <2>1 DEF Arranged
  <2>2. CASE m \in T
    <3> PICK j \in 1..Len(t) : t[j] = m
      BY <2>2 DEF Arranged
    <3> QED BY <1>3
  <2> QED BY <2>1, <2>2
<1> QED BY <1>1, <1>5, <1>6, <1>7 DEF Arranged, u, P

\* One step, a step repeated, and none are in order.
LEMMA ArrangedOne ==
  ASSUME NEW op, NEW step \in Step, NEW p \in Nat, PlaceOf(op, step) = p
  PROVE  Arranged(op, <<step>>, {step}, p, p)
BY DEF Arranged

\* Two steps in the order of their places.
LEMMA ArrangedTwo ==
  ASSUME NEW op, NEW x \in Step, NEW y \in Step,
         PlaceOf(op, x) \in Nat, PlaceOf(op, y) \in Nat, PlaceOf(op, x) < PlaceOf(op, y)
  PROVE  Arranged(op, <<x, y>>, {x, y}, PlaceOf(op, x), PlaceOf(op, y))
BY DEF Arranged

\* Four steps in the order of their places.
LEMMA ArrangedFour ==
  ASSUME NEW op, NEW x1 \in Step, NEW x2 \in Step, NEW x3 \in Step, NEW x4 \in Step,
         \A x \in {x1, x2, x3, x4} : PlaceOf(op, x) \in Nat,
         PlaceOf(op, x1) < PlaceOf(op, x2), PlaceOf(op, x2) < PlaceOf(op, x3), PlaceOf(op, x3) < PlaceOf(op, x4)
  PROVE  Arranged(op, <<x1, x2, x3, x4>>, {x1, x2, x3, x4}, PlaceOf(op, x1), PlaceOf(op, x4))
BY DEF Arranged

\* No step at all.
LEMMA ArrangedNone ==
  ASSUME NEW op, NEW lo, NEW hi
  PROVE  Arranged(op, <<>>, {}, lo, hi)
BY DEF Arranged

\* A step that is repeated has one place.
LEMMA ArrangedRepeat ==
  ASSUME NEW op, NEW step \in Repeated, step \in Step, NEW n \in Nat, NEW p \in Nat,
         PlaceOf(op, step) = p
  PROVE  /\ n # 0 => Arranged(op, Repeat(step, n), {step}, p, p)
         /\ n = 0 => Arranged(op, Repeat(step, n), {}, p, p)
         /\ step = Optional => Arranged(op, Repeat(step, n), {}, p, p)
<1> DEFINE s == Repeat(step, n)
<1>1. /\ s \in Seq(Step) /\ Len(s) = n /\ \A i \in 1..n : s[i] = step
  BY DEF Repeat
<1> HIDE DEF s
<1>2. n # 0 => 1 \in 1..Len(s) /\ s[1] = step
  BY <1>1
<1>3. n # 0 => \A m \in {step} : \E j \in 1..Len(s) : s[j] = m
  BY <1>2
<1> QED BY <1>1, <1>3 DEF Arranged, s

-----------------------------------------------------------------------------
(* The places of the steps, one by one. *)

USE DEF Optional

\* The steps of a session held in v, four in a row.
SessionAt(op, v, n) ==
  /\ PlaceOf(op, <<"StartAuthSession", v>>) = n
  /\ PlaceOf(op, <<"PolicyPCR", v>>) = n + 1
  /\ PlaceOf(op, <<"PolicyAuthValue", v>>) = n + 2
  /\ PlaceOf(op, <<"Defer", v>>) = n + 3

\* The places of the steps of NewKey.
LEMMA NewKeyPlaces ==
  /\ PlaceOf("NewKey", <<"Dial", "none">>) = 1
  /\ SessionAt("NewKey", "trial", 2)
  /\ PlaceOf("NewKey", <<"PolicyGetDigest", "trial">>) = 6
  /\ PlaceOf("NewKey", <<"CreatePrimary", "primary">>) = 7
  /\ PlaceOf("NewKey", <<"Create", "aes">>) = 8
  /\ PlaceOf("NewKey", <<"Create", "hmac">>) = 9
BY DEF PlaceOf, NewKeyPlace, SessionAt

\* The places of the steps of NewAESCTRHMAC.
LEMMA NewAEADPlaces ==
  /\ PlaceOf("NewAESCTRHMAC", <<"Dial", "none">>) = 1
  /\ PlaceOf("NewAESCTRHMAC", <<"CheckKeys", "none">>) = 2
BY DEF PlaceOf, NewAEADPlace

\* The places of the steps of Seal.
LEMMA SealPlaces ==
  /\ PlaceOf("Seal", <<"CheckLengths", "none">>) = 1
  /\ PlaceOf("Seal", <<"Dial", "none">>) = 2
  /\ PlaceOf("Seal", <<"CreatePrimary", "primary">>) = 3
  /\ PlaceOf("Seal", <<"Load", "aes">>) = 4
  /\ SessionAt("Seal", "aesSession", 5)
  /\ PlaceOf("Seal", <<"EncryptDecrypt2", "aes">>) = 9
  /\ PlaceOf("Seal", <<"FlushContext", "aes">>) = 10
  /\ PlaceOf("Seal", <<"FlushContext", "aesSession">>) = 11
  /\ PlaceOf("Seal", <<"Load", "hmac">>) = 12
  /\ SessionAt("Seal", "hmacSession", 13)
  /\ PlaceOf("Seal", <<"ReadPublic", "hmac">>) = 17
  /\ PlaceOf("Seal", <<"HmacStart", "hmac">>) = 18
  /\ PlaceOf("Seal", <<"SequenceUpdate", "sequence">>) = 19
  /\ PlaceOf("Seal", <<"SequenceComplete", "sequence">>) = 20
  /\ PlaceOf("Seal", <<"Defer", "hmac">>) = 21
BY DEF PlaceOf, SealPlace, SessionAt

\* The places of the steps of Open.
LEMMA OpenPlaces ==
  /\ PlaceOf("Open", <<"CheckLengths", "none">>) = 1
  /\ PlaceOf("Open", <<"Dial", "none">>) = 2
  /\ PlaceOf("Open", <<"CreatePrimary", "primary">>) = 3
  /\ PlaceOf("Open", <<"Load", "hmac">>) = 4
  /\ SessionAt("Open", "hmacSession", 5)
  /\ PlaceOf("Open", <<"ReadPublic", "hmac">>) = 9
  /\ PlaceOf("Open", <<"HmacStart", "hmac">>) = 10
  /\ PlaceOf("Open", <<"SequenceUpdate", "sequence">>) = 11
  /\ PlaceOf("Open", <<"SequenceComplete", "sequence">>) = 12
  /\ PlaceOf("Open", <<"FlushContext", "hmacSession">>) = 13
  /\ PlaceOf("Open", <<"FlushContext", "hmac">>) = 14
  /\ PlaceOf("Open", <<"CheckTag", "none">>) = 15
  /\ PlaceOf("Open", <<"Load", "aes">>) = 16
  /\ SessionAt("Open", "aesSession", 17)
  /\ PlaceOf("Open", <<"EncryptDecrypt2", "aes">>) = 21
BY DEF PlaceOf, OpenPlace, SessionAt

\* The steps of GetSession and the caller's defer are in order, ...
LEMMA ArrangedSession ==
  ASSUME NEW op, NEW kind, NEW v \in SessionVariable, NEW n \in Nat, SessionAt(op, v, n)
  PROVE  Arranged(op, GetSession(kind, v), SessionSteps(kind, v), n, n + 3)
<1> DEFINE pcrs == kind \in {"pcr", "pcr_authvalue"}
           auths == kind \in {"authvalue", "pcr_authvalue"}
           a == << <<"StartAuthSession", v>> >>
           b == IF pcrs THEN << <<"PolicyPCR", v>> >> ELSE <<>>
           d == IF auths THEN << <<"PolicyAuthValue", v>> >> ELSE <<>>
           e == << <<"Defer", v>> >>
           B == IF pcrs THEN {<<"PolicyPCR", v>>} ELSE {}
           D == IF auths THEN {<<"PolicyAuthValue", v>>} ELSE {}
<1>1. \A cmd \in {"StartAuthSession", "PolicyPCR", "PolicyAuthValue", "Defer"} : <<cmd, v>> \in Step
  BY DEF Step, Command, LocalCommand, Variable
<1>2. Arranged(op, a, {<<"StartAuthSession", v>>}, n, n) /\ Arranged(op, e, {<<"Defer", v>>}, n + 3, n + 3)
  BY <1>1, ArrangedOne DEF SessionAt
<1>3. Arranged(op, b, B, n + 1, n + 1)
  <2>1. CASE pcrs
    BY <1>1, <2>1, ArrangedOne DEF SessionAt
  <2>2. CASE ~pcrs
    BY <2>2, ArrangedNone
  <2> QED BY <2>1, <2>2
<1>4. Arranged(op, d, D, n + 2, n + 2)
  <2>1. CASE auths
    BY <1>1, <2>1, ArrangedOne DEF SessionAt
  <2>2. CASE ~auths
    BY <2>2, ArrangedNone
  <2> QED BY <2>1, <2>2
<1>5. Arranged(op, ((a \o b) \o d) \o e,
               (({<<"StartAuthSession", v>>} \union B) \union D) \union {<<"Defer", v>>}, n, n + 3)
  <2> HIDE DEF a, b, d, e, B, D
  <2>1. Arranged(op, a \o b, {<<"StartAuthSession", v>>} \union B, n, n + 1)
    BY <1>2, <1>3, ArrangedConcat
  <2>2. Arranged(op, (a \o b) \o d, ({<<"StartAuthSession", v>>} \union B) \union D, n, n + 2)
    BY <2>1, <1>4, ArrangedConcat
  <2> QED BY <2>2, <1>2, ArrangedConcat
<1>6. (({<<"StartAuthSession", v>>} \union B) \union D) \union {<<"Defer", v>>} = SessionSteps(kind, v)
  BY DEF SessionSteps
<1> QED BY <1>5, <1>6 DEF GetSession

\* ... so are those of tpmhmac, and the loop of encryptDecryptSymmetric.
HmacSteps == {<<"ReadPublic", "hmac">>, <<"HmacStart", "hmac">>, <<"SequenceComplete", "sequence">>}

\* The commands of tpmhmac are in order.
LEMMA ArrangedHmac ==
  ASSUME NEW op, NEW len \in Nat, NEW n \in Nat,
         PlaceOf(op, <<"ReadPublic", "hmac">>) = n, PlaceOf(op, <<"HmacStart", "hmac">>) = n + 1,
         PlaceOf(op, <<"SequenceUpdate", "sequence">>) = n + 2,
         PlaceOf(op, <<"SequenceComplete", "sequence">>) = n + 3
  PROVE  Arranged(op, Hmac(len), HmacSteps, n, n + 3)
<1> DEFINE a == << <<"ReadPublic", "hmac">>, <<"HmacStart", "hmac">> >>
           A == {<<"ReadPublic", "hmac">>, <<"HmacStart", "hmac">>}
           d == Repeat(<<"SequenceUpdate", "sequence">>, UpdateTurns(len))
           e == << <<"SequenceComplete", "sequence">> >>
           E == {<<"SequenceComplete", "sequence">>}
<1>1. {<<"ReadPublic", "hmac">>, <<"HmacStart", "hmac">>, <<"SequenceUpdate", "sequence">>,
       <<"SequenceComplete", "sequence">>} \subseteq Step
  BY DEF Step, Command, LocalCommand, Variable, ObjectVariable
<1>2. Arranged(op, a, A, n, n + 1) /\ Arranged(op, e, E, n + 3, n + 3)
  BY <1>1, ArrangedOne, ArrangedTwo
<1>3. Arranged(op, d, {}, n + 2, n + 2)
  BY <1>1, TurnsType, ArrangedRepeat DEF Repeated
<1>4. Arranged(op, (a \o d) \o e, (A \union {}) \union E, n, n + 3)
  <2> HIDE DEF a, A, d, e, E
  <2>1. Arranged(op, a \o d, A \union {}, n, n + 2)
    BY <1>2, <1>3, ArrangedConcat
  <2> QED BY <2>1, <1>2, ArrangedConcat
<1>5. (A \union {}) \union E = HmacSteps
  BY DEF HmacSteps
<1> QED BY <1>4, <1>5 DEF Hmac

EncryptSteps(len) == IF len = 0 THEN {} ELSE {<<"EncryptDecrypt2", "aes">>}

\* The commands of encryptDecryptSymmetric are in order.
LEMMA ArrangedEncrypt ==
  ASSUME NEW op, NEW len \in Nat, NEW n \in Nat, PlaceOf(op, <<"EncryptDecrypt2", "aes">>) = n
  PROVE  Arranged(op, Encrypt(len), EncryptSteps(len), n, n)
<1>1. EncryptTurns(len) \in Nat /\ (EncryptTurns(len) = 0 <=> len = 0)
  BY DEF EncryptTurns, maxDigestBuffer
<1>2. <<"EncryptDecrypt2", "aes">> \in Step /\ <<"EncryptDecrypt2", "aes">> \in Repeated
  BY DEF Step, Command, Variable, ObjectVariable, Repeated
<1> QED BY <1>1, <1>2, ArrangedRepeat DEF Encrypt, EncryptSteps

\* Whole programs.
LEMMA NewKeyArranged ==
  ASSUME NEW kind
  PROVE  Arranged("NewKey", NewKeyProgram(kind), NewKeySteps(kind), 1, 9)
<1> DEFINE a == << <<"Dial", "none">> >>
           A == {<<"Dial", "none">>}
           b == << <<"PolicyGetDigest", "trial">>, <<"CreatePrimary", "primary">>,
                   <<"Create", "aes">>, <<"Create", "hmac">> >>
           B == {<<"PolicyGetDigest", "trial">>, <<"CreatePrimary", "primary">>,
                 <<"Create", "aes">>, <<"Create", "hmac">>}
           g == GetSession(kind, "trial")
           G == SessionSteps(kind, "trial")
<1>1. A \subseteq Step /\ B \subseteq Step
  BY DEF Step, Command, LocalCommand, Variable, ObjectVariable, SessionVariable
<1>2. Arranged("NewKey", a, A, 1, 1) /\ Arranged("NewKey", b, B, 6, 9)
  BY <1>1, NewKeyPlaces, ArrangedOne, ArrangedFour
<1>3. Arranged("NewKey", g, G, 2, 5)
  BY NewKeyPlaces, ArrangedSession DEF SessionVariable
<1>4. Arranged("NewKey", (a \o g) \o b, (A \union G) \union B, 1, 9)
  <2> HIDE DEF a, A, b, B, g, G
  <2>1. Arranged("NewKey", a \o g, A \union G, 1, 5)
    BY <1>2, <1>3, ArrangedConcat
  <2> QED BY <2>1, <1>2, ArrangedConcat
<1>5. (A \union G) \union B = NewKeySteps(kind)
  BY DEF NewKeySteps
<1> QED BY <1>4, <1>5 DEF NewKeyProgram

\* The steps of NewAESCTRHMAC are in order.
LEMMA NewAEADArranged ==
  Arranged("NewAESCTRHMAC", NewAESCTRHMACProgram, NewAEADSteps, 1, 2)
<1>1. NewAEADSteps \subseteq Step
  BY DEF NewAEADSteps, Step, Command, LocalCommand
<1> QED BY <1>1, NewAEADPlaces, ArrangedTwo DEF NewAESCTRHMACProgram, NewAEADSteps

\* The steps of Seal are in order, whatever its session and its lengths.
LEMMA SealArranged ==
  ASSUME NEW kind, NEW n \in Nat, NEW m \in Nat, NEW len \in Nat
  PROVE  Arranged("Seal", SealProgram(kind, n, m, len), SealSteps(kind, len), 1, 21)
<1> DEFINE h == << <<"CheckLengths", "none">>, <<"Dial", "none">>,
                   <<"CreatePrimary", "primary">>, <<"Load", "aes">> >>
           H == {<<"CheckLengths", "none">>, <<"Dial", "none">>,
                 <<"CreatePrimary", "primary">>, <<"Load", "aes">>}
           g1 == GetSession(kind, "aesSession")
           G1 == SessionSteps(kind, "aesSession")
           x == Encrypt(len)
           X == EncryptSteps(len)
           f == << <<"FlushContext", "aes">>, <<"FlushContext", "aesSession">> >>
           F == {<<"FlushContext", "aes">>, <<"FlushContext", "aesSession">>}
           l == << <<"Load", "hmac">> >>
           L == {<<"Load", "hmac">>}
           g2 == GetSession(kind, "hmacSession")
           G2 == SessionSteps(kind, "hmacSession")
           k == Hmac(MacLength(n, m, len))
           d == << <<"Defer", "hmac">> >>
           D == {<<"Defer", "hmac">>}
<1>1. H \subseteq Step /\ F \subseteq Step /\ L \subseteq Step /\ D \subseteq Step
  BY DEF Step, Command, LocalCommand, Variable, ObjectVariable, SessionVariable
<1>2. /\ Arranged("Seal", h, H, 1, 4) /\ Arranged("Seal", f, F, 10, 11)
      /\ Arranged("Seal", l, L, 12, 12) /\ Arranged("Seal", d, D, 21, 21)
  <2>1. Arranged("Seal", h, H, 1, 4)
    BY <1>1, SealPlaces, ArrangedFour
  <2>2. Arranged("Seal", f, F, 10, 11)
    BY <1>1, SealPlaces, ArrangedTwo
  <2>3. Arranged("Seal", l, L, 12, 12) /\ Arranged("Seal", d, D, 21, 21)
    BY <1>1, SealPlaces, ArrangedOne
  <2> QED BY <2>1, <2>2, <2>3
<1>3. Arranged("Seal", g1, G1, 5, 8) /\ Arranged("Seal", g2, G2, 13, 16)
  BY SealPlaces, ArrangedSession DEF SessionVariable
<1>4. Arranged("Seal", x, X, 9, 9) /\ Arranged("Seal", k, HmacSteps, 17, 20)
  <2>1. MacLength(n, m, len) \in Nat
    BY MacLengthType
  <2> QED BY <2>1, SealPlaces, ArrangedEncrypt, ArrangedHmac
<1>5. Arranged("Seal", ((h \o g1) \o x) \o f \o (((l \o g2) \o k) \o d),
               ((((H \union G1) \union X) \union F) \union (((L \union G2) \union HmacSteps) \union D)), 1, 21)
  <2> HIDE DEF h, H, g1, G1, x, X, f, F, l, L, g2, G2, k, d, D
  <2>1. Arranged("Seal", h \o g1, H \union G1, 1, 8)
    BY <1>2, <1>3, ArrangedConcat
  <2>2. Arranged("Seal", (h \o g1) \o x, (H \union G1) \union X, 1, 9)
    BY <1>4, <2>1, ArrangedConcat
  <2>3. Arranged("Seal", ((h \o g1) \o x) \o f, ((H \union G1) \union X) \union F, 1, 11)
    BY <1>2, <2>2, ArrangedConcat
  <2>4. Arranged("Seal", l \o g2, L \union G2, 12, 16)
    BY <1>2, <1>3, ArrangedConcat
  <2>5. Arranged("Seal", (l \o g2) \o k, (L \union G2) \union HmacSteps, 12, 20)
    BY <1>4, <2>4, ArrangedConcat
  <2>6. Arranged("Seal", ((l \o g2) \o k) \o d, ((L \union G2) \union HmacSteps) \union D, 12, 21)
    BY <1>2, <2>5, ArrangedConcat
  <2> QED BY <2>3, <2>6, ArrangedConcat
<1>6. ((((H \union G1) \union X) \union F) \union (((L \union G2) \union HmacSteps) \union D))
        = SealSteps(kind, len)
  <2> HIDE DEF G1, G2
  <2> QED BY DEF SealSteps, CryptSteps, EncryptSteps, HmacSteps, G1, G2
<1> QED BY <1>5, <1>6 DEF SealProgram, SealHead, SealTail

\* The steps of Open are in order, whatever its session and its lengths.
LEMMA OpenArranged ==
  ASSUME NEW kind, NEW n \in Nat, NEW m \in Nat, NEW len \in Nat
  PROVE  Arranged("Open", OpenProgram(kind, n, m, len), OpenSteps(kind, len), 1, 21)
<1> DEFINE h == << <<"CheckLengths", "none">>, <<"Dial", "none">>,
                   <<"CreatePrimary", "primary">>, <<"Load", "hmac">> >>
           H == {<<"CheckLengths", "none">>, <<"Dial", "none">>,
                 <<"CreatePrimary", "primary">>, <<"Load", "hmac">>}
           g1 == GetSession(kind, "hmacSession")
           G1 == SessionSteps(kind, "hmacSession")
           k == Hmac(MacLength(n, m, len))
           f == << <<"FlushContext", "hmacSession">>, <<"FlushContext", "hmac">>,
                   <<"CheckTag", "none">>, <<"Load", "aes">> >>
           F == {<<"FlushContext", "hmacSession">>, <<"FlushContext", "hmac">>,
                 <<"CheckTag", "none">>, <<"Load", "aes">>}
           g2 == GetSession(kind, "aesSession")
           G2 == SessionSteps(kind, "aesSession")
           x == Encrypt(len)
           X == EncryptSteps(len)
<1>1. H \subseteq Step /\ F \subseteq Step
  BY DEF Step, Command, LocalCommand, Variable, ObjectVariable, SessionVariable
<1>2. Arranged("Open", h, H, 1, 4) /\ Arranged("Open", f, F, 13, 16)
  <2>1. Arranged("Open", h, H, 1, 4)
    BY <1>1, OpenPlaces, ArrangedFour
  <2>2. Arranged("Open", f, F, 13, 16)
    BY <1>1, OpenPlaces, ArrangedFour
  <2> QED BY <2>1, <2>2
<1>3. Arranged("Open", g1, G1, 5, 8) /\ Arranged("Open", g2, G2, 17, 20)
  BY OpenPlaces, ArrangedSession DEF SessionVariable
<1>4. Arranged("Open", x, X, 21, 21) /\ Arranged("Open", k, HmacSteps, 9, 12)
  <2>1. MacLength(n, m, len) \in Nat
    BY MacLengthType
  <2> QED BY <2>1, OpenPlaces, ArrangedEncrypt, ArrangedHmac
<1>5. Arranged("Open", ((((h \o g1) \o k) \o f) \o g2) \o x,
               ((((H \union G1) \union HmacSteps) \union F) \union G2) \union X, 1, 21)
  <2> HIDE DEF h, H, g1, G1, x, X, f, F, g2, G2, k
  <2>1. Arranged("Open", h \o g1, H \union G1, 1, 8)
    BY <1>2, <1>3, ArrangedConcat
  <2>2. Arranged("Open", (h \o g1) \o k, (H \union G1) \union HmacSteps, 1, 12)
    BY <1>4, <2>1, ArrangedConcat
  <2>3. Arranged("Open", ((h \o g1) \o k) \o f, ((H \union G1) \union HmacSteps) \union F, 1, 16)
    BY <1>2, <2>2, ArrangedConcat
  <2>4. Arranged("Open", (((h \o g1) \o k) \o f) \o g2,
                 (((H \union G1) \union HmacSteps) \union F) \union G2, 1, 20)
    BY <1>3, <2>3, ArrangedConcat
  <2> QED BY <1>4, <2>4, ArrangedConcat
<1>6. ((((H \union G1) \union HmacSteps) \union F) \union G2) \union X = OpenSteps(kind, len)
  BY DEF OpenSteps, CryptSteps, EncryptSteps, HmacSteps
<1> QED BY <1>5, <1>6 DEF OpenProgram

-----------------------------------------------------------------------------
(* Ends of programs. *)

\* A whole program is an end of itself.
LEMMA ArrangedEnd ==
  ASSUME NEW a, NEW s, NEW lo \in Nat, NEW hi \in Nat, Arranged(a.op, s, StepsOf(a), lo, hi)
  PROVE  EndOf(a, s)
<1>1. \A i \in 1..Len(s) : s[i] \in StepsOf(a) \union {Optional} /\ PlaceOf(a.op, s[i]) \in Nat
  BY DEF Arranged
<1> QED BY <1>1 DEF Arranged, EndOf

\* What is left of an end after its first step is one.
LEMMA EndOfTail ==
  ASSUME NEW a, NEW s \in Seq(Step), s # <<>>, EndOf(a, s),
         \A m \in StepsOf(a) : PlaceOf(a.op, m) \in Nat
  PROVE  EndOf(a, Tail(s))
<1> DEFINE t == Tail(s)
           P(x) == PlaceOf(a.op, x)
<1>1. /\ Len(s) \in Nat /\ Len(s) > 0 /\ Len(t) = Len(s) - 1
      /\ \A i \in 1..Len(t) : i + 1 \in 1..Len(s) /\ t[i] = s[i + 1]
      /\ \A i \in 1..Len(s) : i # 1 => i - 1 \in 1..Len(t) /\ s[i] = t[i - 1]
  OBVIOUS
<1>2. \A i \in 1..Len(s) : s[i] \in StepsOf(a) \union {Optional} /\ P(s[i]) \in Nat
  BY DEF EndOf
<1>3. \A i, j \in 1..Len(s) : i < j => P(s[i]) < P(s[j]) \/ (s[i] = s[j] /\ s[i] \in Repeated)
  BY DEF EndOf
<1>4. \A m \in StepsOf(a), i \in 1..Len(s) : P(s[i]) <= P(m) => \E j \in 1..Len(s) : s[j] = m
  BY DEF EndOf
<1> HIDE DEF t, P
<1>5. \A i \in 1..Len(t) : t[i] \in StepsOf(a) \union {Optional} /\ P(t[i]) \in Nat
  BY <1>1, <1>2
<1>6. \A i, j \in 1..Len(t) : i < j => P(t[i]) < P(t[j]) \/ (t[i] = t[j] /\ t[i] \in Repeated)
  BY <1>1, <1>3
<1>7. ASSUME NEW m \in StepsOf(a), NEW i \in 1..Len(t), P(t[i]) <= P(m)
      PROVE  \E j \in 1..Len(t) : t[j] = m
  <2>1. i + 1 \in 1..Len(s) /\ t[i] = s[i + 1] /\ 1 \in 1..Len(s) /\ 1 < i + 1 /\ P(m) \in Nat
    BY <1>1 DEF P
  <2> PICK j \in 1..Len(s) : s[j] = m
    BY <1>4, <1>7, <2>1
  <2>2. CASE j # 1
    BY <1>1, <2>2
  <2>3. CASE j = 1
    <3>1. s[1] = s[i + 1]
      BY <1>2, <1>3, <1>7, <2>1, <2>3
    <3> QED BY <2>1, <2>3, <3>1
  <2> QED BY <2>2, <2>3
<1> QED BY <1>5, <1>6, <1>7 DEF EndOf, t, P

\* The places of the steps of a session.
LEMMA SessionStepPlaces ==
  ASSUME NEW op, NEW kind, NEW v, NEW n \in Nat, SessionAt(op, v, n)
  PROVE  \A m \in SessionSteps(kind, v) : PlaceOf(op, m) \in Nat
BY DEF SessionSteps, SessionAt

\* Every step has a place in its program.
LEMMA StepPlaces ==
  ASSUME NEW a, NEW m \in StepsOf(a)
  PROVE  PlaceOf(a.op, m) \in Nat
<1>1. CASE a.op = "NewKey"
  BY <1>1, NewKeyPlaces, SessionStepPlaces DEF StepsOf, NewKeySteps
<1>2. CASE a.op = "NewAESCTRHMAC"
  BY <1>2, NewAEADPlaces DEF StepsOf, NewAEADSteps
<1>3. CASE a.op = "Seal"
  <2>1. m \in SealSteps(a.session.kind, a.pt.len)
    BY <1>3 DEF StepsOf
  <2>2. /\ \A x \in SessionSteps(a.session.kind, "aesSession") : PlaceOf("Seal", x) \in Nat
        /\ \A x \in SessionSteps(a.session.kind, "hmacSession") : PlaceOf("Seal", x) \in Nat
    BY SealPlaces, SessionStepPlaces
  <2>3. CASE m \in SessionSteps(a.session.kind, "aesSession") \union SessionSteps(a.session.kind, "hmacSession")
    BY <1>3, <2>2, <2>3
  <2>4. CASE m \notin SessionSteps(a.session.kind, "aesSession") \union SessionSteps(a.session.kind, "hmacSession")
    BY <1>3, <2>1, <2>4, SealPlaces DEF SealSteps, CryptSteps
  <2> QED BY <2>3, <2>4
<1>4. CASE a.op = "Open"
  <2>1. m \in OpenSteps(a.session.kind, a.ct.pt.len)
    BY <1>4 DEF StepsOf
  <2>2. /\ \A x \in SessionSteps(a.session.kind, "aesSession") : PlaceOf("Open", x) \in Nat
        /\ \A x \in SessionSteps(a.session.kind, "hmacSession") : PlaceOf("Open", x) \in Nat
    BY OpenPlaces, SessionStepPlaces
  <2>3. CASE m \in SessionSteps(a.session.kind, "aesSession") \union SessionSteps(a.session.kind, "hmacSession")
    BY <1>4, <2>2, <2>3
  <2>4. CASE m \notin SessionSteps(a.session.kind, "aesSession") \union SessionSteps(a.session.kind, "hmacSession")
    BY <1>4, <2>1, <2>4, OpenPlaces DEF OpenSteps, CryptSteps
  <2> QED BY <2>3, <2>4
<1>5. CASE a.op \notin {"NewKey", "NewAESCTRHMAC", "Seal", "Open"}
  BY <1>5 DEF StepsOf
<1> QED BY <1>1, <1>2, <1>3, <1>4, <1>5

-----------------------------------------------------------------------------
(* Calls stay in the order of their programs. *)

\* Steps of a call leave what is left of its program an end of that program.
LEMMA OrderKept ==
  ASSUME NEW c \in Client, TypeOK, OrderOK(c), call'[c] = call[c],
         \/ todo'[c] = todo[c] /\ outcome'[c].status = outcome[c].status
         \/ todo'[c] = todo[c] /\ todo[c] = <<>>
         \/ todo'[c] = <<>>
         \/ todo[c] # <<>> /\ todo'[c] = Tail(todo[c]) /\ outcome'[c].status = outcome[c].status
  PROVE  OrderOK(c)'
<1>1. todo[c] \in Seq(Step) /\ EndOf(call[c], todo[c]) /\ (Idle(c) => todo[c] = <<>>)
  BY DEF TypeOK, OrderOK
<1>2. CASE todo'[c] = todo[c] /\ outcome'[c].status = outcome[c].status
  BY <1>1, <1>2 DEF OrderOK, Idle
<1>3. CASE todo'[c] = todo[c] /\ todo[c] = <<>>
  BY <1>1, <1>3 DEF OrderOK, Idle
<1>4. CASE todo'[c] = <<>>
  <2>1. EndOf(call[c], <<>>)
    BY DEF EndOf
  <2> QED BY <1>4, <2>1 DEF OrderOK, Idle
<1>5. CASE todo[c] # <<>> /\ todo'[c] = Tail(todo[c]) /\ outcome'[c].status = outcome[c].status
  <2>1. EndOf(call[c], Tail(todo[c]))
    BY <1>1, <1>5, EndOfTail, StepPlaces
  <2>2. ~Idle(c)'
    BY <1>1, <1>5 DEF Idle
  <2> QED BY <1>5, <2>1, <2>2 DEF OrderOK
<1> QED BY <1>2, <1>3, <1>4, <1>5

-----------------------------------------------------------------------------
(* Handles. *)

\* A handle tells what it is for and whose space it is in.
LEMMA HandleShape ==
  /\ \A c \in Client : \A h \in ObjectHandlesOf(c) : h[1] = "object" /\ h[2] = SpaceOf(c)
  /\ \A c \in Client : \A h \in SessionHandlesOf(c) : h[1] = "session" /\ h[2] = SpaceOf(c)
  /\ \A h \in ObjectHandle : h[1] = "object"
  /\ \A h \in SessionHandle : h[1] = "session"
  /\ \A h \in Handle : h # NoHandle /\ h # CloseConn
  /\ \A c \in Client : Own(c) \subseteq Handle
BY DEF ObjectHandlesOf, SessionHandlesOf, ObjectHandle, SessionHandle, Handle, Own, NoHandle, CloseConn

\* Behind a resource manager clients have no handle in common.
LEMMA OwnApart ==
  ASSUME NEW c \in Client, NEW d \in Client, c # d, Transport = "rm"
  PROVE  Own(c) \intersect Own(d) = {}
BY HandleShape DEF Own, SpaceOf

\* Everything loaded is a record with a handle.
LEMMA LoadingHandle ==
  ASSUME TypeOK
  PROVE  /\ \A x \in objects : x.handle \in ObjectHandle
         /\ \A x \in sessions : x.handle \in SessionHandle
         /\ \A x \in Loadings : x.handle \in Handle /\ x.handle # NoHandle /\ x.handle # CloseConn
<1>1. \A x \in objects : x.handle \in ObjectHandle
  BY DEF TypeOK, TPMTypeOK, Object
<1>2. \A x \in sessions : x.handle \in SessionHandle
  BY DEF TypeOK, TPMTypeOK, Session
<1> QED BY <1>1, <1>2, HandleShape DEF Loadings, Handle

\* Steps of c may load something in its own space while it is served, and make
\* what it had loaded nobody's.
Effect(c) ==
  \A y \in Loadings' :
    \/ \E x \in Loadings : y.handle = x.handle /\ (y.owner = x.owner \/ (x.owner = c /\ y.owner = NoClient))
    \/ c \in served /\ y.owner = c /\ y.handle \in Own(c)

\* ... and leave the other calls and their connections alone.
Apart(c) ==
  \A d \in Client \ {c} :
    /\ call'[d] = call[d] /\ todo'[d] = todo[d] /\ defers'[d] = defers[d] /\ var'[d] = var[d]
    /\ outcome'[d] = outcome[d]
    /\ (d \in served' <=> d \in served) /\ (d \in conns' <=> d \in conns)

\* Such steps do not touch the handles of others.
LEMMA OthersHandles ==
  ASSUME HandleInv, NEW c \in Client, NEW d \in Client \ {c}, Effect(c), Apart(c)
  PROVE  OrderOK(d)' /\ HandlesOK(d)' /\ OwnersOK(d)'
<1>1. /\ call'[d] = call[d] /\ todo'[d] = todo[d] /\ defers'[d] = defers[d] /\ var'[d] = var[d]
      /\ outcome'[d] = outcome[d]
      /\ (d \in served' <=> d \in served) /\ (d \in conns' <=> d \in conns)
  BY DEF Apart
<1>2. TypeOK /\ OneServed /\ OrderOK(d) /\ HandlesOK(d) /\ OwnersOK(d)
  BY DEF HandleInv, IInv
<1>3. OrderOK(d)'
  BY <1>1, <1>2, OrderKept
<1>4. HandlesOK(d)'
  BY <1>1, <1>2 DEF HandlesOK, Connected, Ahead
<1>5. \A y \in Loadings' : y.owner = d => y.handle \in Own(d) /\ (d \in served \/ (todo[d] = <<>> /\ defers[d] = <<>>))
  BY <1>2, ClientAssumption DEF Effect, OwnersOK
<1>6. ASSUME d \in served, NEW y \in Loadings', Deferred(d, y.handle) \/ (\E v \in Variable : var[d][v] = y.handle)
      PROVE  y.owner = d
  <2>1. CASE \E x \in Loadings : y.handle = x.handle /\ (y.owner = x.owner \/ (x.owner = c /\ y.owner = NoClient))
    BY <1>2, <1>6, <2>1 DEF OwnersOK
  <2>2. CASE c \in served /\ y.owner = c /\ y.handle \in Own(c)
    <3>1. y.handle \in Own(d) \union {NoHandle, CloseConn}
      <4>1. CASE Deferred(d, y.handle)
        BY <1>2, <4>1 DEF HandlesOK, Deferred
      <4>2. CASE \E v \in Variable : var[d][v] = y.handle
        BY <1>2, <4>2 DEF HandlesOK, Variable, Own
      <4> QED BY <1>6, <4>1, <4>2
    <3>2. y.handle \in Own(d)
      BY <2>2, <3>1, HandleShape
    <3>3. Transport = "rm"
      BY <1>2, <1>6, <2>2, TransportAssumption DEF OneServed
    <3> QED BY <2>2, <3>2, <3>3, OwnApart
  <2> QED BY <2>1, <2>2 DEF Effect
<1>7. OwnersOK(d)'
  BY <1>1, <1>5, <1>6 DEF OwnersOK, Deferred
<1> QED BY <1>3, <1>4, <1>7

\* The call of c knows the handle h.
Holds(c, h) == (\E v \in Variable : h = var[c][v]) \/ Deferred(c, h)

\* A step of c that keeps its place in the device: it may load something at the
\* new handles H, and it knows no other handle than before and those.
Steady(c, H) ==
  /\ (c \in served' <=> c \in served) /\ (c \in conns' => c \in conns)
  /\ Ahead(c, <<"Dial", "none">>)' => Ahead(c, <<"Dial", "none">>)
  /\ todo[c] = <<>> /\ defers[c] = <<>> => todo'[c] = <<>> /\ defers'[c] = <<>>
  /\ H \subseteq Own(c) /\ (H # {} => c \in served)
  /\ \A x \in Loadings : x.handle \notin H
  /\ \A y \in Loadings' :
       (\E x \in Loadings : y.handle = x.handle /\ y.owner = x.owner) \/ (y.handle \in H /\ y.owner = c)
  /\ \A v \in ObjectVariable : var'[c][v] \in {var[c][v], NoHandle} \union (H \intersect ObjectHandlesOf(c))
  /\ \A v \in SessionVariable : var'[c][v] \in {var[c][v], NoHandle} \union (H \intersect SessionHandlesOf(c))
  /\ \A i \in 1..Len(defers'[c]) : Holds(c, defers'[c][i]) \/ defers'[c][i] \in H

\* It keeps the handles and what is at them in order.
LEMMA HandlesKept ==
  ASSUME HandleInv, IInv', NEW c \in Client, NEW H, Steady(c, H)
  PROVE  HandlesOK(c)' /\ OwnersOK(c)'
<1>1. TypeOK /\ TypeOK' /\ HandlesOK(c) /\ OwnersOK(c)
  BY DEF HandleInv, IInv
<1>2. \A h : Holds(c, h) => h \in Own(c) \union {NoHandle, CloseConn}
  BY <1>1 DEF Holds, HandlesOK, Deferred, Variable, Own
<1>3. ASSUME c \notin served', Connected(c)' \/ Ahead(c, <<"Dial", "none">>)'
      PROVE  var'[c] = NoHandles /\ \A i \in 1..Len(defers'[c]) : defers'[c][i] \notin Own(c)
  <2>1. /\ c \notin served /\ H = {}
        /\ var[c] = NoHandles /\ \A i \in 1..Len(defers[c]) : defers[c][i] \notin Own(c)
    BY <1>1, <1>3 DEF Steady, HandlesOK, Connected
  <2>2. \A v \in Variable : var'[c][v] = NoHandle
    BY <2>1 DEF Steady, Variable, NoHandles
  <2>3. var'[c] = NoHandles
    BY <1>1, <2>2 DEF TypeOK, NoHandles
  <2>4. \A i \in 1..Len(defers'[c]) : defers'[c][i] \notin Own(c)
    BY <2>1, HandleShape DEF Steady, Holds, NoHandles, Deferred
  <2> QED BY <2>3, <2>4
<1>4. HandlesOK(c)'
  <2>1. \A v \in ObjectVariable : var'[c][v] \in ObjectHandlesOf(c) \union {NoHandle}
    BY <1>1 DEF Steady, HandlesOK
  <2>2. \A v \in SessionVariable : var'[c][v] \in SessionHandlesOf(c) \union {NoHandle}
    BY <1>1 DEF Steady, HandlesOK
  <2>3. \A i \in 1..Len(defers'[c]) : defers'[c][i] \in Own(c) \union {NoHandle, CloseConn}
    BY <1>2 DEF Steady
  <2> QED BY <1>3, <2>1, <2>2, <2>3 DEF HandlesOK
<1>5. ASSUME NEW y \in Loadings', y.owner = c
      PROVE  y.handle \in Own(c) /\ (c \in served' \/ (todo'[c] = <<>> /\ defers'[c] = <<>>))
  <2>1. CASE \E x \in Loadings : y.handle = x.handle /\ y.owner = x.owner
    BY <1>1, <1>5, <2>1 DEF OwnersOK, Steady
  <2>2. CASE y.handle \in H
    BY <2>2 DEF Steady
  <2> QED BY <2>1, <2>2 DEF Steady
<1>6. ASSUME c \in served', NEW y \in Loadings',
             Deferred(c, y.handle)' \/ (\E v \in Variable : var'[c][v] = y.handle)
      PROVE  y.owner = c
  <2>1. y.handle # NoHandle
    BY <1>1, HandleShape DEF Loadings, TypeOK, TPMTypeOK, Object, Session, Handle
  <2>2. Holds(c, y.handle) \/ y.handle \in H
    <3>1. CASE Deferred(c, y.handle)'
      BY <3>1 DEF Steady, Deferred
    <3>2. CASE \E v \in Variable : var'[c][v] = y.handle
      BY <2>1, <3>2 DEF Steady, Variable, Holds
    <3> QED BY <1>6, <3>1, <3>2
  <2>3. CASE \E x \in Loadings : y.handle = x.handle /\ y.owner = x.owner
    BY <1>1, <1>6, <2>2, <2>3 DEF OwnersOK, Steady, Holds
  <2> QED BY <2>3 DEF Steady
<1>7. OwnersOK(c)'
  BY <1>5, <1>6 DEF OwnersOK
<1> QED BY <1>4, <1>7

\* Being steady has an effect on c's own handles only.
LEMMA SteadyEffect ==
  ASSUME NEW c \in Client, NEW H, Steady(c, H)
  PROVE  Effect(c)
BY DEF Steady, Effect

\* The invariant holds again if it does for c, and the others are left alone.
LEMMA HandleInvKept ==
  ASSUME HandleInv, IInv', NEW c \in Client, Effect(c), Apart(c),
         UniqueHandles', OneServed', OrderOK(c)', HandlesOK(c)', OwnersOK(c)'
  PROVE  HandleInv'
<1>1. \A d \in Client \ {c} : OrderOK(d)' /\ HandlesOK(d)' /\ OwnersOK(d)'
  BY OthersHandles
<1>2. \A d \in Client : OrderOK(d)' /\ HandlesOK(d)' /\ OwnersOK(d)'
  BY <1>1
<1> QED BY <1>2 DEF HandleInv

\* ... as is the case after a steady step.
LEMMA SteadyStep ==
  ASSUME HandleInv, IInv', NEW c \in Client, NEW H, Steady(c, H), Apart(c),
         UniqueHandles', served' = served, OrderOK(c)'
  PROVE  HandleInv'
<1>1. OneServed'
  BY DEF HandleInv, OneServed
<1> QED BY <1>1, HandlesKept, SteadyEffect, HandleInvKept

\* Handles stay unique when things are removed, ...
LEMMA UniqueSubset ==
  ASSUME UniqueHandles, objects' \subseteq objects, sessions' \subseteq sessions
  PROVE  UniqueHandles'
BY DEF UniqueHandles

\* ... or put at a free handle.
LEMMA UniqueNew ==
  ASSUME UniqueHandles, NEW x,
         \/ /\ objects' = objects \union {x} /\ sessions' = sessions
            /\ \A y \in objects : y.handle # x.handle
         \/ /\ sessions' = sessions \union {x} /\ objects' = objects
            /\ \A y \in sessions : y.handle # x.handle
  PROVE  UniqueHandles'
BY DEF UniqueHandles

-----------------------------------------------------------------------------
(* The steps of a call and its handles. *)

\* Taking a step off a program.
LEMMA Proceeds ==
  ASSUME HandleInv, NEW c \in Client, NEW cmd, NEW v, AtStep(c, cmd, v), Proceed(c),
         call' = call, outcome' = outcome
  PROVE  /\ OrderOK(c)'
         /\ todo[c] \in Seq(Step) /\ todo[c] # <<>> /\ todo'[c] = Tail(todo[c])
         /\ \A d \in Client \ {c} : todo'[d] = todo[d]
         /\ \A s : Ahead(c, s)' => Ahead(c, s)
<1>1. todo \in [Client -> Seq(Step)] /\ todo[c] # <<>> /\ TypeOK /\ OrderOK(c)
  BY DEF HandleInv, IInv, TypeOK, AtStep
<1>2. todo'[c] = Tail(todo[c]) /\ \A d \in Client \ {c} : todo'[d] = todo[d]
  BY <1>1 DEF Proceed
<1>3. OrderOK(c)'
  BY <1>1, <1>2, OrderKept
<1>4. \A i \in 1..Len(todo'[c]) : i + 1 \in 1..Len(todo[c]) /\ todo'[c][i] = todo[c][i + 1]
  BY <1>1, <1>2
<1>5. \A s : Ahead(c, s)' => Ahead(c, s)
  BY <1>4 DEF Ahead
<1> QED BY <1>1, <1>2, <1>3, <1>5

\* What is loaded stays where it is and whose it is, or is removed.
SamePlaces == \A y \in Loadings' : \E x \in Loadings : y.handle = x.handle /\ y.owner = x.owner

\* Steps that load nothing and defer nothing.
LEMMA PlainStep ==
  ASSUME HandleInv, IInv', NEW c \in Client, NEW cmd, NEW v, AtStep(c, cmd, v), Proceed(c),
         UNCHANGED <<call, outcome, conns, served, var, defers>>, UniqueHandles', SamePlaces
  PROVE  HandleInv'
<1>1. /\ OrderOK(c)' /\ todo[c] # <<>> /\ \A d \in Client \ {c} : todo'[d] = todo[d]
      /\ \A s : Ahead(c, s)' => Ahead(c, s)
  BY Proceeds
<1>2. Steady(c, {})
  <2>1. \A i \in 1..Len(defers'[c]) : Holds(c, defers'[c][i])
    BY DEF Holds, Deferred
  <2> QED BY <1>1, <2>1 DEF Steady, SamePlaces
<1>3. Apart(c)
  BY <1>1 DEF Apart
<1> QED BY <1>1, <1>2, <1>3, SteadyStep

\* A loaded object or session with its handle.
LEMMA LoadedAt ==
  ASSUME HandleInv, NEW c \in Client
  PROVE  /\ \A h \in Allocated(FreeObjectHandles(c)) :
              /\ h \in ObjectHandlesOf(c) /\ h \in Own(c) /\ \A x \in Loadings : x.handle # h
         /\ \A h \in Allocated(FreeSessionHandles(c)) :
              /\ h \in SessionHandlesOf(c) /\ h \in Own(c) /\ \A x \in Loadings : x.handle # h
<1>1. \A x \in objects : x.handle[1] = "object"
  BY LoadingHandle, HandleShape DEF HandleInv, IInv
<1>2. \A x \in sessions : x.handle[1] = "session"
  BY LoadingHandle, HandleShape DEF HandleInv, IInv
<1>3. ASSUME NEW h \in Allocated(FreeObjectHandles(c))
      PROVE  h \in ObjectHandlesOf(c) /\ h \in Own(c) /\ \A x \in Loadings : x.handle # h
  BY <1>2, <1>3, HandleShape DEF Allocated, FreeObjectHandles, Own, Loadings
<1>4. ASSUME NEW h \in Allocated(FreeSessionHandles(c))
      PROVE  h \in SessionHandlesOf(c) /\ h \in Own(c) /\ \A x \in Loadings : x.handle # h
  BY <1>1, <1>4, HandleShape DEF Allocated, FreeSessionHandles, Own, Loadings
<1> QED BY <1>3, <1>4

\* Sessions that are used, or collect an assertion, stay where they are.
LEMMA SessionsInPlace ==
  ASSUME TypeOK, NEW c \in Client,
         \/ \E v \in SessionVariable : PolicyPCR(c, v) \/ PolicyAuthValue(c, v)
         \/ EncryptDecrypt2(c) \/ HmacStart(c)
  PROVE  \E f : /\ \A s \in sessions : f[s].handle = s.handle /\ f[s].owner = s.owner
                /\ sessions' = {f[s] : s \in sessions}
<1>1. sessions \subseteq Session
  BY DEF TypeOK, TPMTypeOK
<1>2. ASSUME NEW v \in SessionVariable, PolicyPCR(c, v)
      PROVE  \E f : /\ \A s \in sessions : f[s].handle = s.handle /\ f[s].owner = s.owner
                    /\ sessions' = {f[s] : s \in sessions}
  <2> DEFINE A(s) == [s EXCEPT !.digest = Append(@, PCRAssertion(call[c].session.digest)),
                               !.pcrCount = IF s.trial THEN @ ELSE pcr.count]
             f == [s \in sessions |-> IF s.handle = var[c][v] THEN A(s) ELSE s]
  <2>1. sessions' = {IF s.handle = var[c][v] THEN A(s) ELSE s : s \in sessions}
    BY <1>2 DEF PolicyPCR, ChangeSession
  <2>2. \A s \in sessions : A(s).handle = s.handle /\ A(s).owner = s.owner
    BY <1>1 DEF Session
  <2> HIDE DEF A
  <2>3. \A s \in sessions : f[s].handle = s.handle /\ f[s].owner = s.owner
    BY <2>2
  <2>4. sessions' = {f[s] : s \in sessions}
    BY <2>1
  <2> QED BY <2>3, <2>4
<1>3. ASSUME NEW v \in SessionVariable, PolicyAuthValue(c, v)
      PROVE  \E f : /\ \A s \in sessions : f[s].handle = s.handle /\ f[s].owner = s.owner
                    /\ sessions' = {f[s] : s \in sessions}
  <2> DEFINE A(s) == [s EXCEPT !.digest = Append(@, AuthAssertion)]
             f == [s \in sessions |-> IF s.handle = var[c][v] THEN A(s) ELSE s]
  <2>1. sessions' = {IF s.handle = var[c][v] THEN A(s) ELSE s : s \in sessions}
    BY <1>3 DEF PolicyAuthValue, ChangeSession
  <2>2. \A s \in sessions : A(s).handle = s.handle /\ A(s).owner = s.owner
    BY <1>1 DEF Session
  <2> HIDE DEF A
  <2>3. \A s \in sessions : f[s].handle = s.handle /\ f[s].owner = s.owner
    BY <2>2
  <2>4. sessions' = {f[s] : s \in sessions}
    BY <2>1
  <2> QED BY <2>3, <2>4
<1>4. ASSUME EncryptDecrypt2(c) \/ HmacStart(c)
      PROVE  \E f : /\ \A s \in sessions : f[s].handle = s.handle /\ f[s].owner = s.owner
                    /\ sessions' = {f[s] : s \in sessions}
  <2> PICK v \in SessionVariable :
           sessions' = {IF s.handle = var[c][v] THEN ResetSession(s) ELSE s : s \in sessions}
    BY <1>4 DEF EncryptDecrypt2, HmacStart, ChangeSession, SessionVariable
  <2> DEFINE f == [s \in sessions |-> IF s.handle = var[c][v] THEN ResetSession(s) ELSE s]
  <2>1. \A s \in sessions : ResetSession(s).handle = s.handle /\ ResetSession(s).owner = s.owner
    BY <1>1 DEF Session, ResetSession
  <2>2. \A s \in sessions : f[s].handle = s.handle /\ f[s].owner = s.owner
    BY <2>1
  <2>3. sessions' = {f[s] : s \in sessions}
    OBVIOUS
  <2> QED BY <2>2, <2>3
<1> QED BY <1>2, <1>3, <1>4

\* Changing things where they are keeps handles unique and places the same.
LEMMA InPlace ==
  ASSUME UniqueHandles, objects' \subseteq objects,
         \/ sessions' \subseteq sessions
         \/ \E f : /\ \A s \in sessions : f[s].handle = s.handle /\ f[s].owner = s.owner
                   /\ sessions' = {f[s] : s \in sessions}
  PROVE  UniqueHandles' /\ SamePlaces
<1>1. CASE sessions' \subseteq sessions
  BY <1>1, UniqueSubset DEF SamePlaces, Loadings
<1>2. CASE \E f : /\ \A s \in sessions : f[s].handle = s.handle /\ f[s].owner = s.owner
                  /\ sessions' = {f[s] : s \in sessions}
  <2> PICK f : /\ \A s \in sessions : f[s].handle = s.handle /\ f[s].owner = s.owner
               /\ sessions' = {f[s] : s \in sessions}
    BY <1>2
  <2>1. UniqueHandles'
    BY DEF UniqueHandles
  <2>2. SamePlaces
    BY DEF SamePlaces, Loadings
  <2> QED BY <2>1, <2>2
<1> QED BY <1>1, <1>2

\* Commands that load nothing.
LEMMA PlainCommand ==
  ASSUME HandleInv, IInv', NEW c \in Client,
         \/ \E v \in SessionVariable : PolicyPCR(c, v) \/ PolicyAuthValue(c, v)
         \/ PolicyGetDigest(c) \/ (\E v \in {"aes", "hmac"} : Create(c, v))
         \/ EncryptDecrypt2(c) \/ ReadPublic(c) \/ SequenceUpdate(c) \/ SequenceComplete(c)
  PROVE  HandleInv'
<1>1. TypeOK /\ UniqueHandles
  BY DEF HandleInv, IInv
<1>2. \E cmd, v : Executes(c, cmd, v)
  BY DEF PolicyPCR, PolicyAuthValue, PolicyGetDigest, Create, EncryptDecrypt2, ReadPublic,
     SequenceUpdate, SequenceComplete
<1>3. PICK cmd, v : /\ AtStep(c, cmd, v) /\ Proceed(c)
                    /\ UNCHANGED <<call, outcome, conns, served>>
  BY <1>2 DEF Executes
<1>4. UNCHANGED <<var, defers>>
  BY DEF PolicyPCR, PolicyAuthValue, PolicyGetDigest, Create, EncryptDecrypt2, ReadPublic,
     SequenceUpdate, SequenceComplete
<1>5. /\ objects' \subseteq objects
      /\ \/ sessions' \subseteq sessions
         \/ \E w \in SessionVariable : PolicyPCR(c, w) \/ PolicyAuthValue(c, w)
         \/ EncryptDecrypt2(c)
  BY DEF PolicyPCR, PolicyAuthValue, PolicyGetDigest, Create, EncryptDecrypt2, ReadPublic,
     SequenceUpdate, SequenceComplete
<1>6. UniqueHandles' /\ SamePlaces
  BY <1>1, <1>5, SessionsInPlace, InPlace
<1> QED BY <1>3, <1>4, <1>6, PlainStep

\* A new session.
LEMMA StartAuthSessionHandles ==
  ASSUME HandleInv, IInv', NEW c \in Client, NEW v \in SessionVariable, StartAuthSession(c, v)
  PROVE  HandleInv'
<1>1. /\ AtStep(c, "StartAuthSession", v) /\ Served(c) /\ Proceed(c)
      /\ UNCHANGED <<call, outcome, conns, served>> /\ UNCHANGED <<objects, defers>>
  BY DEF StartAuthSession, Executes
<1> PICK h \in Allocated(FreeSessionHandles(c)) :
        /\ sessions' = sessions \union
             {NewSession(c, h, v = "trial", SessionPassword(call[c].session, v = "trial"))}
        /\ var' = [var EXCEPT ![c][v] = h]
  BY DEF StartAuthSession
<1> DEFINE x == NewSession(c, h, v = "trial", SessionPassword(call[c].session, v = "trial"))
<1>2. x.handle = h /\ x.owner = c
  BY DEF NewSession
<1>3. h \in SessionHandlesOf(c) /\ h \in Own(c) /\ \A y \in Loadings : y.handle # h
  BY LoadedAt
<1>4. sessions' = sessions \union {x}
  OBVIOUS
<1> HIDE DEF x
<1>5. UniqueHandles'
  BY <1>1, <1>2, <1>3, <1>4, UniqueNew DEF HandleInv, Loadings
<1>6. /\ OrderOK(c)' /\ todo[c] # <<>> /\ \A d \in Client \ {c} : todo'[d] = todo[d]
      /\ \A s : Ahead(c, s)' => Ahead(c, s)
  BY <1>1, Proceeds
<1>7. /\ \A d \in Client \ {c} : var'[d] = var[d]
      /\ \A w \in Variable : var'[c][w] = IF w = v THEN h ELSE var[c][w]
  BY DEF HandleInv, IInv, TypeOK
<1>8. Steady(c, {h})
  <2>1. /\ \A w \in ObjectVariable : var'[c][w] = var[c][w]
        /\ \A w \in SessionVariable : var'[c][w] \in {var[c][w], h}
    BY <1>7 DEF Variable, ObjectVariable, SessionVariable
  <2>2. \A y \in Loadings' : y \in Loadings \/ y = x
    BY <1>1, <1>4 DEF Loadings
  <2>3. \A i \in 1..Len(defers'[c]) : Holds(c, defers'[c][i])
    BY <1>1 DEF Holds, Deferred
  <2> QED BY <1>1, <1>2, <1>3, <1>6, <2>1, <2>2, <2>3 DEF Steady, Served
<1>9. Apart(c)
  BY <1>1, <1>6, <1>7 DEF Apart
<1> QED BY <1>1, <1>5, <1>6, <1>8, <1>9, SteadyStep

\* A new object.
LEMMA LoadHandles ==
  ASSUME HandleInv, IInv', NEW c \in Client,
         CreatePrimary(c) \/ (\E w \in {"aes", "hmac"} : Load(c, w)) \/ HmacStart(c)
  PROVE  HandleInv'
<1>1. PICK cmd, w : /\ AtStep(c, cmd, w) /\ Served(c) /\ Proceed(c)
                    /\ UNCHANGED <<call, outcome, conns, served>>
  BY DEF CreatePrimary, Load, HmacStart, Executes
<1>2. \E v \in ObjectVariable : \E kind, key : LoadObject(c, v, kind, key)
  BY DEF CreatePrimary, Load, HmacStart, ObjectVariable
<1> PICK v \in ObjectVariable : \E kind, key : LoadObject(c, v, kind, key)
  BY <1>2
<1> PICK kind, key : LoadObject(c, v, kind, key)
  OBVIOUS
<1>3. PICK h \in Allocated(FreeObjectHandles(c)) :
        /\ objects' = objects \union {NewObject(c, h, kind, key)}
        /\ var' = [var EXCEPT ![c][v] = h]
        /\ IF kind = "sequence" THEN UNCHANGED defers ELSE PushDefer(c, h)
  BY DEF LoadObject
<1>4. \/ sessions' = sessions
      \/ \E f : /\ \A s \in sessions : f[s].handle = s.handle /\ f[s].owner = s.owner
                /\ sessions' = {f[s] : s \in sessions}
  <2>1. CASE CreatePrimary(c) \/ (\E u \in {"aes", "hmac"} : Load(c, u))
    BY <2>1 DEF CreatePrimary, Load
  <2>2. CASE HmacStart(c)
    BY <2>2, SessionsInPlace DEF HandleInv, IInv
  <2> QED BY <2>1, <2>2
<1> DEFINE x == NewObject(c, h, kind, key)
<1>5. x.handle = h /\ x.owner = c /\ objects' = objects \union {x}
  BY <1>3 DEF NewObject
<1>6. h \in ObjectHandlesOf(c) /\ h \in Own(c) /\ \A y \in Loadings : y.handle # h
  BY LoadedAt
<1> HIDE DEF x
<1>7. UniqueHandles'
  BY <1>4, <1>5, <1>6 DEF HandleInv, UniqueHandles, Loadings
<1>8. /\ OrderOK(c)' /\ todo[c] # <<>> /\ \A d \in Client \ {c} : todo'[d] = todo[d]
      /\ \A s : Ahead(c, s)' => Ahead(c, s)
  BY <1>1, Proceeds
<1>9. /\ \A d \in Client \ {c} : var'[d] = var[d]
      /\ \A u \in Variable : var'[c][u] = IF u = v THEN h ELSE var[c][u]
  BY <1>3 DEF HandleInv, IInv, TypeOK
<1>10. /\ \A d \in Client \ {c} : defers'[d] = defers[d]
       /\ \A i \in 1..Len(defers'[c]) : Deferred(c, defers'[c][i]) \/ defers'[c][i] = h
  <2>1. defers \in [Client -> Stack]
    BY DEF HandleInv, IInv, TypeOK, Stack
  <2>2. CASE UNCHANGED defers
    BY <2>2 DEF Deferred
  <2>3. CASE PushDefer(c, h)
    <3>1. defers'[c] = <<h>> \o defers[c] /\ \A d \in Client \ {c} : defers'[d] = defers[d]
      BY <2>1, <2>3 DEF PushDefer
    <3>2. \A i \in 1..Len(defers'[c]) :
            defers'[c][i] = h \/ (i - 1 \in 1..Len(defers[c]) /\ defers'[c][i] = defers[c][i - 1])
      BY <2>1, <3>1 DEF Stack
    <3> QED BY <3>1, <3>2 DEF Deferred
  <2> QED BY <1>3, <2>2, <2>3
<1>11. Steady(c, {h})
  <2>1. /\ \A u \in SessionVariable : var'[c][u] = var[c][u]
        /\ \A u \in ObjectVariable : var'[c][u] \in {var[c][u], h}
    BY <1>9 DEF Variable, ObjectVariable, SessionVariable
  <2>2. \A y \in Loadings' : (\E z \in Loadings : y.handle = z.handle /\ y.owner = z.owner) \/ y = x
    BY <1>4, <1>5 DEF Loadings
  <2> QED BY <1>1, <1>5, <1>6, <1>8, <1>10, <2>1, <2>2 DEF Steady, Holds, Served
<1>12. Apart(c)
  BY <1>1, <1>8, <1>9, <1>10 DEF Apart
<1> QED BY <1>1, <1>7, <1>8, <1>11, <1>12, SteadyStep

\* A flush in the middle of a call, whatever is at the handle.
LEMMA FlushContextHandles ==
  ASSUME HandleInv, IInv', NEW c \in Client, FlushContext(c)
  PROVE  HandleInv'
<1> PICK v \in Variable :
        /\ AtStep(c, "FlushContext", v) /\ Proceed(c)
        /\ UNCHANGED <<call, defers, var, work, outcome, conns, served, pcr, hier, dataVars, events>>
  BY DEF FlushContext
<1>1. objects' \subseteq objects /\ sessions' \subseteq sessions
  BY DEF FlushContext, Flush
<1>2. UniqueHandles' /\ SamePlaces
  BY <1>1, InPlace DEF HandleInv
<1> QED BY <1>2, PlainStep

\* A deferred function more, for a handle the call knows.
LEMMA DeferHandles ==
  ASSUME HandleInv, IInv', NEW c \in Client, Defer(c)
  PROVE  HandleInv'
<1> PICK v \in SessionVariable \union {"hmac"} :
        /\ AtStep(c, "Defer", v) /\ Proceed(c) /\ PushDefer(c, var[c][v])
        /\ UNCHANGED <<call, var, work, outcome, tpmVars, dataVars, events>>
  BY DEF Defer
<1>1. UNCHANGED <<objects, sessions, conns, served, call, var, outcome>>
  BY DEF tpmVars
<1>2. UniqueHandles' /\ SamePlaces
  BY <1>1, InPlace DEF HandleInv
<1>3. /\ OrderOK(c)' /\ todo[c] # <<>> /\ \A d \in Client \ {c} : todo'[d] = todo[d]
      /\ \A s : Ahead(c, s)' => Ahead(c, s)
  BY Proceeds
<1>4. /\ \A d \in Client \ {c} : defers'[d] = defers[d]
      /\ \A i \in 1..Len(defers'[c]) : Holds(c, defers'[c][i])
  <2>1. defers \in [Client -> Stack] /\ v \in Variable
    BY DEF HandleInv, IInv, TypeOK, Stack, Variable, ObjectVariable
  <2>2. defers'[c] = <<var[c][v]>> \o defers[c] /\ \A d \in Client \ {c} : defers'[d] = defers[d]
    BY <2>1 DEF PushDefer
  <2>3. \A i \in 1..Len(defers'[c]) :
          defers'[c][i] = var[c][v] \/ (i - 1 \in 1..Len(defers[c]) /\ defers'[c][i] = defers[c][i - 1])
    BY <2>1, <2>2 DEF Stack
  <2> QED BY <2>1, <2>2, <2>3 DEF Holds, Deferred
<1>5. Steady(c, {})
  BY <1>1, <1>2, <1>3, <1>4 DEF Steady, SamePlaces
<1>6. Apart(c)
  BY <1>1, <1>3, <1>4 DEF Apart
<1> QED BY <1>1, <1>2, <1>3, <1>5, <1>6, SteadyStep

\* A call that gives up.
LEMMA FailHandles ==
  ASSUME HandleInv, IInv', NEW c \in Client, todo[c] # <<>>, NEW why, Fail(c, why)
  PROVE  HandleInv'
<1>1. /\ UNCHANGED <<objects, sessions, conns, served, call, defers, var>>
      /\ todo' = [todo EXCEPT ![c] = <<>>]
      /\ TypeOK /\ TypeOK' /\ OrderOK(c)
  BY DEF Fail, tpmVars, HandleInv, IInv
<1>2. /\ todo'[c] = <<>> /\ \A d \in Client \ {c} : todo'[d] = todo[d]
      /\ \A d \in Client \ {c} : outcome'[d] = outcome[d]
  BY <1>1 DEF Fail, TypeOK
<1>3. UniqueHandles' /\ SamePlaces
  BY <1>1, InPlace DEF HandleInv
<1>4. OrderOK(c)'
  BY <1>1, <1>2, OrderKept
<1>5. Steady(c, {})
  <2>1. \A i \in 1..Len(defers'[c]) : Holds(c, defers'[c][i])
    BY <1>1 DEF Holds, Deferred
  <2> QED BY <1>1, <1>2, <1>3, <2>1 DEF Steady, SamePlaces, Ahead
<1>6. Apart(c)
  BY <1>1, <1>2 DEF Apart
<1> QED BY <1>1, <1>3, <1>4, <1>5, <1>6, SteadyStep

\* The library's own checks, and commands that fail.
LEMMA CheckHandles ==
  ASSUME HandleInv, IInv', NEW c \in Client, NEW cmd, NEW ok, NEW why, Check(c, cmd, ok, why)
  PROVE  HandleInv'
<1>1. AtStep(c, cmd, "none")
  BY DEF Check
<1>2. CASE ok
  <2>1. Proceed(c) /\ UNCHANGED <<call, defers, var, outcome>> /\ UNCHANGED <<objects, sessions, conns, served>>
    BY <1>2 DEF Check, tpmVars
  <2>2. UniqueHandles' /\ SamePlaces
    BY <2>1, InPlace DEF HandleInv
  <2> QED BY <1>1, <2>1, <2>2, PlainStep
<1>3. CASE ~ok
  BY <1>1, <1>3, FailHandles DEF Check, AtStep
<1> QED BY <1>2, <1>3

\* A command that fails leaves every handle where it was.
LEMMA FailingHandles ==
  ASSUME HandleInv, IInv', NEW c \in Client, CommandRefused(c) \/ CommandLost(c) \/ CommandFault(c)
  PROVE  HandleInv'
<1>1. todo[c] # <<>> /\ \E why : Fail(c, why)
  BY DEF CommandRefused, CommandLost, CommandFault
<1> QED BY <1>1, FailHandles

\* A client that opens its connection has no handle yet.
LEMMA DialHandles ==
  ASSUME HandleInv, IInv', NEW c \in Client, Dial(c)
  PROVE  HandleInv'
<1>1. /\ AtStep(c, "Dial", "none") /\ Proceed(c) /\ Connect(c) /\ PushDefer(c, CloseConn)
      /\ UNCHANGED <<call, var, outcome, objects, sessions>>
      /\ TypeOK /\ TypeOK' /\ StackOK(c) /\ HandlesOK(c) /\ OwnersOK(c)
  BY DEF Dial, HandleInv, IInv
<1>2. /\ OrderOK(c)' /\ todo[c] # <<>> /\ 1 \in 1..Len(todo[c])
      /\ \A d \in Client \ {c} : todo'[d] = todo[d]
      /\ todo[c][1] = <<"Dial", "none">>
  <2>1. /\ OrderOK(c)' /\ todo[c] \in Seq(Step) /\ todo[c] # <<>>
        /\ \A d \in Client \ {c} : todo'[d] = todo[d]
    BY <1>1, Proceeds
  <2>2. Head(todo[c]) = <<"Dial", "none">>
    BY <1>1 DEF AtStep, NextStep
  <2> QED BY <2>1, <2>2
<1>3. Ahead(c, <<"Dial", "none">>)
  BY <1>2 DEF Ahead
<1>4. defers[c] = <<>> /\ c \notin conns /\ c \notin served
  <2>1. defers[c] = <<>>
    BY <1>1, <1>2 DEF StackOK
  <2> QED BY <1>1, <2>1 DEF StackOK, Connected, Deferred, TypeOK, TPMTypeOK
<1>5. defers'[c] = <<CloseConn>> /\ \A d \in Client \ {c} : defers'[d] = defers[d]
  BY <1>1, <1>4 DEF PushDefer, TypeOK
<1>6. var'[c] = NoHandles /\ \A x \in Loadings : x.owner # c
  BY <1>1, <1>2, <1>3, <1>4 DEF HandlesOK, OwnersOK
<1>7. Loadings' = Loadings
  BY <1>1 DEF Loadings
<1>8. HandlesOK(c)'
  BY <1>5, <1>6, HandleShape DEF HandlesOK, NoHandles, Variable
<1>9. \A x \in Loadings : x.handle # NoHandle /\ x.handle # CloseConn
  BY <1>1, LoadingHandle
<1>10. OwnersOK(c)'
  BY <1>5, <1>6, <1>7, <1>9 DEF OwnersOK, Deferred, NoHandles
<1>11. Effect(c) /\ Apart(c)
  BY <1>1, <1>2, <1>5, <1>7 DEF Effect, Apart, Connect
<1>12. UniqueHandles' /\ OneServed'
  BY <1>1 DEF HandleInv, UniqueHandles, OneServed, Connect
<1> QED BY <1>2, <1>8, <1>10, <1>11, <1>12, HandleInvKept

\* The deferred functions are run from the top of the stack.
LEMMA Unwound ==
  ASSUME HandleInv, NEW c \in Client, Unwinding(c), defers[c] # <<>>,
         defers' = [defers EXCEPT ![c] = Tail(@)]
  PROVE  /\ \A d \in Client \ {c} : defers'[d] = defers[d]
         /\ \A x : Deferred(c, x)' => Deferred(c, x)
         /\ Deferred(c, Head(defers[c]))
         /\ Head(defers[c]) = CloseConn => defers'[c] = <<>>
<1>1. TypeOK /\ ClientOK(c) /\ defers[c] \in Stack /\ defers \in [Client -> Stack]
  BY DEF HandleInv, IInv, ClientOK, TypeOK, Stack
<1>2. defers'[c] = Tail(defers[c])
  BY <1>1
<1>3. /\ 1 \in 1..Len(defers[c]) /\ Head(defers[c]) = defers[c][1]
      /\ \A i \in 1..Len(defers'[c]) : i + 1 \in 1..Len(defers[c]) /\ defers'[c][i] = defers[c][i + 1]
  BY <1>1, <1>2 DEF Stack
<1>4. (\A d \in Client \ {c} : defers'[d] = defers[d]) /\ (Head(defers[c]) = CloseConn => defers'[c] = <<>>)
  BY <1>1, Popped
<1> QED BY <1>3, <1>4 DEF Deferred

\* A deferred flush.
LEMMA DeferredFlushHandles ==
  ASSUME HandleInv, IInv', NEW c \in Client, DeferredFlush(c)
  PROVE  HandleInv'
<1>1. /\ Unwinding(c) /\ defers[c] # <<>> /\ defers' = [defers EXCEPT ![c] = Tail(@)]
      /\ UNCHANGED <<call, todo, var, outcome, conns, served>>
      /\ objects' \subseteq objects /\ sessions' \subseteq sessions
      /\ TypeOK /\ OrderOK(c)
  BY DEF DeferredFlush, Flush, HandleInv, IInv
<1>2. /\ \A d \in Client \ {c} : defers'[d] = defers[d]
      /\ \A x : Deferred(c, x)' => Deferred(c, x)
  BY <1>1, Unwound
<1>3. UniqueHandles' /\ SamePlaces
  BY <1>1, InPlace DEF HandleInv
<1>4. OrderOK(c)'
  BY <1>1, OrderKept DEF Unwinding
<1>5. Steady(c, {})
  <2>1. \A i \in 1..Len(defers'[c]) : Holds(c, defers'[c][i])
    BY <1>2 DEF Holds, Deferred
  <2> QED BY <1>1, <1>3, <2>1 DEF Steady, SamePlaces, Ahead
<1>6. Apart(c)
  BY <1>1, <1>2 DEF Apart
<1> QED BY <1>1, <1>3, <1>4, <1>5, <1>6, SteadyStep

\* After the deferred close there is nothing left to run.
LEMMA DeferredCloseHandles ==
  ASSUME HandleInv, IInv', NEW c \in Client, DeferredClose(c)
  PROVE  HandleInv'
<1>1. /\ Unwinding(c) /\ defers[c] # <<>> /\ defers' = [defers EXCEPT ![c] = Tail(@)]
      /\ Head(defers[c]) = CloseConn
      /\ UNCHANGED <<call, todo, var, outcome>>
      /\ conns' = conns \ {c} /\ served' = served \ {c}
      /\ objects' \subseteq objects /\ sessions' \subseteq sessions
      /\ TypeOK /\ OrderOK(c) /\ HandlesOK(c) /\ OwnersOK(c)
  BY DEF DeferredClose, Remaining, HandleInv, IInv
<1>2. /\ \A d \in Client \ {c} : defers'[d] = defers[d]
      /\ defers'[c] = <<>> /\ todo'[c] = <<>>
  BY <1>1, Unwound DEF Unwinding
<1>3. UniqueHandles' /\ SamePlaces
  BY <1>1, InPlace DEF HandleInv
<1>4. OrderOK(c)'
  BY <1>1, OrderKept DEF Unwinding
<1>5. HandlesOK(c)'
  BY <1>1, <1>2 DEF HandlesOK, Connected, Ahead
<1>6. OwnersOK(c)'
  BY <1>1, <1>2, <1>3 DEF OwnersOK, SamePlaces
<1>7. Effect(c) /\ Apart(c) /\ OneServed'
  BY <1>1, <1>2, <1>3 DEF Effect, SamePlaces, Apart, OneServed, HandleInv
<1> QED BY <1>3, <1>4, <1>5, <1>6, <1>7, HandleInvKept

\* A call that is over forgets its handles.
LEMMA ReturnHandles ==
  ASSUME HandleInv, IInv', NEW c \in Client, Returns(c)
  PROVE  HandleInv'
<1>1. \E op, status : Ends(c, op, status)
  BY DEF Returns, ReturnError, ReturnKeys, ReturnAEAD, ReturnSealed, ReturnOpened
<1>2. PICK op, status : Ends(c, op, status)
  BY <1>1
<1>3. /\ Unwinding(c) /\ var' = [var EXCEPT ![c] = NoHandles]
      /\ outcome' = [outcome EXCEPT ![c].status = status]
      /\ UNCHANGED <<call, todo, defers, conns, served, objects, sessions>>
      /\ TypeOK /\ OrderOK(c)
  BY <1>2 DEF Ends, tpmVars, HandleInv, IInv
<1>4. /\ \A d \in Client \ {c} : var'[d] = var[d] /\ outcome'[d] = outcome[d]
      /\ var'[c] = NoHandles
  BY <1>3 DEF TypeOK
<1>5. UniqueHandles' /\ SamePlaces
  BY <1>3, InPlace DEF HandleInv
<1>6. OrderOK(c)'
  BY <1>3, OrderKept DEF Unwinding
<1>7. Steady(c, {})
  <2>1. \A i \in 1..Len(defers'[c]) : Holds(c, defers'[c][i])
    BY <1>3 DEF Holds, Deferred
  <2>2. \A v \in Variable : var'[c][v] = NoHandle
    BY <1>4 DEF NoHandles
  <2> QED BY <1>3, <1>5, <2>1, <2>2 DEF Steady, SamePlaces, Ahead, Variable
<1>8. Apart(c)
  BY <1>3, <1>4 DEF Apart
<1> QED BY <1>3, <1>5, <1>6, <1>7, <1>8, SteadyStep

\* What is orphaned, or still there once a connection is gone, is where it was
\* and nobody's if it was c's.
LEMMA OrphansInPlace ==
  ASSUME TypeOK, UniqueHandles, NEW c \in Client,
         objects' \subseteq Orphan(c, objects), sessions' \subseteq Orphan(c, sessions)
  PROVE  /\ UniqueHandles' /\ Effect(c)
         /\ \A y \in Loadings' : y.owner # c
<1>1. objects \subseteq Object /\ sessions \subseteq Session
  BY DEF TypeOK, TPMTypeOK
<1> DEFINE O(x) == [x EXCEPT !.owner = NoClient]
<1>2. /\ \A x \in objects : O(x).handle = x.handle /\ O(x).owner = NoClient
      /\ \A x \in sessions : O(x).handle = x.handle /\ O(x).owner = NoClient
  BY <1>1 DEF Object, Session
<1>3. /\ \A y \in objects' : \E x \in objects : y = IF x.owner = c THEN O(x) ELSE x
      /\ \A y \in sessions' : \E x \in sessions : y = IF x.owner = c THEN O(x) ELSE x
  BY DEF Orphan
<1> HIDE DEF O
<1>4. UniqueHandles'
  BY <1>2, <1>3 DEF UniqueHandles
<1>5. Effect(c)
  BY <1>2, <1>3 DEF Effect, Loadings
<1>6. \A y \in Loadings' : y.owner # c
  BY <1>2, <1>3, ClientAssumption DEF Loadings
<1> QED BY <1>4, <1>5, <1>6

\* A broken connection.
LEMMA ConnectionLostHandles ==
  ASSUME HandleInv, IInv', NEW c \in Client, ConnectionLost(c)
  PROVE  HandleInv'
<1>1. /\ Connected(c) /\ conns' = conns \ {c} /\ served' = served \ {c}
      /\ objects' = Orphan(c, objects) /\ sessions' = Orphan(c, sessions)
      /\ UNCHANGED <<call, todo, defers, var>>
      /\ \A d \in Client \ {c} : outcome'[d] = outcome[d]
      /\ outcome'[c].status = outcome[c].status /\ outcome'[c].why = outcome[c].why
      /\ TypeOK /\ UniqueHandles /\ OneServed /\ StackOK(c) /\ OrderOK(c) /\ HandlesOK(c)
  BY CutOutcome DEF ConnectionLost, HandleInv, IInv
<1>2. /\ UniqueHandles' /\ Effect(c)
      /\ \A y \in Loadings' : y.owner # c
  BY <1>1, OrphansInPlace
<1>3. ~Ahead(c, <<"Dial", "none">>)
  BY <1>1 DEF Ahead, StackOK, Deferred
<1>4. HandlesOK(c)'
  BY <1>1, <1>3 DEF HandlesOK, Connected, Ahead
<1>5. OwnersOK(c)'
  BY <1>1, <1>2 DEF OwnersOK
<1>6. OrderOK(c)'
  BY <1>1, OrderKept
<1>7. Apart(c) /\ OneServed'
  BY <1>1 DEF Apart, OneServed
<1> QED BY <1>2, <1>4, <1>5, <1>6, <1>7, HandleInvKept

\* A dead client.
LEMMA CrashHandles ==
  ASSUME HandleInv, IInv', NEW c \in Client, Crash(c)
  PROVE  HandleInv'
<1>1. /\ conns' = conns \ {c} /\ served' = served \ {c}
      /\ objects' = Remaining(c, Orphan(c, objects)) /\ sessions' = Remaining(c, Orphan(c, sessions))
      /\ todo' = [todo EXCEPT ![c] = <<>>] /\ defers' = [defers EXCEPT ![c] = <<>>]
      /\ var' = [var EXCEPT ![c] = NoHandles] /\ call' = call
      /\ outcome' = [outcome EXCEPT ![c].status = "failed", ![c].why = "crash", ![c].at = "none",
                                     ![c].cut = TRUE]
      /\ TypeOK /\ UniqueHandles /\ OneServed /\ OrderOK(c)
  BY DEF Crash, HandleInv, IInv
<1>2. /\ UniqueHandles' /\ Effect(c)
      /\ \A y \in Loadings' : y.owner # c
  BY <1>1, RemainingOrphans, OrphansInPlace
<1>3. /\ todo'[c] = <<>> /\ defers'[c] = <<>> /\ var'[c] = NoHandles
      /\ \A d \in Client \ {c} : todo'[d] = todo[d] /\ defers'[d] = defers[d] /\ var'[d] = var[d]
  BY <1>1 DEF TypeOK
<1>4. \A d \in Client \ {c} : outcome'[d] = outcome[d]
  <2>1. \E o : outcome' = [outcome EXCEPT ![c] = o]
    BY <1>1 DEF TypeOK
  <2> QED BY <1>1, <2>1 DEF TypeOK
<1>5. HandlesOK(c)'
  BY <1>3 DEF HandlesOK, NoHandles, Variable
<1>6. OwnersOK(c)'
  BY <1>1, <1>2 DEF OwnersOK
<1>7. OrderOK(c)'
  BY <1>1, <1>3, OrderKept
<1>8. Apart(c) /\ OneServed'
  BY <1>1, <1>3, <1>4 DEF Apart, OneServed
<1> QED BY <1>2, <1>5, <1>6, <1>7, <1>8, HandleInvKept

\* Events in the device: a restart empties it, a clear removes objects.
LEMMA DeviceHandles ==
  ASSUME HandleInv, IInv', Restart \/ ExtendPCR \/ ChangeOwnerAuth \/ Clear
  PROVE  HandleInv'
<1>1. /\ UNCHANGED <<call, todo, defers, var, outcome>>
      /\ TypeOK /\ UniqueHandles /\ OneServed
      /\ \A c \in Client : OrderOK(c) /\ HandlesOK(c) /\ OwnersOK(c) /\ StackOK(c)
  BY DEF Restart, ExtendPCR, ChangeOwnerAuth, Clear, callVars, HandleInv, IInv
<1>2. \A c \in Client : OrderOK(c)'
  BY <1>1, OrderKept
<1>3. CASE Restart
  <2>1. conns' = {} /\ served' = {} /\ Loadings' = {} /\ objects' = {} /\ sessions' = {}
    BY <1>3 DEF Restart, Loadings
  <2>2. ASSUME NEW c \in Client PROVE HandlesOK(c)'
    <3>1. HandlesOK(c) /\ StackOK(c) /\ served \subseteq conns
      BY <1>1 DEF TypeOK, TPMTypeOK
    <3>2. Ahead(c, <<"Dial", "none">>) => c \notin served
      BY <3>1 DEF StackOK, Ahead, Connected, Deferred
    <3> QED BY <1>1, <2>1, <3>1, <3>2 DEF HandlesOK, Connected, Ahead
  <2>3. \A c \in Client : OwnersOK(c)'
    BY <2>1 DEF OwnersOK
  <2>4. UniqueHandles' /\ OneServed'
    BY <2>1 DEF UniqueHandles, OneServed
  <2> QED BY <1>2, <2>2, <2>3, <2>4 DEF HandleInv
<1>4. CASE ExtendPCR \/ ChangeOwnerAuth \/ Clear
  <2>1. UNCHANGED <<conns, served>> /\ objects' \subseteq objects /\ sessions' = sessions
    BY <1>4 DEF ExtendPCR, ChangeOwnerAuth, Clear
  <2>2. UniqueHandles' /\ SamePlaces /\ OneServed'
    BY <1>1, <2>1, InPlace DEF OneServed
  <2>3. \A c \in Client : Steady(c, {})
    BY <1>1, <2>1, <2>2 DEF Steady, SamePlaces, Holds, Deferred, Ahead
  <2>4. \A c \in Client : HandlesOK(c)' /\ OwnersOK(c)'
    BY <2>3, HandlesKept
  <2> QED BY <1>2, <2>2, <2>4 DEF HandleInv
<1> QED BY <1>3, <1>4

\* The device turns to a client that has no handle yet.
LEMMA AcceptHandles ==
  ASSUME HandleInv, IInv', NEW c \in Client, Accept(c)
  PROVE  HandleInv'
<1>1. /\ c \in conns \ served /\ served = {} /\ served' = {c}
      /\ UNCHANGED <<objects, sessions, conns, call, todo, defers, var, outcome>>
      /\ TypeOK /\ UniqueHandles /\ OrderOK(c) /\ HandlesOK(c) /\ OwnersOK(c)
  BY DEF Accept, AcceptConnection, callVars, HandleInv, IInv
<1>2. OrderOK(c)' /\ Loadings' = Loadings /\ UniqueHandles' /\ OneServed'
  BY <1>1, OrderKept DEF Loadings, UniqueHandles, OneServed
<1>3. /\ var[c] = NoHandles
      /\ \A i \in 1..Len(defers[c]) : defers[c][i] \in {NoHandle, CloseConn}
  BY <1>1 DEF HandlesOK, Connected
<1>4. \A x \in Loadings : x.handle # NoHandle /\ x.handle # CloseConn
  BY <1>1, LoadingHandle
<1>5. HandlesOK(c)'
  BY <1>1 DEF HandlesOK
<1>6. OwnersOK(c)'
  BY <1>1, <1>2, <1>3, <1>4 DEF OwnersOK, Deferred, NoHandles
<1>7. Effect(c) /\ Apart(c)
  BY <1>1, <1>2 DEF Effect, Apart
<1> QED BY <1>2, <1>5, <1>6, <1>7, HandleInvKept

\* A call starts with no handle, and what its client has left is nobody's.
LEMMA StartHandles ==
  ASSUME HandleInv, IInv', NEW c \in Client, NEW a, NEW program, Start(c, a, program), EndOf(a, program)
  PROVE  HandleInv'
<1>1. /\ Idle(c) /\ call' = [call EXCEPT ![c] = a] /\ todo' = [todo EXCEPT ![c] = program]
      /\ var' = [var EXCEPT ![c] = NoHandles]
      /\ outcome' = [outcome EXCEPT ![c] = [status |-> "pending", why |-> "none",
                                                 at |-> "none", since |-> events,
                                                 cut |-> FALSE]]
      /\ objects' = Orphan(c, objects) /\ sessions' = Orphan(c, sessions)
      /\ UNCHANGED <<defers, conns, served>>
      /\ TypeOK /\ UniqueHandles /\ OneServed /\ StackOK(c)
  BY DEF Start, HandleInv, IInv
<1>2. defers[c] = <<>> /\ c \notin conns /\ c \notin served
  BY <1>1, IdleReleased DEF Connected, TypeOK, TPMTypeOK
<1>3. /\ call'[c] = a /\ todo'[c] = program /\ var'[c] = NoHandles /\ outcome'[c].status = "pending"
      /\ \A d \in Client \ {c} : call'[d] = call[d] /\ todo'[d] = todo[d] /\ var'[d] = var[d]
                                 /\ outcome'[d] = outcome[d]
  BY <1>1 DEF TypeOK
<1>4. /\ UniqueHandles' /\ Effect(c)
      /\ \A y \in Loadings' : y.owner # c
  BY <1>1, OrphansInPlace
<1>5. OrderOK(c)'
  BY <1>3 DEF OrderOK, Idle
<1>6. HandlesOK(c)'
  BY <1>1, <1>2, <1>3 DEF HandlesOK, NoHandles, Variable
<1>7. OwnersOK(c)'
  BY <1>1, <1>2, <1>4 DEF OwnersOK
<1>8. Apart(c) /\ OneServed'
  BY <1>1, <1>3 DEF Apart, OneServed
<1> QED BY <1>4, <1>5, <1>6, <1>7, <1>8, HandleInvKept

\* A program that has all the steps of its call.
Whole(a, s) == EndOf(a, s) /\ \A m \in StepsOf(a) : \E j \in 1..Len(s) : s[j] = m

\* What is known of a call's arguments when it starts.
Fresh(a) ==
  /\ a \in CallType /\ a.op # "none"
  /\ a.op \in {"Seal", "Open"} => a.aead \in aeads
  /\ a.op = "NewAESCTRHMAC" => {a.aes, a.hmac} \subseteq KeysOf(pairs) \union {NilKey}
  /\ a.op = "Open" /\ a.len >= tagSize => \E b \in sealed : b.tag = a.tag

\* A program in order is one its call may have left.
LEMMA ArrangedWhole ==
  ASSUME NEW a, NEW s, NEW lo \in Nat, NEW hi \in Nat, Arranged(a.op, s, StepsOf(a), lo, hi)
  PROVE  Whole(a, s)
BY ArrangedEnd DEF Whole, Arranged

\* Each of the four calls starts with its whole program.
LEMMA CallStarts ==
  ASSUME TypeOK, NEW c \in Client, Calls(c)
  PROVE  \E a, program : Start(c, a, program) /\ Whole(a, program) /\ Fresh(a)
<1>1. CASE NewKey(c)
  <2> PICK keyPass \in Password, parentPass \in Password, s \in SessionConfig :
        Start(c, [op |-> "NewKey", keyPass |-> keyPass, parentPass |-> parentPass, session |-> s],
              NewKeyProgram(s.kind))
    BY <1>1 DEF NewKey
  <2> DEFINE a == [op |-> "NewKey", keyPass |-> keyPass, parentPass |-> parentPass, session |-> s]
  <2>1. a.op = "NewKey" /\ StepsOf(a) = NewKeySteps(s.kind) /\ a \in CallType
    BY DEF StepsOf, CallType
  <2>2. Start(c, a, NewKeyProgram(s.kind))
    OBVIOUS
  <2> HIDE DEF a
  <2>3. Whole(a, NewKeyProgram(s.kind))
    BY <2>1, NewKeyArranged, ArrangedWhole
  <2> QED BY <2>1, <2>2, <2>3 DEF Fresh
<1>2. CASE NewAESCTRHMAC(c)
  <2> PICK aes \in {p.aes : p \in pairs} \union {NilKey}, hmac \in {p.hmac : p \in pairs} \union {NilKey},
           parentPass \in Password, s \in SessionConfig :
             Start(c, [op |-> "NewAESCTRHMAC", aes |-> aes, hmac |-> hmac,
                       parentPass |-> parentPass, session |-> s], NewAESCTRHMACProgram)
    BY <1>2 DEF NewAESCTRHMAC
  <2> DEFINE a == [op |-> "NewAESCTRHMAC", aes |-> aes, hmac |-> hmac,
                   parentPass |-> parentPass, session |-> s]
  <2>1. aes \in Key \union {NilKey} /\ hmac \in Key \union {NilKey}
    BY DEF TypeOK
  <2>2. /\ a.op = "NewAESCTRHMAC" /\ StepsOf(a) = NewAEADSteps /\ a \in CallType
        /\ {a.aes, a.hmac} \subseteq KeysOf(pairs) \union {NilKey}
    BY <2>1 DEF StepsOf, CallType, KeysOf
  <2>3. Start(c, a, NewAESCTRHMACProgram)
    OBVIOUS
  <2> HIDE DEF a
  <2>4. Whole(a, NewAESCTRHMACProgram)
    BY <2>2, NewAEADArranged, ArrangedWhole
  <2> QED BY <2>2, <2>3, <2>4 DEF Fresh
<1>3. CASE Seal(c)
  <2> PICK i \in aeads, nonce \in Nonce, pt \in Plaintext, aad \in AAD :
        Start(c, [op |-> "Seal", aead |-> i, parentPass |-> i.parentPass, session |-> i.session,
                  nonce |-> nonce, pt |-> pt, aad |-> aad],
              SealProgram(i.session.kind, nonce.len, aad.len, pt.len))
    BY <1>3 DEF Seal
  <2> DEFINE a == [op |-> "Seal", aead |-> i, parentPass |-> i.parentPass, session |-> i.session,
                   nonce |-> nonce, pt |-> pt, aad |-> aad]
             program == SealProgram(i.session.kind, nonce.len, aad.len, pt.len)
  <2>1. i \in AEAD /\ nonce \in Text /\ pt \in Text /\ aad \in Text
    BY TextAssumption DEF TypeOK
  <2>2. /\ i.parentPass \in Password /\ i.session \in SessionConfig
        /\ nonce.len \in Nat /\ aad.len \in Nat /\ pt.len \in Nat
    BY <2>1 DEF AEAD, Text, TooShort
  <2>3. a.op = "Seal" /\ StepsOf(a) = SealSteps(i.session.kind, pt.len) /\ a.aead \in aeads
    BY DEF StepsOf
  <2>4. a \in CallType
    BY <2>1, <2>2 DEF CallType
  <2>5. Start(c, a, program)
    OBVIOUS
  <2> HIDE DEF a
  <2>6. Whole(a, program)
    BY <2>2, <2>3, SealArranged, ArrangedWhole
  <2> QED BY <2>3, <2>4, <2>5, <2>6 DEF Fresh
<1>4. CASE Open(c)
  <2> PICK i \in aeads, nonce \in Nonce, aad \in AAD, in \in Input :
        Start(c, [op |-> "Open", aead |-> i, parentPass |-> i.parentPass, session |-> i.session,
                  nonce |-> nonce, aad |-> aad, ct |-> in.ct, tag |-> in.tag, len |-> in.len],
              OpenProgram(i.session.kind, nonce.len, aad.len, in.ct.pt.len))
    BY <1>4 DEF Open
  <2> DEFINE a == [op |-> "Open", aead |-> i, parentPass |-> i.parentPass, session |-> i.session,
                   nonce |-> nonce, aad |-> aad, ct |-> in.ct, tag |-> in.tag, len |-> in.len]
             program == OpenProgram(i.session.kind, nonce.len, aad.len, in.ct.pt.len)
  <2>1. i \in AEAD /\ nonce \in Text /\ aad \in Text
    BY TextAssumption DEF TypeOK
  <2>2. /\ in.ct \in CiphertextType /\ in.tag \in TagType /\ in.len \in Nat
        /\ in.len >= tagSize => \E b \in sealed : b.tag = in.tag
    BY InputType
  <2>3. /\ i.parentPass \in Password /\ i.session \in SessionConfig
        /\ nonce.len \in Nat /\ aad.len \in Nat /\ in.ct.pt.len \in Nat
    BY <2>1, <2>2 DEF AEAD, Text, TooShort, CiphertextType
  <2>4. /\ a.op = "Open" /\ StepsOf(a) = OpenSteps(i.session.kind, in.ct.pt.len) /\ a.aead \in aeads
        /\ a.len = in.len /\ a.tag = in.tag
    BY DEF StepsOf
  <2>5. a \in CallType
    BY <2>1, <2>2, <2>3 DEF CallType
  <2>6. Start(c, a, program)
    OBVIOUS
  <2> HIDE DEF a
  <2>7. Whole(a, program)
    BY <2>3, <2>4, OpenArranged, ArrangedWhole
  <2> QED BY <2>2, <2>4, <2>5, <2>6, <2>7 DEF Fresh
<1> QED BY <1>1, <1>2, <1>3, <1>4 DEF Calls

\* A call that is made holds no handle yet.
LEMMA CallsHandles ==
  ASSUME HandleInv, IInv', NEW c \in Client, Calls(c)
  PROVE  HandleInv'
<1> PICK a, program : Start(c, a, program) /\ Whole(a, program)
  BY CallStarts DEF HandleInv, IInv
<1> QED BY StartHandles DEF Whole

\* A call has taken the steps of its program that come before its next one.
LEMMA Position ==
  ASSUME HandleInv, NEW c \in Client, NEW cmd, NEW v, AtStep(c, cmd, v)
  PROVE  /\ <<cmd, v>> \in StepsOf(call[c]) \union {Optional}
         /\ PlaceOf(call[c].op, <<cmd, v>>) \in Nat
         /\ \A m \in StepsOf(call[c]) :
              /\ PlaceOf(call[c].op, m) \in Nat
              /\ Taken(c, m) <=> PlaceOf(call[c].op, m) < PlaceOf(call[c].op, <<cmd, v>>)
<1> DEFINE s == todo[c]
           P(x) == PlaceOf(call[c].op, x)
<1>1. s \in Seq(Step) /\ s # <<>> /\ Head(s) = <<cmd, v>> /\ EndOf(call[c], s)
  BY DEF HandleInv, IInv, TypeOK, OrderOK, AtStep, NextStep
<1>2. 1 \in 1..Len(s) /\ s[1] = <<cmd, v>> /\ \A i \in 1..Len(s) : i = 1 \/ 1 < i
  BY <1>1
<1>3. <<cmd, v>> \in StepsOf(call[c]) \union {Optional} /\ P(<<cmd, v>>) \in Nat
  <2>1. s[1] \in StepsOf(call[c]) \union {Optional} /\ P(s[1]) \in Nat
    BY <1>1, <1>2 DEF EndOf
  <2> QED BY <1>2, <2>1
<1>4. ASSUME NEW m \in StepsOf(call[c])
      PROVE  P(m) \in Nat /\ (Taken(c, m) <=> P(m) < P(<<cmd, v>>))
  <2>1. P(m) \in Nat
    BY StepPlaces
  <2>2. P(<<cmd, v>>) <= P(m) => Ahead(c, m)
    BY <1>1, <1>2 DEF EndOf, Ahead
  <2>3. ASSUME NEW i \in 1..Len(s), s[i] = m PROVE P(<<cmd, v>>) <= P(m)
    <3>1. i = 1 \/ P(s[1]) < P(s[i]) \/ s[1] = s[i]
      BY <1>1, <1>2 DEF EndOf
    <3> QED BY <1>2, <1>3, <2>1, <2>3, <3>1
  <2>4. Ahead(c, m) => P(<<cmd, v>>) <= P(m)
    BY <2>3 DEF Ahead
  <2> QED BY <1>3, <2>1, <2>2, <2>4 DEF Taken
<1> QED BY <1>3, <1>4

\* Taking a step takes no other, and that one for good unless it is repeated.
LEMMA PositionAfter ==
  ASSUME HandleInv, NEW c \in Client, NEW cmd, NEW v, AtStep(c, cmd, v), Proceed(c),
         call' = call, outcome' = outcome
  PROVE  /\ \A m : m # <<cmd, v>> => (Ahead(c, m)' <=> Ahead(c, m))
         /\ <<cmd, v>> \notin Repeated => ~Ahead(c, <<cmd, v>>)'
         /\ \A m : m # <<cmd, v>> => (Taken(c, m)' <=> Taken(c, m))
<1> DEFINE s == todo[c]
           P(x) == PlaceOf(call[c].op, x)
<1>1. /\ s \in Seq(Step) /\ s # <<>> /\ todo'[c] = Tail(s)
      /\ Head(s) = <<cmd, v>> /\ EndOf(call[c], s)
  <2>1. s \in Seq(Step) /\ s # <<>> /\ todo'[c] = Tail(s)
    BY Proceeds
  <2> QED BY <2>1 DEF AtStep, NextStep, HandleInv, OrderOK
<1>2. /\ s[1] = <<cmd, v>> /\ 1 \in 1..Len(s)
      /\ \A i \in 1..Len(todo'[c]) : i + 1 \in 1..Len(s) /\ todo'[c][i] = s[i + 1] /\ 1 < i + 1
      /\ \A i \in 1..Len(s) : i # 1 => i - 1 \in 1..Len(todo'[c]) /\ todo'[c][i - 1] = s[i]
  BY <1>1
<1>3. ASSUME NEW m, m # <<cmd, v>> PROVE Ahead(c, m)' <=> Ahead(c, m)
  <2>1. ASSUME NEW i \in 1..Len(todo'[c]), todo'[c][i] = m PROVE Ahead(c, m)
    <3>1. i + 1 \in 1..Len(s) /\ s[i + 1] = m
      BY <1>2, <2>1
    <3> QED BY <3>1 DEF Ahead
  <2>2. ASSUME NEW i \in 1..Len(s), s[i] = m PROVE Ahead(c, m)'
    <3>1. i # 1
      BY <1>2, <1>3, <2>2
    <3>2. i - 1 \in 1..Len(todo'[c]) /\ todo'[c][i - 1] = m
      BY <1>2, <2>2, <3>1
    <3> QED BY <3>2 DEF Ahead
  <2> QED BY <2>1, <2>2 DEF Ahead
<1>4. <<cmd, v>> \notin Repeated => ~Ahead(c, <<cmd, v>>)'
  <2> SUFFICES ASSUME NEW i \in 1..Len(todo'[c]), todo'[c][i] = <<cmd, v>>
               PROVE  <<cmd, v>> \in Repeated
    BY DEF Ahead
  <2>1. P(s[1]) < P(s[i + 1]) \/ s[1] \in Repeated
    BY <1>1, <1>2 DEF EndOf
  <2>2. s[i + 1] = s[1] /\ P(s[1]) \in Nat
    BY <1>1, <1>2 DEF EndOf
  <2> QED BY <1>2, <2>1, <2>2
<1>5. \A m : m # <<cmd, v>> => (Taken(c, m)' <=> Taken(c, m))
  BY <1>3 DEF Taken
<1> QED BY <1>3, <1>4, <1>5

-----------------------------------------------------------------------------
(* Handles are in order in every state. *)

\* No call holds a handle at the start.
LEMMA InitHandles == Init => HandleInv
<1> SUFFICES ASSUME Init PROVE HandleInv
  OBVIOUS
<1>1. IInv
  BY InitInvariant
<1>2. UniqueHandles /\ OneServed
  BY DEF Init, InitTPM, UniqueHandles, OneServed
<1>3. ASSUME NEW c \in Client PROVE OrderOK(c) /\ HandlesOK(c) /\ OwnersOK(c)
  <2>1. todo[c] = <<>> /\ defers[c] = <<>> /\ var[c] = NoHandles /\ Loadings = {}
    BY DEF Init, InitTPM, Loadings
  <2>2. EndOf(call[c], <<>>)
    BY DEF EndOf
  <2> QED BY <2>1, <2>2 DEF OrderOK, HandlesOK, OwnersOK, NoHandles, Variable
<1> QED BY <1>1, <1>2, <1>3 DEF HandleInv

\* No step breaks the invariant of the handles.
LEMMA NextHandles == HandleInv /\ [Next]_vars => HandleInv'
<1> SUFFICES ASSUME HandleInv, [Next]_vars PROVE HandleInv'
  OBVIOUS
<1>1. IInv'
  BY NextInvariant DEF HandleInv
<1>2. ASSUME NEW c \in Client, Calls(c) \/ Accept(c) PROVE HandleInv'
  BY <1>1, <1>2, CallsHandles, AcceptHandles
<1>3. ASSUME NEW c \in Client, Advance(c) PROVE HandleInv'
  <2>1. CASE LocalStep(c)
    BY <1>1, <2>1, CheckHandles, DialHandles, DeferHandles DEF LocalStep, CheckLengths, CheckKeys, CheckTag
  <2>2. CASE SessionCommand(c)
    BY <1>1, <2>2, PlainCommand, StartAuthSessionHandles DEF SessionCommand
  <2>3. CASE KeyCommand(c)
    BY <1>1, <2>3, PlainCommand, LoadHandles DEF KeyCommand
  <2>4. CASE FlushContext(c) \/ CommandRefused(c) \/ CommandLost(c)
    BY <1>1, <2>4, FlushContextHandles, FailingHandles
  <2>5. CASE DeferredFlush(c) \/ DeferredClose(c) \/ Returns(c)
    BY <1>1, <2>5, DeferredFlushHandles, DeferredCloseHandles, ReturnHandles
  <2> QED BY <1>3, <2>1, <2>2, <2>3, <2>4, <2>5 DEF Advance
<1>4. CASE Environment
  BY <1>1, <1>4, FailingHandles, ConnectionLostHandles, CrashHandles, DeviceHandles DEF Environment
<1>5. CASE UNCHANGED vars
  BY <1>1, <1>5 DEF vars, tpmVars, callVars, HandleInv, UniqueHandles, OneServed, OrderOK, Idle,
     HandlesOK, OwnersOK, Loadings, Connected, Ahead, Deferred
<1> QED BY <1>2, <1>3, <1>4, <1>5 DEF Next

\* A deferred flush never frees what another call loaded.
THEOREM FlushesOnlyItsOwn == Spec => []FlushesOwn
<1>1. HandleInv => FlushesOwn
  <2> SUFFICES ASSUME HandleInv, NEW c \in served, NEW h \in Range(defers[c]),
                      NEW x \in objects \union sessions, x.handle = h
               PROVE  x.owner = c
    BY DEF FlushesOwn
  <2>1. c \in Client /\ OwnersOK(c) /\ defers[c] \in Stack
    BY DEF HandleInv, IInv, TypeOK, TPMTypeOK, Stack
  <2>2. Deferred(c, x.handle)
    BY <2>1 DEF Range, Deferred, Stack
  <2> QED BY <2>1, <2>2 DEF OwnersOK, Loadings
<1> QED BY <1>1, InitHandles, NextHandles, PTL DEF Spec
=============================================================================
