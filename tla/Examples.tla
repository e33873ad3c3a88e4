------------------------------ MODULE Examples ------------------------------
(***************************************************************************)
(* The programs in src/examples: newkey writes a pair of keys to a file,   *)
(* encrypt reads them and writes a message to another file, decrypt reads  *)
(* both, and test_vector does the last two at once.  They are run by hand, *)
(* in any order, several at a time, and may be killed; they share the two  *)
(* files and the TPM.  A call of the library is one step here, as module   *)
(* AEADService promises.                                                   *)
(***************************************************************************)
EXTENDS Naturals, Sequences

CONSTANTS
  Process,                  \* shells in which programs are run
  Suite,                    \* sets of programs that are run together
  Flags,                    \* their command lines
  InitFile, InitDevice,     \* what there is at the start
  PCRValue, Password, NoPassword,
  Event,                    \* what else may happen,
  MaxRuns, MaxEvents        \* and so many program runs and events

VARIABLES
  file,                     \* the files
  runs,                     \* the programs run so far
  cur, todo,                \* cur[p]: the one now run, todo[p]: its next steps
  device,                   \* owner's seed and password, and the PCRs
  events                    \* number of events

vars == <<file, runs, cur, todo, device, events>>

ASSUME PasswordAssumption == NoPassword \in Password
ASSUME BoundAssumption == {MaxRuns, MaxEvents} \subseteq Nat
ASSUME ValueAssumption == PCRValue \subseteq STRING /\ Password \subseteq STRING

-----------------------------------------------------------------------------
(* The programs: their session, the flags they have besides the names of   *)
(* the files, what becomes of an error of NewAESCTRHMAC, and their steps.   *)

newkey == <<"NewKey", "Truncate", "Write">>
encrypt == <<"ReadKeys", "NewAESCTRHMAC", "Seal", "Truncate", "Write">>
decrypt == <<"ReadMessage", "ReadKeys", "NewAESCTRHMAC", "Open">>
WithPCRs(steps) == <<"GetPCRMap">> \o steps

Main(session, has, onError, steps) ==
  [session |-> session, has |-> has, onError |-> onError, steps |-> steps]

no_policy_newkey == Main("none", {}, "error", newkey)

\* Mutant: the message is encrypted with a new key that is not saved.
no_policy_encrypt_rekeyed ==
  Main("none", {}, "error", <<"ReadKeys", "NewKey">> \o Tail(encrypt))
no_policy_encrypt == Main("none", {}, "error", encrypt)
no_policy_decrypt == Main("none", {}, "panic", decrypt)

\* Mutant: the password is given to the session only.
policy_auth_value_newkey_unset == Main("authvalue", {"parentPass"}, "error", newkey)
policy_auth_value_newkey == Main("authvalue", {"parentPass", "keyPass"}, "error", newkey)
policy_auth_value_encrypt == Main("authvalue", {"parentPass", "keyPass"}, "panic", encrypt)
policy_auth_value_decrypt == Main("authvalue", {"parentPass", "keyPass"}, "panic", decrypt)

policy_pcr_newkey == Main("pcr", {"parentPass", "pcrs"}, "error", WithPCRs(newkey))
policy_pcr_encrypt == Main("pcr", {"parentPass", "pcrs"}, "panic", WithPCRs(encrypt))
policy_pcr_decrypt == Main("pcr", {"parentPass", "pcrs"}, "panic", WithPCRs(decrypt))

policy_pcr_auth_value_newkey ==
  Main("pcr_authvalue", {"parentPass", "keyPass", "pcrs"}, "error", WithPCRs(newkey))
policy_pcr_auth_value_encrypt ==
  Main("pcr_authvalue", {"parentPass", "keyPass", "pcrs"}, "panic", WithPCRs(encrypt))
policy_pcr_auth_value_decrypt ==
  Main("pcr_authvalue", {"parentPass", "keyPass", "pcrs"}, "panic", WithPCRs(decrypt))

\* The nonce, text and additional data are the test vector's; what was sealed
\* is opened from memory.
test_vector ==
  Main("pcr_authvalue", {"parentPass", "keyPass", "pcrs"}, "panic",
       WithPCRs(encrypt) \o <<"Open">>)

Mains ==
  {no_policy_newkey, no_policy_encrypt, no_policy_decrypt,
   policy_auth_value_newkey, policy_auth_value_encrypt, policy_auth_value_decrypt,
   policy_pcr_newkey, policy_pcr_encrypt, policy_pcr_decrypt,
   policy_pcr_auth_value_newkey, policy_pcr_auth_value_encrypt, policy_pcr_auth_value_decrypt,
   test_vector}
ASSUME SuiteAssumption == \A suite \in Suite : suite \subseteq Mains

-----------------------------------------------------------------------------
(* Files. *)

NoFile == [kind |-> "none", len |-> 0]
\* Empty, or too short for a nonce.
EmptyFile == [kind |-> "empty", len |-> 0]
\* Part of a content, or the end of another one behind it.
Torn(n) == [kind |-> "torn", len |-> n]

\* All files that one newkey program writes for one password have this length.
KeyFileLength == 1

\* What a run has got hold of so far.
NoPair == [kind |-> "nopair", len |-> 0]
NoText == [id |-> "none", len |-> 0]

Text == [id : STRING, len : Nat]
Session == {"none", "authvalue", "pcr", "pcr_authvalue"}
KeyFile ==
  [kind : {"keys"}, len : Nat, id : Nat, seed : Nat, session : Session,
   pcrs : PCRValue \union {"any"}, auth : STRING]
MessageFile == [kind : {"message"}, len : Nat, pair : Nat, aad : STRING, text : Text]
Content == {NoFile, EmptyFile} \union [kind : {"torn"}, len : Nat] \union KeyFile \union MessageFile
CommandLine ==
  [key : DOMAIN InitFile, message : DOMAIN InitFile, parentPass : STRING, keyPass : STRING,
   pcrs : STRING, aad : STRING, text : Text]
Device == [seed : Nat, auth : STRING, pcr : STRING]

\* The flags are strings; at first a file is missing or holds keys.
ASSUME FlagsAssumption == Flags \subseteq CommandLine
ASSUME FileAssumption == InitFile \in [DOMAIN InitFile -> {NoFile} \union KeyFile]
ASSUME DeviceAssumption == InitDevice \in Device

Writes(r) == r.main.steps \notin {decrypt, WithPCRs(decrypt)}
MakesKeys(r) == r.main.steps \in {newkey, WithPCRs(newkey)}
Target(r) == IF MakesKeys(r) THEN r.flags.key ELSE r.flags.message
Output(r) == IF MakesKeys(r) THEN r.pair ELSE r.message

-----------------------------------------------------------------------------
(* Steps. *)

R(p) == runs[cur[p]]
AtStep(p, step) == cur[p] # 0 /\ Head(todo[p]) = step
Running == {cur[p] : p \in Process} \ {0}

Start(p) ==
  \E main \in UNION Suite, f \in Flags :
    LET n == Len(runs) + 1
    IN /\ cur[p] = 0 /\ n <= MaxRuns
       /\ \E suite \in Suite : {main} \union {runs[k].main : k \in DOMAIN runs} \subseteq suite
       /\ runs' = Append(
            [k \in DOMAIN runs |->
               IF k \in Running THEN [runs[k] EXCEPT !.with = @ \union {n}] ELSE runs[k]],
            [main |-> main, flags |-> f, with |-> Running, since |-> events, until |-> events,
             exit |-> "running", pair |-> NoPair, message |-> NoFile, printed |-> NoText])
       /\ cur' = [cur EXCEPT ![p] = n]
       /\ todo' = [todo EXCEPT ![p] = main.steps]
       /\ UNCHANGED <<file, device, events>>

\* Mutant: a run that ends is not waited for.
EndsEarly(p, r, how) ==
  /\ runs' = [runs EXCEPT ![cur[p]] = [r EXCEPT !.exit = how, !.until = events']]
  /\ UNCHANGED cur
  /\ todo' = [todo EXCEPT ![p] = <<>>]

\* The program ends, with its result in run r.
Ends(p, r, how) ==
  /\ runs' = [runs EXCEPT ![cur[p]] = [r EXCEPT !.exit = how, !.until = events']]
  /\ cur' = [cur EXCEPT ![p] = 0]
  /\ todo' = [todo EXCEPT ![p] = <<>>]

\* The step has gone well and left r; after the last one the program ends.
Goes(p, r) ==
  IF Len(todo[p]) = 1
    THEN Ends(p, r, "ok")
    ELSE /\ runs' = [runs EXCEPT ![cur[p]] = r]
         /\ todo' = [todo EXCEPT ![p] = Tail(@)]
         /\ UNCHANGED cur

\* The step gives its result r if it may, or ends the program.
Tries(p, possible, r, how) ==
  /\ UNCHANGED <<device, events>>
  /\ IF possible THEN Goes(p, r) ELSE Ends(p, R(p), how)

\* A flag the program does not have is nil.
ParentPass(r) == IF "parentPass" \in r.main.has THEN r.flags.parentPass ELSE NoPassword
KeyPass(r) == IF "keyPass" \in r.main.has THEN r.flags.keyPass ELSE NoPassword
PCRs(r) == IF "pcrs" \in r.main.has THEN r.flags.pcrs ELSE "any"

GetPCRMap(p) ==
  /\ AtStep(p, "GetPCRMap")
  /\ Tries(p, R(p).flags.pcrs \in PCRValue, R(p), "error")
  /\ UNCHANGED file

\* The keys are bound to the session and take the password, if there is one.
NewKey(p) ==
  LET r == R(p)
  IN /\ AtStep(p, "NewKey")
     /\ Tries(p, ParentPass(r) = device.auth,
              [r EXCEPT !.pair = [kind |-> "keys", len |-> KeyFileLength, id |-> cur[p],
                                  seed |-> device.seed, session |-> r.main.session,
                                  pcrs |-> PCRs(r), auth |-> KeyPass(r)]], "error")
     /\ UNCHANGED file

\* Mutant: a file that is not there is read as an empty one.
ReadMessageUnchecked(p) ==
  LET content == file[R(p).flags.message]
  IN /\ AtStep(p, "ReadMessage")
     /\ Tries(p, TRUE,
              [R(p) EXCEPT !.message = IF content = NoFile THEN EmptyFile ELSE content], "error")
     /\ UNCHANGED file

ReadMessage(p) ==
  LET content == file[R(p).flags.message]
  IN /\ AtStep(p, "ReadMessage")
     /\ Tries(p, content # NoFile, [R(p) EXCEPT !.message = content], "error")
     /\ UNCHANGED file

\* Anything but a whole key file fails to parse.
ReadKeys(p) ==
  LET content == file[R(p).flags.key]
  IN /\ AtStep(p, "ReadKeys")
     /\ Tries(p, content.kind = "keys", [R(p) EXCEPT !.pair = content], "error")
     /\ UNCHANGED file

NewAESCTRHMAC(p) ==
  /\ AtStep(p, "NewAESCTRHMAC")
  /\ Tries(p, TRUE, R(p), R(p).main.onError)
  /\ UNCHANGED file

\* One EncryptDecrypt2 command takes so many bytes.
maxDigestBuffer == 1024

\* The TPM loads the keys and the session meets their policy.
Usable(r) ==
  /\ ParentPass(r) = device.auth /\ r.pair.seed = device.seed
  /\ r.pair.session = r.main.session /\ r.pair.pcrs = PCRs(r)
  /\ PCRs(r) \in {"any", device.pcr}
  /\ r.main.session \in {"authvalue", "pcr_authvalue"} => KeyPass(r) = r.pair.auth

\* A policy session is good for one command, and so for what one command takes.
Fits(r, text) == r.main.session = "none" \/ text.len <= maxDigestBuffer

Seal(p) ==
  LET r == R(p)
  IN /\ AtStep(p, "Seal")
     /\ Tries(p, Usable(r) /\ Fits(r, r.flags.text),
              [r EXCEPT !.message =
                 [kind |-> "message", len |-> r.flags.text.len, pair |-> r.pair.id,
                  aad |-> r.flags.aad, text |-> r.flags.text]], "panic")
     /\ UNCHANGED file

\* Mutant: the additional data is not compared.
OpenWithoutAAD(p) ==
  LET r == R(p)
      authentic == r.message.kind = "message" /\ r.message.pair = r.pair.id
  IN /\ AtStep(p, "Open")
     /\ Tries(p, authentic /\ Usable(r) /\ Fits(r, r.message.text),
              [r EXCEPT !.printed = r.message.text],
              IF r.message = EmptyFile THEN "panic" ELSE "error")
     /\ UNCHANGED file

\* What is shorter than a nonce cannot be split: that is a panic.
Open(p) ==
  LET r == R(p)
      authentic == /\ r.message.kind = "message"
                   /\ r.message.pair = r.pair.id /\ r.message.aad = r.flags.aad
  IN /\ AtStep(p, "Open")
     /\ Tries(p, authentic /\ Usable(r) /\ Fits(r, r.message.text),
              [r EXCEPT !.printed = r.message.text],
              IF r.message = EmptyFile THEN "panic" ELSE "error")
     /\ UNCHANGED file

\* Mutant: the file is opened without truncating it.
OpenFile(p) ==
  /\ AtStep(p, "Truncate")
  /\ file' = [file EXCEPT ![Target(R(p))] = IF @ = NoFile THEN EmptyFile ELSE @]
  /\ Tries(p, TRUE, R(p), "error")

\* os.WriteFile empties the file, then writes it from its beginning.
Truncate(p) ==
  /\ AtStep(p, "Truncate")
  /\ file' = [file EXCEPT ![Target(R(p))] = EmptyFile]
  /\ Tries(p, TRUE, R(p), "error")

\* What another program has written in the meantime stays behind the content.
Write(p) ==
  LET content == Output(R(p))
  IN /\ AtStep(p, "Write")
     /\ file' = [file EXCEPT ![Target(R(p))] = IF @.len > content.len THEN Torn(@.len) ELSE content]
     /\ Tries(p, TRUE, R(p), "error")

-----------------------------------------------------------------------------
(* Events. *)

Happens(e) == e \in Event /\ events < MaxEvents /\ events' = events + 1

\* A call of the library fails for reasons of its own.
LibraryFails(p) ==
  LET how == [NewKey |-> "error", NewAESCTRHMAC |-> R(p).main.onError, Seal |-> "panic",
              Open |-> "error"]
  IN /\ Happens("LibraryFails")
     /\ cur[p] # 0 /\ Head(todo[p]) \in {"NewKey", "NewAESCTRHMAC", "Seal", "Open"}
     /\ Ends(p, R(p), how[Head(todo[p])])
     /\ UNCHANGED <<file, device>>

\* The disk is full: nothing is written, or a part.
WriteFails(p) ==
  /\ Happens("WriteFails")
  /\ AtStep(p, "Write")
  /\ \/ UNCHANGED file
     \/ file' = [file EXCEPT ![Target(R(p))] = Torn(IF @.len > 1 THEN @.len ELSE 1)]
  /\ Ends(p, R(p), "error")
  /\ UNCHANGED device

Kill(p) ==
  /\ Happens("Kill")
  /\ cur[p] # 0
  /\ Ends(p, R(p), "killed")
  /\ UNCHANGED <<file, device>>

ExtendPCR ==
  /\ Happens("ExtendPCR")
  /\ \E v \in PCRValue \ {device.pcr} : device' = [device EXCEPT !.pcr = v]
  /\ UNCHANGED <<file, runs, cur, todo>>

ChangeOwner ==
  /\ Happens("ChangeOwner")
  /\ \/ \E a \in Password \ {device.auth} : device' = [device EXCEPT !.auth = a]
     \/ device' = [device EXCEPT !.auth = NoPassword, !.seed = @ + 1]
  /\ UNCHANGED <<file, runs, cur, todo>>

Init ==
  /\ file = InitFile /\ device = InitDevice
  /\ runs = <<>> /\ events = 0
  /\ cur = [p \in Process |-> 0] /\ todo = [p \in Process |-> <<>>]

Step(p) ==
  \/ GetPCRMap(p) \/ NewKey(p) \/ ReadMessage(p) \/ ReadKeys(p) \/ NewAESCTRHMAC(p)
  \/ Seal(p) \/ Open(p) \/ Truncate(p) \/ Write(p)

Next ==
  \/ \E p \in Process : Start(p) \/ Step(p) \/ LibraryFails(p) \/ WriteFails(p) \/ Kill(p)
  \/ ExtendPCR \/ ChangeOwner

Spec == Init /\ [][Next]_vars

-----------------------------------------------------------------------------
(* Properties. *)

\* Types of the state.
StepName ==
  {"GetPCRMap", "NewKey", "ReadMessage", "ReadKeys", "NewAESCTRHMAC", "Seal", "Open",
   "Truncate", "Write"}

Run ==
  [main : Mains, flags : Flags, with : SUBSET Nat, since : Nat, until : Nat,
   exit : {"running", "ok", "error", "panic", "killed"},
   pair : {NoPair} \union KeyFile, message : Content, printed : Text \union {NoText}]

TypeOK ==
  /\ file \in [DOMAIN InitFile -> Content]
  /\ runs \in Seq(Run)
  /\ cur \in [Process -> Nat] /\ todo \in [Process -> Seq(StepName)]
  /\ device \in Device /\ events \in Nat
  /\ \A p \in Process : cur[p] \in 0..Len(runs) /\ (cur[p] # 0 <=> todo[p] # <<>>)
  /\ \A n \in DOMAIN runs : runs[n].exit = "running" <=> n \in Running

Decrypts(r) == ~Writes(r)
Encrypts(r) == Writes(r) /\ ~MakesKeys(r)

\* Nothing but decrypting happened from the start of run m to the end of n.
NextTo(m, n) ==
  /\ m < n /\ m \notin runs[n].with
  /\ \A k \in (m + 1)..(n - 1) \union runs[m].with \union runs[n].with : Decrypts(runs[k])
InARow(m, n) == NextTo(m, n) /\ runs[m].since = runs[n].until

SameCommandLine(m, n) ==
  runs[m].main.session = runs[n].main.session /\ runs[m].flags = runs[n].flags

Succeeded(n) == runs[n].exit = "ok"

\* "To use run" newkey, encrypt and decrypt: if newkey says it has succeeded,
\* the PCRs are as its flag says, and the text fits one command or there is no
\* policy, encrypt succeeds; if encrypt has, decrypt prints the text; for all
\* other flags, and whatever state programs that failed or were killed had left
\* the files in.
ThreeCommandsWork ==
  \A m, n \in DOMAIN runs :
    InARow(m, n) /\ SameCommandLine(m, n) /\ Succeeded(m) /\ runs[n].exit # "running" =>
      /\ MakesKeys(runs[m]) /\ Encrypts(runs[n]) /\ runs[n].main # test_vector
           /\ PCRs(runs[n]) \in {"any", device.pcr} /\ events = runs[n].until
           /\ Fits(runs[n], runs[n].flags.text) => Succeeded(n)
      /\ Encrypts(runs[m]) /\ runs[m].main # test_vector /\ Decrypts(runs[n]) =>
           Succeeded(n) /\ runs[n].printed = runs[m].flags.text

\* A message whose program has succeeded is on file together with its keys,
\* unless newkey was run on the key file since, or while, it was encrypted:
\* nothing else makes it unreadable, as far as the files go.
OnlyNewKeyStrands ==
  \A n \in DOMAIN runs :
    LET r == runs[n]
    IN Encrypts(r) /\ Succeeded(n) /\ file[r.flags.message] = r.message =>
         \/ file[r.flags.key] = r.pair
         \/ \E k \in r.with \union (n + 1)..Len(runs) :
              MakesKeys(runs[k]) /\ runs[k].flags.key = r.flags.key

\* What a program prints was sealed, with the same keys and additional data,
\* by a program whose text it is, however the files were overwritten.
OnlySealedPrinted ==
  \A n \in DOMAIN runs : runs[n].printed # NoText =>
    \E m \in DOMAIN runs :
      /\ Encrypts(runs[m]) /\ runs[m].message = runs[n].message
      /\ runs[m].pair.id = runs[n].pair.id
      /\ runs[m].flags.aad = runs[n].flags.aad /\ runs[m].flags.text = runs[n].printed

\* The end of run k left its file unfinished, or may have.
Unfinished(k) == Writes(runs[k]) /\ runs[k].exit \in {"running", "killed", "error"}

\* A file is other than what one program meant to write only after that program
\* failed or was killed, or while two wrote it at the same time.
WholeFiles ==
  \A f \in DOMAIN file : file[f].kind \in {"empty", "torn"} =>
    \E k \in DOMAIN runs :
      /\ Writes(runs[k]) /\ Target(runs[k]) = f
      /\ \/ Unfinished(k)
         \/ \E j \in runs[k].with : Writes(runs[j]) /\ Target(runs[j]) = f

\* Splitting the file at the nonce's length panics on nothing that a program
\* wrote and finished: decrypt panics there only beside or after one that did
\* not, or when the library is to blame.
PanicsOnlyOnUnfinished ==
  \A n \in DOMAIN runs :
    Decrypts(runs[n]) /\ runs[n].exit = "panic" /\ runs[n].since = runs[n].until =>
      \E k \in (1..(n - 1)) \union runs[n].with :
        /\ Writes(runs[k]) /\ Target(runs[k]) = runs[n].flags.message
        /\ k \in runs[n].with \/ Unfinished(k)

-----------------------------------------------------------------------------
(* The inductive invariant behind these properties.                        *)

Ahead(p, step) == \E i \in 1..Len(todo[p]) : todo[p][i] = step

\* Run n has the step ahead, or it has taken the step, if the step is its own, and
\* has not gone wrong.
Pending(n, step) == \E p \in Process : cur[p] = n /\ Ahead(p, step)
Passed(n, step) == runs[n].exit \in {"running", "ok"} /\ ~Pending(n, step)

AtWrite(n) == \E p \in Process : cur[p] = n /\ AtStep(p, "Write")

\* Each shell runs a program of its own, and works off its steps.
InOrder ==
  /\ \A p, q \in Process : cur[p] = cur[q] /\ cur[p] # 0 => p = q
  /\ \A p \in Process : cur[p] # 0 =>
       LET steps == R(p).main.steps
       IN \E i \in 1..Len(steps) : todo[p] = SubSeq(steps, i, Len(steps))

\* Who ran beside whom, and when.
BesideOK(n) ==
  /\ runs[n].with \subseteq DOMAIN runs \ {n}
  /\ \A m \in runs[n].with : n \in runs[m].with
  /\ \A m \in Running : m < n => m \in runs[n].with
  /\ runs[n].since <= runs[n].until /\ runs[n].until <= events

\* The keys a run has got hold of, ...
PairOK(n) ==
  LET r == runs[n]
  IN /\ Passed(n, IF MakesKeys(r) THEN "NewKey" ELSE "ReadKeys") => r.pair # NoPair
     /\ MakesKeys(r) /\ r.pair # NoPair =>
          /\ r.pair.session = r.main.session /\ r.pair.pcrs = PCRs(r) /\ r.pair.auth = KeyPass(r)
          /\ r.since = events => ParentPass(r) = device.auth /\ r.pair.seed = device.seed

SealedBy(n, content) == Encrypts(runs[n]) /\ runs[n].message = content
Origin(content) == content.kind = "message" => \E m \in DOMAIN runs : SealedBy(m, content)

\* ... the message it has sealed, ...
SealedOK(n) ==
  LET r == runs[n]
  IN /\ Passed(n, "Seal") => r.message # NoFile
     /\ r.message # NoFile =>
          /\ ~Pending(n, "Seal") /\ r.pair # NoPair
          /\ r.message = [kind |-> "message", len |-> r.flags.text.len, pair |-> r.pair.id,
                          aad |-> r.flags.aad, text |-> r.flags.text]
          /\ Fits(r, r.flags.text)
          /\ r.since = events => Usable(r)

\* ... or read, perhaps while another run was writing it or after it had given up, ...
ReadOK(n) ==
  LET r == runs[n]
  IN /\ Origin(r.message)
     /\ r.message.kind = "empty" =>
          \E k \in (1..(n - 1)) \union r.with :
            /\ Writes(runs[k]) /\ Target(runs[k]) = r.flags.message
            /\ k \in r.with \/ runs[k].exit \in {"killed", "error"}
     /\ r.exit = "panic" /\ r.since = r.until => r.message.kind = "empty"

\* ... and what it has made of it.
PrintedOK(n) ==
  LET r == runs[n]
  IN /\ r.printed # NoText =>
          /\ r.exit = "ok" /\ r.message.kind = "message" /\ r.printed = r.message.text
          /\ r.message.pair = r.pair.id /\ r.message.aad = r.flags.aad
     /\ "pcrs" \in r.main.has /\ Passed(n, "GetPCRMap") => r.flags.pcrs \in PCRValue

RunOK(n) ==
  /\ BesideOK(n) /\ PairOK(n) /\ PrintedOK(n)
  /\ MakesKeys(runs[n]) => runs[n].message = NoFile
  /\ Encrypts(runs[n]) => SealedOK(n)
  /\ Decrypts(runs[n]) => ReadOK(n)

\* A file is empty or torn because of a run that is about to write it, has given up,
\* or, if it is torn, was not alone in writing it.
WritesTo(k, f) == Writes(runs[k]) /\ Target(runs[k]) = f
GivenUp(k) == runs[k].exit \in {"killed", "error"} \/ AtWrite(k)

FileOK(f) ==
  /\ Origin(file[f])
  /\ file[f].kind \in {"empty", "torn"} =>
       \E k \in DOMAIN runs :
         /\ WritesTo(k, f)
         /\ \/ GivenUp(k)
            \/ file[f].kind = "torn" /\ \E j \in runs[k].with : WritesTo(j, f)

\* The file of the last run that wrote it, or is about to, if that was alone.
Last(n) ==
  \A k \in runs[n].with \union (n + 1)..Len(runs) : ~WritesTo(k, Target(runs[n]))

WrittenOK(n) ==
  Writes(runs[n]) /\ Last(n) =>
    /\ AtWrite(n) => file[Target(runs[n])] = EmptyFile
    /\ Passed(n, "Write") => file[Target(runs[n])] = Output(runs[n])

\* Nobody gives the same name to keys and to a message.
FilesApart == \A f, g \in Flags : f.key # g.message

\* The keys a message was encrypted with stay on file until newkey is run.
KeysKept(n) ==
  Encrypts(runs[n]) /\ runs[n].pair # NoPair =>
    \/ file[runs[n].flags.key] = runs[n].pair
    \/ \E k \in runs[n].with \union (n + 1)..Len(runs) :
         MakesKeys(runs[k]) /\ runs[k].flags.key = runs[n].flags.key

\* What run n, still going on, has from run m, which it follows.
Follows(m, n) ==
  /\ NextTo(m, n) /\ SameCommandLine(m, n) /\ Succeeded(m)
  /\ runs[n].exit = "running" /\ runs[m].since = events

HandedOn(m, n) ==
  Follows(m, n) =>
    /\ MakesKeys(runs[m]) /\ Encrypts(runs[n]) /\ Passed(n, "ReadKeys") => runs[n].pair = runs[m].pair
    /\ Encrypts(runs[m]) /\ runs[m].main # test_vector /\ Decrypts(runs[n]) =>
         /\ Passed(n, "ReadMessage") => runs[n].message = runs[m].message
         /\ Passed(n, "ReadKeys") => runs[n].pair = runs[m].pair

\* What the programs rely on from step to step: types, where each run is in its
\* program and what it has got hold of, what each file holds and because of whom,
\* and what one run hands on to the next.
IInv ==
  /\ TypeOK /\ InOrder
  /\ \A n \in DOMAIN runs : RunOK(n) /\ WrittenOK(n)
  /\ \A f \in DOMAIN file : FileOK(f)
  /\ FilesApart =>
       /\ ThreeCommandsWork
       /\ \A n \in DOMAIN runs : KeysKept(n)
       /\ \A m, n \in DOMAIN runs : HandedOn(m, n)
=============================================================================
