----------------------------- MODULE MCExamples -----------------------------
(* Command lines, files and devices for the example programs. *)
EXTENDS Examples, TLC

CONSTANTS s1, s2

Shells == {s1, s2}
Symmetry == Permutations(Shells)

hello == [id |-> "hello", len |-> 1]
\* More than one EncryptDecrypt2 command takes.
longer == [id |-> "longer", len |-> maxDigestBuffer + 1]

Line(parentPass, keyPass, pcrs, aad, text) ==
  [key |-> "key.json", message |-> "encrypted.bin", parentPass |-> parentPass,
   keyPass |-> keyPass, pcrs |-> pcrs, aad |-> aad, text |-> text]

\* Two users with different passwords and PCR values; the text of one fits one
\* command, that of the other is for the programs without a policy.
CommandLines ==
  {Line("nopass", "foo", "v1", "user", hello),
   Line("nopass", "bar", "v2", "other", longer)}

NoFiles == [f \in {"key.json", "encrypted.bin"} |-> NoFile]
\* The keys imported for the test vector, given to it as its key file.
vectorKeys ==
  [kind |-> "keys", len |-> 1, id |-> 0, seed |-> 0, session |-> "pcr_authvalue",
   pcrs |-> "v1", auth |-> "foo"]
WithVector == [NoFiles EXCEPT !["key.json"] = vectorKeys]
OwnersDevice == [seed |-> 0, auth |-> "nopass", pcr |-> "v1"]

Values == {"v1", "v2"}
Passwords == {"nopass", "foo"}

NoPolicy == {no_policy_newkey, no_policy_encrypt, no_policy_decrypt}
AuthValue == {policy_auth_value_newkey, policy_auth_value_encrypt, policy_auth_value_decrypt}
PCR == {policy_pcr_newkey, policy_pcr_encrypt, policy_pcr_decrypt}
PCRAuthValue ==
  {policy_pcr_auth_value_newkey, policy_pcr_auth_value_encrypt, policy_pcr_auth_value_decrypt}
TestVector == {policy_pcr_auth_value_newkey, test_vector, policy_pcr_auth_value_decrypt}
Suites == {NoPolicy, AuthValue, PCR, PCRAuthValue, TestVector}
=============================================================================
