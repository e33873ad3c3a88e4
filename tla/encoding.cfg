\* One message sealed, any message opened.
SPECIFICATION Spec
CONSTANT Message <- Messages
INVARIANTS EncodingInjective CiphertextAligned
