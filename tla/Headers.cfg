CONSTANTS
  Size = 512
  MAXHASHTABLELEN = 1024
  Hash <- ShippedHash
  Lines <- SomeLines
  MaxLines = 3
SPECIFICATION Spec
INVARIANTS TypeOK LookupFinds FieldsRight
CHECK_DEADLOCK FALSE
