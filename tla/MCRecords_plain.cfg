CONSTANTS
  Customers = {"ann", "bob"}
  Categories = {"fraud"}
  Periods = {"may", "june"}
  Cases = {"k1", "k2"}
  Holds <- MCHolds
  Writers = {"w1", "w2"}
  Erasers = {"e1"}
  MaxKeys = 2
  Attachments = {"a1", "a2"}
  Verdicts = {"clean", "infected"}
  Scanners = {"s1", "s2"}
  Readers = {"r1"}
  EvidenceKeys = {"receipt", "avs"}
  RequiredKeys = {"receipt", "avs"}
  Advocates = {"p1", "p2"}
  MaxAttached = 4
SPECIFICATION MCSpec
INVARIANTS
  ShreddedIsUnrecoverable
CHECK_DEADLOCK FALSE
