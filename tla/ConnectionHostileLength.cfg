\* A hostile peer writes one header-sized chunk with any length field,
\* with or without the magic, and up to one content byte; a two-digit
\* field and an 8-bit size_t (max_size 127, above the 99 two digits hold).
CONSTANTS
  Magic <- MCMagic
  LengthDigits = 2
  SizeWidth = 8
  Peer = "hostile"
  ContentChars = {"/"}
  MaxContent = 1
  MaxSends = 1
SPECIFICATION Spec
INVARIANT ServerSurvivesAnyHeader
\* The server waits for bytes the peer never sends.
CHECK_DEADLOCK FALSE
