----------------------------- MODULE FrameCodec -----------------------------
(***************************************************************************)
(* The wire framing of micro_tcp (struct message, message.cpp/.hpp).       *)
(*                                                                         *)
(* A frame is a header -- the magic bytes followed by the content length   *)
(* written in decimal by operator<< into a field of setw(LengthDigits)     *)
(* characters -- and then the content bytes.  The reader takes exactly     *)
(* HeaderLength bytes and parses the length back with operator>> into a    *)
(* std::size_t of SizeWidth bits.  Bytes are modelled as one-character     *)
(* strings: the ten digits, the space, the signs, the magic's characters   *)
(* and Other, which stands for every other byte value (NUL included).      *)
(* Content bytes are kept because a misframed reader parses them as a      *)
(* header.                                                                  *)
(***************************************************************************)
EXTENDS Naturals, Sequences

CONSTANTS
  Magic,         \* message::magic_numbers_ (18 bytes in the code)
  LengthDigits,  \* message::content_length_digits10_ (10 in the code)
  SizeWidth      \* bits of std::size_t (64 in the code)

Digit == <<"0", "1", "2", "3", "4", "5", "6", "7", "8", "9">>
Digits == {Digit[i] : i \in 1..10}
Other == "/"
Chars == Digits \cup {" ", "-", "+", Other} \cup {Magic[i] : i \in 1..Len(Magic)}

ASSUME MagicAssumption ==
  /\ Magic \in Seq(STRING) /\ Len(Magic) > 0
  /\ \A i \in 1..Len(Magic) : Magic[i] \notin Digits \cup {" ", "-", "+", Other}
ASSUME LengthDigitsAssumption == LengthDigits \in Nat \ {0}
\* A full length field fits into a vector's max_size (PTRDIFF_MAX), as
\* 10^10 < 2^63 does in the code; so operator>> never overflows on digits.
ASSUME SizeWidthAssumption ==
  SizeWidth \in Nat \ {0} /\ 10^LengthDigits <= 2^(SizeWidth - 1)

\* std::vector<char>::max_size(): resize beyond it throws std::length_error.
MaxVectorSize == 2^(SizeWidth - 1) - 1

DigitValue(c) == CHOOSE d \in 0..9 : Digit[d + 1] = c

-----------------------------------------------------------------------------
(***************************************************************************)
(* Encoding: message::prepare_header_buffer_write.                          *)
(***************************************************************************)

\* message::default_header_length()
HeaderLength == Len(Magic) + LengthDigits

\* The characters operator<< writes for a std::size_t n.
Decimal(n) ==
  LET k == CHOOSE k \in 1..(n + 1) : n < 10^k /\ (k = 1 \/ 10^(k - 1) <= n)
  IN  [i \in 1..k |-> Digit[((n \div 10^(k - i)) % 10) + 1]]

\* std::setw(w) with the default fill and adjustment: left-padded with
\* spaces to at least w characters, never truncated.
Padded(s, w) == [i \in 1..(w - Len(s)) |-> " "] \o s

\* Variant with std::setw(LengthDigits - 1): the field is one short.
HeaderForShortField(size) == Magic \o Padded(Decimal(size), LengthDigits - 1)

\* The header for a content of `size` bytes: the magic, then the length.
HeaderFor(size) == Magic \o Padded(Decimal(size), LengthDigits)

-----------------------------------------------------------------------------
(***************************************************************************)
(* Decoding: message::get_header_buffer_content_length.  The bytes after   *)
(* the magic go into a stringstream (the setw there only pads the first    *)
(* character with spaces, which operator>> skips) and operator>> reads a  *)
(* std::size_t the way num_get does: skip white space, an optional sign,   *)
(* the longest run of digits; no digit is a failure and stores 0; a '-'    *)
(* negates the value modulo 2^SizeWidth.  The magic is not looked at.      *)
(***************************************************************************)

\* Index of the first character of s that is not a space (Len(s)+1 if none).
FirstNonSpace(s) ==
  LET I == {i \in 1..Len(s) : s[i] # " "}
  IN  IF I = {} THEN Len(s) + 1 ELSE CHOOSE i \in I : \A j \in I : i <= j

\* Last index of the run of digits of s that starts at i (i - 1 if none).
DigitRunEnd(s, i) ==
  LET J == {j \in i..Len(s) : \A m \in i..j : s[m] \in Digits}
  IN  IF J = {} THEN i - 1 ELSE CHOOSE j \in J : \A m \in J : m <= j

\* The number the digits s[i..j] stand for.
DigitsValue(s, i, j) ==
  LET v[m \in (i - 1)..j] ==
        IF m = i - 1 THEN 0 ELSE 10 * v[m - 1] + DigitValue(s[m])
  IN  v[j]

\* Variant that keeps std::noskipws on the stream: a padded field fails.
ParseUnsignedNoSkipws(s) ==
  LET e == DigitRunEnd(s, 1)
  IN  IF e < 1 THEN 0 ELSE DigitsValue(s, 1, e)

\* Variant that leaves the value unset on failure (C++98 num_get): the
\* uninitialized content_length happens to hold the field's size.
ParseUnsignedKeepsGarbage(s) ==
  LET i == FirstNonSpace(s)
      sign == i <= Len(s) /\ s[i] \in {"-", "+"}
      d == IF sign THEN i + 1 ELSE i
      e == DigitRunEnd(s, d)
  IN  IF e < d THEN Len(s)
      ELSE IF s[i] = "-" THEN (2^SizeWidth - DigitsValue(s, d, e)) % 2^SizeWidth
      ELSE DigitsValue(s, d, e)

\* content_length_buffer >> content_length, for a std::size_t.
ParseUnsigned(s) ==
  LET i == FirstNonSpace(s)
      sign == i <= Len(s) /\ s[i] \in {"-", "+"}
      d == IF sign THEN i + 1 ELSE i
      e == DigitRunEnd(s, d)
  IN  IF e < d THEN 0
      ELSE IF s[i] = "-" THEN (2^SizeWidth - DigitsValue(s, d, e)) % 2^SizeWidth
      ELSE DigitsValue(s, d, e)

\* message::get_header_buffer_content_length(): 0 for a header of the
\* wrong size, else the parsed field after the magic.
ContentLength(h) ==
  IF Len(h) # HeaderLength THEN 0
  ELSE ParseUnsigned(SubSeq(h, Len(Magic) + 1, Len(h)))

-----------------------------------------------------------------------------
(***************************************************************************)
(* The buffer operations of struct message, on a record                    *)
(* [header |-> header_buffer_, content |-> content_buffer_].                *)
(***************************************************************************)

Message == [header : Seq(Chars), content : Seq(Chars)]

\* Variant that sizes the header buffer one byte too long.
PrepareHeaderReadLong(m) ==
  [m EXCEPT !.header = [i \in 1..(HeaderLength + 1) |-> Other]]

\* clear_header_buffer(); resize(default_header_length()): value-initialized
\* (NUL) bytes.
PrepareHeaderRead(m) == [m EXCEPT !.header = [i \in 1..HeaderLength |-> Other]]

\* message::message(): empty buffers, then prepare_header_buffer_read().
NewMessage == PrepareHeaderRead([header |-> <<>>, content |-> <<>>])

\* message::prepare_header_buffer_write()
PrepareHeaderWrite(m) == [m EXCEPT !.header = HeaderFor(Len(m.content))]

\* message::prepare_content_buffer_write(): re-derive a stale header.
PrepareContentWrite(m) ==
  IF Len(m.content) # ContentLength(m.header) THEN PrepareHeaderWrite(m) ELSE m

\* The length prepare_content_buffer_read() resizes the content to.
ReadLength(m) == ContentLength(m.header)

\* message::prepare_content_buffer_read(): clear, then resize to the parsed
\* length (callers check ReadLength against MaxVectorSize first: beyond it
\* resize throws).
PrepareContentRead(m) == [m EXCEPT !.content = [i \in 1..ReadLength(m) |-> Other]]

\* message::clear(): both buffers emptied (clear and shrink_to_fit).
Clear(m) == [header |-> <<>>, content |-> <<>>]

\* message::set_content_buffer(content).
SetContentBuffer(m, c) == PrepareHeaderWrite([m EXCEPT !.content = c])

\* message::message(content): a fresh message whose content is set.
MessageOf(c) == SetContentBuffer([header |-> <<>>, content |-> <<>>], c)

=============================================================================
