------------------------------- MODULE Codec -------------------------------
(***************************************************************************)
(* The ABI codec (std-evm-abi, codec.rs): a list of arguments is encoded   *)
(* one component at a time into a head and a tail; the bytes reach a       *)
(* contract as they are, cut short, or with a wrong byte, since anyone can *)
(* call it with anything; and the argument list is decoded one head slot   *)
(* at a time.  Widths are parameters: the code has words of 32 bytes of    *)
(* 256 values and the usize of its target.                                 *)
(***************************************************************************)
EXTENDS Integers, Sequences, FiniteSets

CONSTANTS
  WordBytes,   \* bytes of a word: 32
  UsizeBytes,  \* size_of::<usize>()
  IntBytes,    \* the size of the integer types
  ByteBase,    \* values of a byte: 256
  Arguments,   \* the arguments encoded, [type |-> ..., value |-> ...]
  BadBytes,    \* bytes that are in no UTF-8 text
  Wrong,       \* what a wrong byte may be
  MaxArgs      \* bound on the arguments: 8, the tuples with an impl

ASSUME WidthsAssumption ==
  /\ ByteBase \in Nat \ {0, 1} /\ IntBytes \in Nat \ {0} /\ UsizeBytes \in Nat \ {0}
  /\ WordBytes \in Nat /\ IntBytes <= WordBytes /\ UsizeBytes < WordBytes
ASSUME BytesAssumption == Wrong \subseteq 0 .. ByteBase - 1 /\ MaxArgs \in Nat \ {0}
\* The provers know nothing of ^.
ASSUME PowersAssumption ==
  /\ ByteBase ^ 0 = 1
  /\ \A k \in 0 .. WordBytes :
       ByteBase ^ k \in Nat \ {0} /\ ByteBase ^ (k + 1) = ByteBase * ByteBase ^ k

VARIABLES
  args,     \* the argument list
  turn,     \* the argument the encoder or the decoder is at
  head,
  tail,
  input,    \* the bytes to decode
  harm,     \* what became of the bytes: "none", "cut" or "wrong"
  stage,    \* "encoding", "sent", "decoding", "decoded" or what failed
  decoded   \* the arguments decoded

abivars == <<args, turn, head, tail, input, harm, stage, decoded>>

UsizeMax == ByteBase ^ UsizeBytes - 1

-----------------------------------------------------------------------------
(* Words. *)

Digits(n, width) == [i \in 1 .. width |-> (n \div ByteBase ^ (width - i)) % ByteBase]
Number(digits) ==
  LET N[i \in 0 .. Len(digits)] == IF i = 0 THEN 0 ELSE N[i - 1] * ByteBase + digits[i]
  IN  N[Len(digits)]

Fill(byte, width) == [i \in 1 .. width |-> byte]

\* word_from_u128 and word_from_i128, of an integer of IntBytes bytes.
word_from_unsigned(n) == Digits(n, WordBytes)
word_from_signed(n) ==
  Fill(IF n < 0 THEN ByteBase - 1 ELSE 0, WordBytes - IntBytes) \o
  Digits(IF n < 0 THEN n + ByteBase ^ IntBytes ELSE n, IntBytes)

\* from_be_bytes of the low bytes of a word.
Low(word) == SubSeq(word, WordBytes - IntBytes + 1, WordBytes)
Signed(n) == IF 2 * n >= ByteBase ^ IntBytes THEN n - ByteBase ^ IntBytes ELSE n

-----------------------------------------------------------------------------
(* Encoding. *)

encode_bytes(data) ==
  word_from_unsigned(Len(data)) \o data \o
  Fill(0, (WordBytes - (Len(data) % WordBytes)) % WordBytes)

Dynamic(arg) == arg.type \in {"bytes", "string"}

\* to_component.
Bytes(arg) ==
  CASE arg.type = "uint" -> word_from_unsigned(arg.value)
    [] arg.type = "int"  -> word_from_signed(arg.value)
    [] arg.type = "bool" -> word_from_unsigned(IF arg.value THEN 1 ELSE 0)
    [] arg.type = "word" -> arg.value
    [] Dynamic(arg)      -> encode_bytes(arg.value)

\* The values a type of the code has.
Typed(arg) ==
  /\ arg = [type |-> arg.type, value |-> arg.value]
  /\ \/ arg.type = "uint" /\ arg.value \in 0 .. ByteBase ^ IntBytes - 1
     \/ /\ arg.type = "int" /\ arg.value \in Int
        /\ -(ByteBase ^ IntBytes) <= 2 * arg.value /\ 2 * arg.value < ByteBase ^ IntBytes
     \/ arg.type = "bool" /\ arg.value \in BOOLEAN
     \/ arg.type = "word" /\ arg.value \in [1 .. WordBytes -> 0 .. ByteBase - 1]
     \/ arg.type = "bytes" /\ arg.value \in Seq(0 .. ByteBase - 1)
     \/ arg.type = "string" /\ arg.value \in Seq((0 .. ByteBase - 1) \ BadBytes)

\* An encoding is in memory whole, so that a usize counts its bytes: no argument
\* takes more than its share.
ASSUME ArgumentsAssumption ==
  \A arg \in Arguments :
    Typed(arg) /\ WordBytes + Len(Bytes(arg)) <= UsizeMax \div MaxArgs

head_size == WordBytes * Len(args)

\* A fault: an offset from the start of the tail.
Place_FromTail(arg) ==
  \/ /\ Dynamic(arg)
     /\ head' = head \o word_from_unsigned(Len(tail))
     /\ tail' = tail \o Bytes(arg)
  \/ ~Dynamic(arg) /\ head' = head \o Bytes(arg) /\ UNCHANGED tail

\* One turn of encode_tuple's loop.
Place(arg) ==
  \/ /\ Dynamic(arg)
     /\ head' = head \o word_from_unsigned(head_size + Len(tail))
     /\ tail' = tail \o Bytes(arg)
  \/ ~Dynamic(arg) /\ head' = head \o Bytes(arg) /\ UNCHANGED tail

AInit ==
  /\ \E n \in 0 .. MaxArgs : args \in [1 .. n -> Arguments]
  /\ turn = 1 /\ head = <<>> /\ tail = <<>> /\ input = <<>>
  /\ harm = "none" /\ stage = "encoding" /\ decoded = <<>>

EncodeNext ==
  /\ stage = "encoding" /\ turn <= Len(args)
  /\ Place(args[turn])
  /\ turn' = turn + 1
  /\ UNCHANGED <<args, input, harm, stage, decoded>>

Encoded ==
  /\ stage = "encoding" /\ turn > Len(args)
  /\ input' = head \o tail
  /\ stage' = "sent"
  /\ UNCHANGED <<args, turn, head, tail, harm, decoded>>

Deliver(bytes, what) ==
  /\ stage = "sent"
  /\ input' = bytes /\ harm' = what
  /\ stage' = "decoding" /\ turn' = 1
  /\ UNCHANGED <<args, head, tail, decoded>>

-----------------------------------------------------------------------------
(* Decoding. *)

Ok(value)  == [kind |-> "Ok", value |-> value]
Err(e)     == [kind |-> e, value |-> 0]
Failed(r)  == r.kind # "Ok"

\* &input[start..end], which panics out of bounds.
Slice(start, end) ==
  IF start <= end /\ end <= Len(input) THEN Ok(SubSeq(input, start + 1, end)) ELSE Err("Panic")

read_word(offset) ==
  IF offset + WordBytes > UsizeMax THEN Err("Overflow")
  ELSE IF offset + WordBytes > Len(input) THEN Err("Truncated")
  ELSE Slice(offset, offset + WordBytes)

read_usize(offset) ==
  LET word == read_word(offset)
      high == SubSeq(word.value, 1, WordBytes - UsizeBytes)
      low  == SubSeq(word.value, WordBytes - UsizeBytes + 1, WordBytes)
  IN  IF Failed(word) THEN word
      ELSE IF \E i \in DOMAIN high : high[i] # 0 THEN Err("Overflow")
      ELSE Ok(Number(low))

\* A fault: additions that wrap.
decode_bytes_Wrapping(offset) ==
  LET ptr   == read_usize(offset)
      len   == read_usize(ptr.value)
      start == ptr.value + WordBytes
      end   == (start + len.value) % (UsizeMax + 1)
  IN  IF Failed(ptr) THEN ptr
      ELSE IF Failed(len) THEN len
      ELSE IF end > Len(input) THEN Err("Truncated")
      ELSE Slice(start, end)

decode_bytes(offset) ==
  LET ptr   == read_usize(offset)
      len   == read_usize(ptr.value)
      start == ptr.value + WordBytes
      end   == start + len.value
  IN  IF Failed(ptr) THEN ptr
      ELSE IF Failed(len) THEN len
      ELSE IF start > UsizeMax \/ end > UsizeMax THEN Err("Overflow")
      ELSE IF end > Len(input) THEN Err("Truncated")
      ELSE Slice(start, end)

from_utf8(bytes) ==
  IF \E i \in DOMAIN bytes : bytes[i] \in BadBytes THEN Err("InvalidUtf8") ELSE Ok(bytes)

OfWord(type, word) ==
  CASE type = "uint" -> Number(Low(word))
    [] type = "int"  -> Signed(Number(Low(word)))
    [] type = "bool" -> \E i \in DOMAIN word : word[i] # 0
    [] type = "word" -> word

decode(type, offset) ==
  LET word  == read_word(offset)
      bytes == decode_bytes(offset)
  IN  CASE type = "bytes"  -> bytes
        [] type = "string" -> IF Failed(bytes) THEN bytes ELSE from_utf8(bytes.value)
        [] OTHER           -> IF Failed(word) THEN word ELSE Ok(OfWord(type, word.value))

\* decode_args: the i-th argument's head slot is at 32 * i, from zero.
DecodeNext ==
  /\ stage = "decoding" /\ turn <= Len(args)
  /\ LET result == decode(args[turn].type, WordBytes * (turn - 1))
     IN  \/ Failed(result) /\ stage' = result.kind /\ UNCHANGED <<turn, decoded>>
         \/ /\ ~Failed(result)
            /\ decoded' = Append(decoded, [type |-> args[turn].type, value |-> result.value])
            /\ turn' = turn + 1
            /\ UNCHANGED stage
  /\ UNCHANGED <<args, head, tail, input, harm>>

Decoded ==
  /\ stage = "decoding" /\ turn > Len(args)
  /\ stage' = "decoded"
  /\ UNCHANGED <<args, turn, head, tail, input, harm, decoded>>

-----------------------------------------------------------------------------
(***************************************************************************)
(* Revert data (revert.rs) and its reader in the test harness (outcome.rs, *)
(* revert_reason), which has bounds checks of its own.  A payload is a     *)
(* selector and the encoding of one argument.                              *)
(***************************************************************************)
Reverts == Len(args) = 1 /\ args[1].type \in {"string", "uint"}

\* encode_error of a reason, encode_panic of a code.
Payload ==
  [selector |-> IF args[1].type = "string" THEN "Error" ELSE "Panic", body |-> input]

get(bytes, start, end) ==
  IF start <= end /\ end <= Len(bytes) THEN Ok(SubSeq(bytes, start + 1, end)) ELSE Err("None")

\* usize::try_from of the word at an offset.  An addition overflows, which in a
\* build that checks for it is a panic.
usize_at(bytes, offset) ==
  LET word == get(bytes, offset, offset + WordBytes)
  IN  IF offset + WordBytes > UsizeMax THEN Err("Panic")
      ELSE IF Failed(word) THEN word
      ELSE IF Number(word.value) > UsizeMax THEN Err("None")
      ELSE Ok(Number(word.value))

\* A fault: the length read as part of the text.
revert_reason_NoLength(output) ==
  LET offset == usize_at(output.body, 0)
      len    == usize_at(output.body, offset.value)
      bytes  == get(output.body, offset.value, offset.value + len.value)
  IN  IF output.selector # "Error" THEN Err("None")
      ELSE IF Failed(offset) THEN offset
      ELSE IF Failed(len) THEN len
      ELSE IF Failed(bytes) THEN bytes
      ELSE from_utf8(bytes.value)

revert_reason(output) ==
  LET offset == usize_at(output.body, 0)
      len    == usize_at(output.body, offset.value)
      start  == offset.value + WordBytes
      bytes  == get(output.body, start, start + len.value)
  IN  IF output.selector # "Error" THEN Err("None")
      ELSE IF Failed(offset) THEN offset
      ELSE IF Failed(len) THEN len
      ELSE IF start + len.value > UsizeMax THEN Err("Panic")
      ELSE IF Failed(bytes) THEN bytes
      ELSE from_utf8(bytes.value)

-----------------------------------------------------------------------------
ANext ==
  \/ EncodeNext
  \/ Encoded
  \/ Deliver(input, "none")
  \/ \E n \in 0 .. Len(input) - 1 : Deliver(SubSeq(input, 1, n), "cut")
  \/ \E i \in DOMAIN input, byte \in Wrong : Deliver([input EXCEPT ![i] = byte], "wrong")
  \/ DecodeNext
  \/ Decoded

ASpec == AInit /\ [][ANext]_abivars

-----------------------------------------------------------------------------
(* Properties. *)

(***************************************************************************)
(* codec.rs, encode_tuple and decode_args: what was written is read back,  *)
(* all of it when all of it arrived; and of an encoding that was cut short *)
(* nothing is read that was not written: a value is right or an error.     *)
(***************************************************************************)
ReadsWhatWasWritten ==
  harm \in {"none", "cut"} =>
    /\ \A i \in DOMAIN decoded : decoded[i] = args[i]
    /\ harm = "none" => stage \in {"encoding", "sent", "decoding", "decoded"}

(***************************************************************************)
(* codec.rs, decode_bytes and read_word: whatever the offsets and lengths  *)
(* in the input are, its slices stay in bounds: wrong calldata is an error *)
(* and never a panic.                                                      *)
(***************************************************************************)
NeverPanics == stage # "Panic"

(***************************************************************************)
(* revert.rs and outcome.rs, revert_reason: the reason a contract reverted *)
(* with is the reason a test reads; of a payload cut short, the reason or  *)
(* none; and only bytes no encoder wrote make an offset overflow.          *)
(***************************************************************************)
ReasonReadBack ==
  (Reverts /\ stage = "decoding" /\ turn = 1) =>
    LET reason == revert_reason(Payload)
    IN  /\ reason.kind = "Ok" /\ harm # "wrong" =>
             args[1].type = "string" /\ reason.value = args[1].value
        /\ args[1].type = "string" /\ harm = "none" => reason.kind = "Ok"
        /\ reason.kind = "Panic" => harm = "wrong"
=============================================================================
