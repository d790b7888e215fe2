--------------------------------- MODULE Wire ---------------------------------
(***************************************************************************)
(* The encodings the publisher depends on, against what each is for: the   *)
(* length prefix of a frame, the preimage of an instance id and the chain  *)
(* id at the start of a client id.                                         *)
(*                                                                         *)
(* Widths are scaled down and keep their roles.  A frame header counts     *)
(* modulo HeaderMod instead of 2^32.  A u64 inside a preimage is one       *)
(* symbol, and so is a byte of transaction data, so that data can look     *)
(* like a field.  Client ids are written in base 2 and chain ids end at    *)
(* MaxChainId instead of 2^64 - 1.                                         *)
(*                                                                         *)
(* The state is an input under construction.  The three kinds of input     *)
(* have nothing to do with each other and grow one at a time.              *)
(***************************************************************************)
EXTENDS Integers, SequencesExt

CONSTANTS
  HeaderMod,         \* 2^32
  MaxMessageSize,    \* LengthPrefixCodec::max_message_size, on both sides
  MaxChainId,        \* u64::MAX
  Error,             \* the Err of a Result, or a frame that is skipped
  ChainId, Data,     \* chain ids and transaction data in requests
  MaxSize,           \* bound: bytes of a payload
  MaxItems,          \* bound: transaction requests, and transactions in each
  MaxChars           \* bound: characters of a client id

\* Nothing enforces it: the size is configured as a usize
ASSUME SizeFitsHeader == MaxMessageSize < HeaderMod

\* Integers and bytes are symbols of preimages; an error is none
ASSUME Widths == {HeaderMod, MaxMessageSize, MaxChainId} \subseteq Nat
ASSUME Symbols == ChainId \subseteq Nat /\ Data \subseteq Seq(Nat) /\ Error \notin Nat
ASSUME Bounds == {MaxSize, MaxItems, MaxChars} \subseteq Nat

VARIABLES size, request, client_id

wireVars == <<size, request, client_id>>

--------------------------------------------------------------------------------
\* Framing

TooLarge(n) == n > MaxMessageSize

\* encode, of a payload of n bytes
Encode_Unchecked(n) == [length |-> n % HeaderMod, body |-> n]
Encode(n) == IF TooLarge(n) THEN Error ELSE [length |-> n % HeaderMod, body |-> n]

\* decode_length
DecodeLength(length) == IF TooLarge(length) THEN Error ELSE length

\* handle_connection reads a frame: the length, then that many bytes.  Error: the
\* frame is skipped and the connection goes on with the next stream.
ReadFrame(frame) ==
  LET len == DecodeLength(frame.length) IN
  IF len = Error \/ len > frame.body THEN Error ELSE len

--------------------------------------------------------------------------------
\* Instance ids

\* What generate_instance_id hashes for one transaction; an empty one is skipped
TransactionPart_NoLength(data) == data
TransactionPart(data) == IF data = <<>> THEN <<>> ELSE <<Len(data)>> \o data

\* ... for the transactions of one chain
RequestPart(req) ==
  <<req.chain_id, Len(req.transactions)>>
    \o FlattenSeq([i \in DOMAIN req.transactions |-> TransactionPart(req.transactions[i])])

\* ... and for the instance
Preimage(period, seq, xt) ==
  <<period, seq>> \o FlattenSeq([i \in DOMAIN xt |-> RequestPart(xt[i])])

Requests == BoundedSeq([chain_id : ChainId, transactions : BoundedSeq(Data, MaxItems)],
                       MaxItems)

NoEmptyTransaction(xt) ==
  \A i \in DOMAIN xt : \A j \in DOMAIN xt[i].transactions : xt[i].transactions[j] # <<>>

--------------------------------------------------------------------------------
\* Chain ids

IsDigit(ch) == ch \in {"0", "1"}
Digit(ch) == IF ch = "1" THEN 1 ELSE 0

NumStr_AllDigits(chars) == SelectSeq(chars, IsDigit)

\* take_while(is_ascii_digit)
NumStr(chars) ==
  LET stop == SelectInSeq(chars, LAMBDA ch : ~IsDigit(ch)) IN
  IF stop = 0 THEN chars ELSE SubSeq(chars, 1, stop - 1)

\* parse::<u64>, which fails on overflow
ParseU64(digits) ==
  LET number[i \in 0..Len(digits)] ==
        IF i = 0 THEN 0
        ELSE LET n == number[i - 1]
                 next == 2 * n + Digit(digits[i]) IN
             IF n = Error \/ next > MaxChainId THEN Error ELSE next
  IN number[Len(digits)]

\* parse_chain_id
ParseChainId(chars) == IF NumStr(chars) = <<>> THEN Error ELSE ParseU64(NumStr(chars))

\* The digits of n, as ChainId is displayed
Digits(n) ==
  LET digits[m \in 0..n] ==
        IF m < 2 THEN <<IF m = 1 THEN "1" ELSE "0">>
        ELSE Append(digits[m \div 2], IF m % 2 = 1 THEN "1" ELSE "0")
  IN digits[n]

--------------------------------------------------------------------------------
WireInit ==
  /\ size = 0
  /\ request = <<>>
  /\ client_id = <<>>

LongerPayload ==
  /\ size < MaxSize /\ request = <<>> /\ client_id = <<>>
  /\ size' = size + 1
  /\ UNCHANGED <<request, client_id>>

MoreRequests(c) ==
  /\ Len(request) < MaxItems /\ size = 0 /\ client_id = <<>>
  /\ request' = Append(request, [chain_id |-> c, transactions |-> <<>>])
  /\ UNCHANGED <<size, client_id>>

MoreTransactions(data) ==
  /\ request # <<>>
  /\ Len(Last(request).transactions) < MaxItems
  /\ request' = [request EXCEPT ![Len(request)].transactions = Append(@, data)]
  /\ UNCHANGED <<size, client_id>>

LongerClientId(ch) ==
  /\ Len(client_id) < MaxChars /\ size = 0 /\ request = <<>>
  /\ client_id' = Append(client_id, ch)
  /\ UNCHANGED <<size, request>>

WireNext ==
  \/ LongerPayload
  \/ \E c \in ChainId : MoreRequests(c)
  \/ \E data \in Data : MoreTransactions(data)
  \/ \E ch \in {"0", "1", "-"} : LongerClientId(ch)

WireSpec == WireInit /\ [][WireNext]_wireVars

--------------------------------------------------------------------------------
\* Properties

\* A frame that encode produces is read back as the payload it was made from: the
\* cast of the length to u32 never cuts a payload short.
FrameIntact == Encode(size) # Error => ReadFrame(Encode(size)) = size

\* Two instances whose requests have no empty transaction hash different data,
\* whatever the period, the sequence number, the chains and the transactions, and
\* although data may look like lengths.
PreimageInjective ==
  LET preimage == Preimage(1, 1, request) IN
  NoEmptyTransaction(request) =>
    \A period, seq \in 1..2, other \in Requests :
      NoEmptyTransaction(other) /\ Preimage(period, seq, other) = preimage
        => period = 1 /\ seq = 1 /\ other = request

\* A client id names the chain whose number, with any leading zeros, it starts
\* with, up to a character that is no digit; no other chain, and none if the number
\* is too large.
ChainIdIsPrefix ==
  \A n \in 0..(2 * MaxChainId) :
    (ParseChainId(client_id) = n) <=>
      /\ n <= MaxChainId
      /\ \E k \in 1..Len(client_id) :
           /\ \A i \in 1..k : IsDigit(client_id[i])
           /\ k < Len(client_id) => ~IsDigit(client_id[k + 1])
           /\ \E z \in 0..(k - 1) :
                /\ \A i \in 1..z : client_id[i] = "0"
                /\ SubSeq(client_id, z + 1, k) = Digits(n)

================================================================================
