---------------------------- MODULE GreetdFraming ----------------------------
(***************************************************************************)
(* GreetdClient::consume() (src/src/greetdclient.cpp): messages cut out of   *)
(* a byte stream that arrives in pieces, by a loop whose handler may hang    *)
(* up or reconnect between two messages.                                     *)
(*                                                                          *)
(* A byte is a digit in base Base and a length takes HeaderSize of them,     *)
(* lowest first (a native-endian quint32 in the code).  Only the stream from *)
(* greetd is modelled; requests, the timer and the controller's choices are  *)
(* in GreetdChannel.tla and Controller.tla.                                  *)
(***************************************************************************)
EXTENDS Naturals, Sequences

CONSTANTS Base, HeaderSize,
          MaxFrame,  \* GreetdClient::MaxFrame
          Bodies,    \* the frame bodies greetd may write
          Objects,   \* those that are JSON objects
          MaxUnread  \* bound: frames greetd writes ahead of the greeter

Byte == 0 .. Base - 1

\* The value of a digit with i lower ones.
Place[i \in Nat] == IF i = 0 THEN 1 ELSE Base * Place[i - 1]

ASSUME FramingAssumption ==
  /\ Base \in Nat \ {0, 1} /\ HeaderSize \in Nat \ {0} /\ MaxFrame \in Nat \ {0}
  /\ \A b \in Bodies : b \in Seq(Byte) /\ Len(b) < Place[HeaderSize]
  /\ Objects \subseteq Bodies /\ <<>> \notin Objects

VARIABLES
  open,      \* the socket is connected
  pc,        \* "rest" in the event loop, "loop" in consume(), "handler" in message()
  kernel,    \* bytes written by greetd and not yet read
  input,     \* input_
  expected,  \* expected_, 0 when unset
  message,   \* the message last emitted
  unread     \* history: the frames written on this connection and not emitted

vars == <<open, pc, kernel, input, expected, message, unread>>

TypeOK ==
  /\ open \in BOOLEAN /\ pc \in {"rest", "loop", "handler"}
  /\ kernel \in Seq(Byte) /\ input \in Seq(Byte)
  /\ expected \in 0 .. MaxFrame
  /\ message \in Objects \cup {<<>>} /\ unread \in Seq(Bodies)

Init ==
  /\ open = FALSE /\ pc = "rest"
  /\ kernel = <<>> /\ input = <<>> /\ expected = 0
  /\ message = <<>> /\ unread = <<>>

-----------------------------------------------------------------------------
Header(n) == [i \in 1..HeaderSize |-> (n \div Place[i - 1]) % Base]

\* The length that the first HeaderSize bytes of the input spell.
Length ==
  LET sum[i \in 0..HeaderSize] ==
        IF i = 0 THEN 0 ELSE sum[i - 1] + input[i] * Place[i - 1]
  IN sum[HeaderSize]

DropFirst(n) == SubSeq(input, n + 1, Len(input))

Good(b) == b \in Objects /\ Len(b) <= MaxFrame

\* greetd writes a frame.
Write(b) ==
  /\ open /\ Len(unread) < MaxUnread
  /\ kernel' = kernel \o Header(Len(b)) \o b
  /\ unread' = Append(unread, b)
  /\ UNCHANGED <<open, pc, input, expected, message>>

\* Mutant: the length read for the old connection is kept.
ForgetsInputOnly == input' = <<>> /\ UNCHANGED expected
\* connectTo(), disconnectFromServer() and disconnected() forget what was read
\* and the length it was read for; fail() does through disconnected().
Forgets == input' = <<>> /\ expected' = 0

\* The stream ends, or (up) that of another connection begins.
NewStream(up) ==
  /\ open' = up
  /\ kernel' = <<>> /\ unread' = <<>>
  /\ Forgets
  /\ UNCHANGED message

\* connectTo(), disconnectFromServer(), a fault, a timeout or greetd's close,
\* from the event loop; or the first two from a message handler.
Renew ==
  /\ pc \in {"rest", "handler"}
  /\ \E up \in BOOLEAN : NewStream(up)
  /\ UNCHANGED pc

\* readyRead: whatever has arrived is appended, and consume() starts.
ReadyRead ==
  /\ pc = "rest" /\ open
  /\ \E n \in 1..Len(kernel) :
       /\ input' = input \o SubSeq(kernel, 1, n)
       /\ kernel' = SubSeq(kernel, n + 1, Len(kernel))
  /\ pc' = "loop"
  /\ UNCHANGED <<open, expected, message, unread>>

-----------------------------------------------------------------------------
(* One turn of the loop in consume(): a length, a body, or a return. *)

\* Mutant: a frame one byte above the limit is accepted.
BadLengthOffByOne(n) == n = 0 \/ n > MaxFrame + 1
BadLength(n) == n = 0 \/ n > MaxFrame

\* Mutant: a body is taken only when more has arrived.
BodyArrivedAndMore == Len(input) > expected
BodyArrived == Len(input) >= expected

Fail ==
  /\ NewStream(FALSE)
  /\ pc' = "rest"

ReadLength ==
  /\ pc = "loop" /\ expected = 0 /\ Len(input) >= HeaderSize
  /\ \/ BadLength(Length) /\ Fail
     \/ /\ ~BadLength(Length)
        /\ expected' = Length
        /\ input' = DropFirst(HeaderSize)
        /\ UNCHANGED <<open, pc, kernel, message, unread>>

ReadBody ==
  /\ pc = "loop" /\ expected # 0 /\ BodyArrived
  /\ LET body == SubSeq(input, 1, expected)
     IN \/ body \notin Objects /\ Fail
        \/ /\ body \in Objects
           /\ message' = body
           /\ unread' = IF unread = <<>> THEN <<>> ELSE Tail(unread)
           /\ input' = DropFirst(expected)
           /\ expected' = 0
           /\ pc' = "handler"
           /\ UNCHANGED <<open, kernel>>

HandlerReturns ==
  /\ pc = "handler"
  /\ pc' = "loop"
  /\ UNCHANGED <<open, kernel, input, expected, message, unread>>

Return ==
  /\ pc = "loop"
  /\ IF expected = 0 THEN Len(input) < HeaderSize ELSE ~BodyArrived
  /\ pc' = "rest"
  /\ UNCHANGED <<open, kernel, input, expected, message, unread>>

Next ==
  \/ \E b \in Bodies : Write(b)
  \/ Renew \/ ReadyRead \/ ReadLength \/ ReadBody \/ HandlerReturns \/ Return

Spec == Init /\ [][Next]_vars

-----------------------------------------------------------------------------
\* However the stream is cut into reads and whatever the handlers do between
\* two messages, the controller sees the frames of the current connection,
\* whole, in order and once, and a bad frame ends the connection.
Promise == INSTANCE FrameQueue WITH queue <- unread
ImplementsFrameQueue == Promise!Spec

\* A frame that has arrived is never held back: with everything read and the
\* loop at rest, greetd's every message has been delivered.
NothingHeldBack == pc = "rest" /\ kernel = <<>> => unread = <<>>
=============================================================================
