------------------------------ MODULE FrameQueue ------------------------------
(***************************************************************************)
(* What the greeter's transport promises its controller: the frames greetd  *)
(* writes on a connection arrive as messages, each once, whole and in       *)
(* order; a bad frame ends the connection, and nothing crosses from one     *)
(* connection to the next.  This is the channel that GreetdChannel.tla      *)
(* takes for granted; GreetdFraming.tla implements it over bytes.           *)
(***************************************************************************)
EXTENDS Sequences

CONSTANTS Bodies,  \* the frame bodies greetd may write
          Good(_)  \* the bodies that are messages

VARIABLES open,    \* the connection is established
          queue,   \* frames written on it and not yet delivered
          message  \* the message last delivered, if any

Init == open = FALSE /\ queue = <<>> /\ message = <<>>

Write(b) ==
  /\ open
  /\ queue' = Append(queue, b)
  /\ UNCHANGED <<open, message>>

Deliver ==
  /\ open /\ queue # <<>> /\ Good(Head(queue))
  /\ message' = Head(queue)
  /\ queue' = Tail(queue)
  /\ UNCHANGED open

\* A connection ends, or another takes its place.
Renew(up) ==
  /\ open' = up
  /\ queue' = <<>>
  /\ UNCHANGED message

Next == Deliver \/ (\E b \in Bodies : Write(b)) \/ (\E up \in BOOLEAN : Renew(up))

Spec == Init /\ [][Next]_<<open, queue, message>>
=============================================================================
