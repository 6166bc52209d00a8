------------------------------ MODULE CanSniffer ------------------------------
(***************************************************************************)
(* CANsniff.py: connects to the broker, then publishes every frame of the  *)
(* CAN bus with QoS 0.  Two threads: the script itself, and the loop of    *)
(* the MQTT library that loop_start begins, on which the callbacks run and *)
(* which reconnects by itself.  It is a systemd service, started again     *)
(* when it ends.                                                           *)
(*                                                                         *)
(* The library is external: publish gives the packet to its queue when     *)
(* there is a socket and drops it when there is none; connecting again     *)
(* closes the socket without a callback and empties the queue.             *)
(* A frame is its place on the bus.                                        *)
(***************************************************************************)
EXTENDS Naturals, Sequences

CONSTANT MaxRx      \* frames the receive buffer of the CAN socket holds

ASSUME RxAssumption == MaxRx \in Nat \ {0}

VARIABLES
    spc,        \* "check", "close", "dial", "loop_start", "bus", "recv", "exited"
    connected,  \* set by the callbacks
    thread,     \* loop_start has started the library's loop
    sock,       \* "none", "open" (CONNECT sent), "session", "refused" or "lost"
    rx,         \* frames in the receive buffer
    outbox,     \* packets the library holds
    topic       \* what the broker got, in order

script == <<spc, rx>>
library == <<thread, sock, outbox>>
sniffer == <<spc, connected, thread, sock, rx, outbox, topic>>

SnifferTypeOK ==
    /\ spc \in {"check", "close", "dial", "loop_start", "bus", "recv", "exited"}
    /\ connected \in BOOLEAN /\ thread \in BOOLEAN
    /\ sock \in {"none", "open", "session", "refused", "lost"}
    /\ rx \in Seq(Nat \ {0}) /\ Len(rx) <= MaxRx
    /\ outbox \in Seq(Nat \ {0})
    /\ topic \in Seq(Nat \ {0})

SnifferInit ==
    /\ spc = "check" /\ connected = FALSE /\ thread = FALSE
    /\ sock = "none" /\ rx = <<>> /\ outbox = <<>>
    /\ topic = <<>>

-----------------------------------------------------------------------------
(* The script: while not connected, connect and loop_start. *)

Check ==
    /\ spc = "check"
    /\ spc' = IF connected THEN "bus" ELSE "close"
    /\ UNCHANGED <<connected, library, rx, topic>>

\* client.connect closes the socket of the last attempt ...
Close ==
    /\ spc = "close"
    /\ sock' = "none" /\ outbox' = <<>>
    /\ spc' = "dial"
    /\ UNCHANGED <<connected, thread, rx, topic>>

\* ... and makes a new one, while the library's loop may do so as well.
DialOk(link) ==
    /\ spc = "dial"
    /\ link
    /\ sock' = "open"
    /\ spc' = "loop_start"
    /\ UNCHANGED <<connected, thread, rx, outbox, topic>>

\* An exception: sleep for a second, try again.
DialFails(link) ==
    /\ spc = "dial"
    /\ ~link
    /\ spc' = "check"
    /\ UNCHANGED <<connected, library, rx, topic>>

LoopStart ==
    /\ spc = "loop_start"
    /\ thread' = TRUE
    /\ spc' = "check"
    /\ UNCHANGED <<connected, sock, rx, outbox, topic>>

\* Without the interface the constructor throws, and so does recv.
OpenBus(can) ==
    /\ spc = "bus" /\ can
    /\ spc' = "recv"
    /\ UNCHANGED <<connected, library, rx, topic>>

Listening == spc = "recv"

\* Wrong version: the packets leave newest first.
PublishFirst(n) == outbox' = IF sock = "none" THEN outbox ELSE <<n>> \o outbox
Publish(n) == outbox' = IF sock = "none" THEN outbox ELSE Append(outbox, n)

Recv ==
    /\ Listening
    /\ rx # <<>>
    /\ rx' = Tail(rx)
    /\ Publish(Head(rx))
    /\ UNCHANGED <<spc, connected, thread, sock, topic>>

(* The end of the process takes its threads, sockets and buffers along.    *)
Ended ==
    /\ connected' = FALSE /\ thread' = FALSE
    /\ sock' = "none" /\ rx' = <<>> /\ outbox' = <<>>

BusFails(can) ==
    /\ spc \in {"bus", "recv"} /\ ~can
    /\ spc' = "exited"
    /\ Ended
    /\ UNCHANGED topic

RestartSniffer ==
    /\ spc = "exited"
    /\ spc' = "check"
    /\ UNCHANGED <<connected, library, rx, topic>>

Crash ==
    /\ spc # "exited"
    /\ spc' = "exited"
    /\ Ended
    /\ UNCHANGED topic

-----------------------------------------------------------------------------
\* Wrong version: the buffer has no end.
HearAll(n) ==
    /\ rx' = IF Listening THEN Append(rx, n) ELSE rx
    /\ UNCHANGED <<spc, connected, library, topic>>

(* The bus: frame number n reaches the buffer of a socket that is open,    *)
(* unless it is full.                                                      *)
Hear(n) ==
    /\ rx' = IF Listening /\ Len(rx) < MaxRx THEN Append(rx, n) ELSE rx
    /\ UNCHANGED <<spc, connected, library, topic>>

-----------------------------------------------------------------------------
(* The library's loop. *)

LibraryRuns == spc # "exited" /\ thread

\* on_connect sets the flag, whatever the broker's answer.
Connack(refused) ==
    /\ LibraryRuns
    /\ sock = "open"
    /\ sock' = IF refused THEN "refused" ELSE "session"
    /\ connected' = TRUE
    /\ UNCHANGED <<script, thread, outbox, topic>>

\* on_disconnect, after a refusal or when a lost connection is noticed.
Disconnected ==
    /\ LibraryRuns
    /\ sock \in {"refused", "lost"}
    /\ sock' = "none"
    /\ connected' = FALSE
    /\ UNCHANGED <<script, thread, outbox, topic>>

Reconnect(link) ==
    /\ LibraryRuns
    /\ sock = "none" /\ link
    /\ sock' = "open" /\ outbox' = <<>>
    /\ UNCHANGED <<script, connected, thread, topic>>

\* Wrong version: a packet waits for a second one.
SendPacketPair ==
    /\ LibraryRuns
    /\ sock = "session"
    /\ Len(outbox) > 1
    /\ outbox' = Tail(outbox)
    /\ topic' = Append(topic, Head(outbox))
    /\ UNCHANGED <<script, connected, thread, sock>>

\* A packet is written to the socket.  On a lost one nothing arrives; one
\* that follows CONNECT arrives unless the broker is about to refuse.
SendPacket ==
    /\ LibraryRuns
    /\ sock \in {"open", "session", "lost"}
    /\ outbox # <<>>
    /\ outbox' = Tail(outbox)
    /\ \/ sock # "lost" /\ topic' = Append(topic, Head(outbox))
       \/ sock # "session" /\ topic' = topic
    /\ UNCHANGED <<script, connected, thread, sock>>

\* The link breaks under the connection: a new dial gets a new address.
LinkLost ==
    /\ sock' = IF sock = "none" THEN sock ELSE "lost"
    /\ UNCHANGED <<script, connected, thread, outbox, topic>>

===============================================================================
