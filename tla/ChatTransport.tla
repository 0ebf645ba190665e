--------------------------- MODULE ChatTransport ---------------------------
(***************************************************************************)
(* The stream of one chat answer from the server's replay buffer           *)
(* (AgentRuns) to the loop that renders it: the SSE body of the POST, the  *)
(* WebSocket that is tried first, and the reader that reconnects a dropped *)
(* socket at its resume offset (workspace/static/js/chatWsTransport.js and *)
(* workspace/routes/chat_ws_routes.py).                                    *)
(*                                                                         *)
(* A connection may be refused, dropped with all that is in flight, or be  *)
(* slow; the server may restart, which loses its runs; the user may stop.  *)
(* One message is sent; a second send of the same session from another     *)
(* tab, which would put another run behind the same resume offset, is left *)
(* out.                                                                    *)
(***************************************************************************)
EXTENDS AgentRuns

CONSTANTS Socks,         \* WebSocket connections the server can serve
          Sse,           \* the subscriber behind the POST's response body
          MaxReconnects, \* CHAT_WS_MAX_RECONNECTS
          MaxRestarts    \* bound: restarts of the server

ASSUME ChatTransportAssumption ==
  /\ Subs = Socks \cup {Sse} /\ Sse \notin Socks
  /\ MaxReconnects \in Nat /\ MaxRestarts \in Nat
  /\ {"none", "connecting"} \cap Socks = {}

VARIABLES link,      \* the connections, server side and wire
          restarts,  \* restarts so far
          lane,      \* what openChatStreamReader has chosen
          sock,      \* _ws: "none", "connecting" or the open connection
          timer,     \* _reconnectTimer
          attempts,  \* _attempts
          queue,     \* _queue
          delivered, \* _delivered
          done, sawDone, \* _done, _sawDone
          reading,   \* does a read() of the caller wait in _waiters?
          got,       \* what the caller was given
          ended      \* how its loop ended

reader == <<timer, attempts, queue, delivered, done, sawDone>>
caller == <<reading, got, ended>>
client == <<lane, sock, reader, caller>>
vars   == <<runsVars, link, restarts, client>>

Events  == [run : Runs, seq : Nat]
NoEvent == [run |-> 0, seq |-> 0]
Chunk(r, i) == [kind |-> "chunk", ev |-> [run |-> r, seq |-> i]]
Frame(kind) == [kind |-> kind, ev |-> NoEvent]
Frames  == [kind : {"chunk"}, ev : Events] \cup [kind : {"end", "error"}, ev : {NoEvent}]

(* `fresh`: the subscribe frame is on its way; `resume` and `idx` as in the *)
(* route; `wire` is what was sent and not received.                        *)
Links == [up : BOOLEAN, fresh : BOOLEAN, resume : Nat, idx : Nat, wire : Seq(Frames)]
Down  == [up |-> FALSE, fresh |-> FALSE, resume |-> 0, idx |-> 0, wire |-> <<>>]
Up(n) == [Down EXCEPT !.up = TRUE, !.fresh = TRUE, !.resume = n]

TypeOK ==
  /\ RunsTypeOK
  /\ link \in [Subs -> Links] /\ restarts \in 0 .. MaxRestarts
  /\ lane \in {"idle", "choosing", "ws", "sse"}
  /\ sock \in Socks \cup {"none", "connecting"}
  /\ attempts \in 0 .. MaxReconnects + 1
  /\ queue \in Seq(Events) /\ got \in Seq(Events) /\ delivered \in Nat
  /\ timer \in BOOLEAN /\ done \in BOOLEAN /\ sawDone \in BOOLEAN /\ reading \in BOOLEAN
  /\ ended \in {"no", "complete", "short"}

Init ==
  /\ RunsInit
  /\ link = [s \in Subs |-> Down] /\ restarts = 0
  /\ lane = "idle" /\ sock = "none"
  /\ timer = FALSE /\ attempts = 0 /\ queue = <<>> /\ delivered = 0
  /\ done = FALSE /\ sawDone = FALSE
  /\ reading = FALSE /\ got = <<>> /\ ended = "no"

IsDone(e) == run[e.run].buf[e.seq] = "DONE"

(* _streamSawDone, and what the caller makes of the end of its stream: the *)
(* answer is there, or 'Stream closed before completion' is thrown.        *)
StreamSawDone == \E k \in DOMAIN got : IsDone(got[k])
Judged == IF StreamSawDone THEN "complete" ELSE "short"

-----------------------------------------------------------------------------
(* The server's side of a connection.                                      *)

(* A generator that has got so far with its event sends it.                *)
Sent(s, frame) == link' = [link EXCEPT ![s].wire = Append(@, frame)]

(* The subscribe frame arrives: the run of the session, no run, or no such *)
(* session.                                                                *)
Serve(s) ==
  /\ link[s].up /\ link[s].fresh
  /\ \/ /\ Subscribe(s)
        /\ link' = [link EXCEPT ![s].fresh = FALSE]
     \/ /\ current = 0
        /\ link' = [link EXCEPT ![s].fresh = FALSE, ![s].wire = Append(@, Frame("end"))]
        /\ UNCHANGED runsVars
     \/ /\ s # Sse
        /\ link' = [link EXCEPT ![s].fresh = FALSE, ![s].wire = Append(@, Frame("error"))]
        /\ UNCHANGED runsVars
  /\ UNCHANGED <<restarts, client>>

(* One event of the generator: skipped below the resume offset, or sent.   *)
Relay(s) ==
  /\ link[s].up /\ Yield(s)
  /\ link' = [link EXCEPT ![s].idx = @ + 1,
                          ![s].wire = IF link[s].idx < link[s].resume THEN @
                                      ELSE Append(@, Chunk(sub[s].run, sub'[s].next))]
  /\ UNCHANGED <<restarts, client>>

RelayEnd(s) ==
  /\ link[s].up /\ Return(s)
  /\ Sent(s, Frame("end"))
  /\ UNCHANGED <<restarts, client>>

Generate(s) == Silent(s) /\ UNCHANGED <<link, restarts, client>>

(* A send to a connection that is gone closes the generator.               *)
RelayFails(s) ==
  /\ ~link[s].up /\ CloseSub(s)
  /\ UNCHANGED <<link, restarts, client>>

Server ==
  /\ \/ \E r \in Runs : Drain(r) \/ Evict(r)
     \/ Stop
  /\ UNCHANGED <<link, restarts, client>>

-----------------------------------------------------------------------------
(* The reader.                                                             *)

(* chat.js posts the message: a run, a response body, and a first socket.  *)
Send ==
  /\ lane = "idle" /\ started = 0 /\ Start
  /\ link' = [link EXCEPT ![Sse] = Up(0)]
  /\ lane' = "choosing" /\ sock' = "connecting"
  /\ UNCHANGED <<restarts, reader, caller>>

\* Slip: only what the caller has read is counted.
DrainedOffset == delivered

ResumeOffset == delivered + Len(queue)

(* Any connection that is free serves the next socket.                     *)
Free == {s \in Socks : sub[s].at = "off" /\ ~link[s].up}

\* Slip: a socket that opens gives itself its attempts back.
OpenResets ==
  /\ sock = "connecting" /\ Free # {}
  /\ sock' = CHOOSE s \in Free : TRUE
  /\ link' = [link EXCEPT ![sock'] = Up(ResumeOffset)]
  /\ attempts' = 0
  /\ UNCHANGED <<runsVars, restarts, lane, timer, queue, delivered, done, sawDone, caller>>

(* onopen: the subscribe frame.                                            *)
Open ==
  /\ sock = "connecting" /\ Free # {}
  /\ sock' = CHOOSE s \in Free : TRUE
  /\ link' = [link EXCEPT ![sock'] = Up(ResumeOffset)]
  /\ UNCHANGED <<runsVars, restarts, lane, reader, caller>>

(* _finish: a read that waits is answered with the end of the stream.      *)
FinishReader ==
  /\ done' = TRUE /\ timer' = FALSE
  /\ reading' = FALSE
  /\ ended' = IF reading THEN Judged ELSE ended
  /\ UNCHANGED <<queue, delivered, got>>

(* _closeSocket, and what becomes of the connection.                       *)
Closed(l) == IF sock \in Socks THEN [l EXCEPT ![sock] = Down] ELSE l

CloseSocket == sock' = "none" /\ link' = Closed(link)

(* The event goes to the read that waits, or into the queue.               *)
Hand(e) ==
  /\ got' = Append(got, e)
  /\ delivered' = delivered + 1

PushChunk(e) ==
  /\ sawDone' = (sawDone \/ IsDone(e))
  /\ IF reading
     THEN Hand(e) /\ reading' = FALSE /\ UNCHANGED queue
     ELSE queue' = Append(queue, e) /\ UNCHANGED <<delivered, reading, got>>
  /\ UNCHANGED <<timer, done, ended>>

(* waitForOpen rejects: the reader is cancelled, the body is read instead. *)
FallBack ==
  /\ lane = "choosing" /\ lane' = "sse"
  /\ done' = TRUE
  /\ CloseSocket
  /\ UNCHANGED <<runsVars, restarts, timer, attempts, queue, delivered, sawDone, caller>>

ConnectTimeout == FallBack

(* onmessage. The first frame commits to the socket and drops the body; a  *)
(* frame gives a later socket its attempts back.                           *)
Popped(s) ==
  LET rest == [link EXCEPT ![s].wire = Tail(@)]
  IN IF lane = "choosing" THEN [rest EXCEPT ![Sse] = Down] ELSE rest

ReceiveChunk(s) ==
  /\ sock = s /\ link[s].wire # <<>> /\ Head(link[s].wire).kind = "chunk"
  /\ lane' = "ws" /\ attempts' = 0
  /\ link' = Popped(s)
  /\ PushChunk(Head(link[s].wire).ev)
  /\ UNCHANGED <<runsVars, restarts, sock>>

ReceiveEnd(s) ==
  /\ sock = s /\ link[s].wire # <<>>
  /\ \/ Head(link[s].wire).kind = "end" /\ sawDone' = TRUE
     \/ Head(link[s].wire).kind = "error" /\ lane = "ws" /\ UNCHANGED sawDone
  /\ lane' = "ws" /\ attempts' = 0
  /\ FinishReader
  /\ sock' = "none" /\ link' = Closed(Popped(s))
  /\ UNCHANGED <<runsVars, restarts>>

ReceiveRefusal(s) ==
  /\ sock = s /\ link[s].wire # <<>> /\ Head(link[s].wire).kind = "error"
  /\ FallBack

\* Slip: one attempt too many.
GiveUpLate == done \/ sawDone \/ attempts > MaxReconnects

(* _onSocketClose: over, given up, or to be opened again after a delay.    *)
GiveUp == done \/ sawDone \/ attempts + 1 > MaxReconnects

SocketCloses ==
  /\ lane = "ws" /\ sock # "none"
  /\ CloseSocket
  /\ attempts' = IF done \/ sawDone THEN attempts ELSE attempts + 1
  /\ IF GiveUp THEN FinishReader
               ELSE timer' = TRUE /\ UNCHANGED <<queue, delivered, done, caller>>
  /\ UNCHANGED <<runsVars, restarts, lane, sawDone>>

ClosesBeforeChoice == sock # "none" /\ FallBack

Reconnect ==
  /\ timer /\ ~done
  /\ timer' = FALSE /\ sock' = "connecting"
  /\ UNCHANGED <<runsVars, link, restarts, lane, attempts, queue, delivered, done, sawDone, caller>>

(* The abort signal: cancel(), and the fetch is aborted too.               *)
Abort ==
  /\ lane # "idle" /\ ended = "no" /\ ~(done /\ lane = "ws")
  /\ FinishReader
  /\ sock' = "none" /\ link' = [Closed(link) EXCEPT ![Sse] = Down]
  /\ UNCHANGED <<runsVars, restarts, lane, attempts, sawDone>>

-----------------------------------------------------------------------------
(* The caller's loop: read() until the end of the stream. At [DONE] it     *)
(* leaves the lines of one chunk only, and reads on.                       *)
Read ==
  /\ lane = "ws" /\ ended = "no" /\ ~reading
  /\ IF queue # <<>>
     THEN /\ Hand(Head(queue)) /\ queue' = Tail(queue)
          /\ UNCHANGED <<reading, ended>>
     ELSE /\ IF done THEN ended' = Judged /\ UNCHANGED reading
                     ELSE reading' = TRUE /\ UNCHANGED ended
          /\ UNCHANGED <<got, queue, delivered>>
  /\ UNCHANGED <<runsVars, link, restarts, lane, sock, timer, attempts, done, sawDone>>

ReadBody ==
  /\ lane = "sse" /\ ended = "no" /\ link[Sse].wire # <<>>
  /\ link' = [link EXCEPT ![Sse].wire = Tail(@)]
  /\ LET f == Head(link[Sse].wire)
     IN IF f.kind = "chunk"
        THEN got' = Append(got, f.ev) /\ UNCHANGED ended
        ELSE ended' = Judged /\ UNCHANGED got
  /\ UNCHANGED <<runsVars, restarts, lane, sock, reader, reading>>

(* read() of a body that was cut off or aborted rejects, even after [DONE]. *)
BodyBreaks ==
  /\ lane = "sse" /\ ended = "no" /\ ~link[Sse].up /\ link[Sse].wire = <<>>
  /\ ended' = "short"
  /\ UNCHANGED <<runsVars, link, restarts, lane, sock, reader, reading, got>>

(* The network drops the response body.                                    *)
DropBody ==
  /\ link[Sse].up
  /\ link' = [link EXCEPT ![Sse] = Down]
  /\ UNCHANGED <<runsVars, restarts, client>>

(* The server restarts: runs, buffers and subscribers were in its memory.  *)
(* (The model keeps the buffers, as a record of what was sent.)            *)
Restart ==
  /\ restarts < MaxRestarts /\ started > 0
  /\ restarts' = restarts + 1
  /\ current' = 0
  /\ run' = [r \in Runs |-> IF r > started THEN run[r]
                            ELSE [run[r] EXCEPT !.task = "ended", !.status = "stopped",
                                                !.timer = FALSE, !.cancel = FALSE]]
  /\ sub' = [s \in Subs |-> Off]
  /\ link' = [s \in Subs |-> [link[s] EXCEPT !.up = FALSE, !.fresh = FALSE]]
  /\ UNCHANGED <<started, client>>

-----------------------------------------------------------------------------
Next ==
  \/ Server \/ Send \/ Restart \/ DropBody \/ Abort
  \/ \E s \in Subs : Serve(s) \/ Relay(s) \/ RelayEnd(s) \/ Generate(s) \/ RelayFails(s)
  \/ Open \/ \E s \in Socks : ReceiveChunk(s) \/ ReceiveEnd(s) \/ ReceiveRefusal(s)
  \/ ConnectTimeout \/ ClosesBeforeChoice \/ SocketCloses \/ Reconnect
  \/ Read \/ ReadBody \/ BodyBreaks

Spec == Init /\ [][Next]_vars

(* Both event loops run what is ready: a generator that has returned ends  *)
(* its socket with "end" and its body with a close. A socket that is being *)
(* opened is opened or closes, a timer fires, a connection that is gone is *)
(* noticed. Nothing is assumed of the model that writes the answer, of the *)
(* network, nor of the user.                                               *)
Fairness ==
  /\ \A r \in Runs : WF_vars(/\ Begin(r) \/ Resume(r) \/ CancelEarly(r) \/ Finish(r)
                                \/ CancelDrain(r) \/ CloseGenerator(r)
                             /\ UNCHANGED <<link, restarts, client>>)
  /\ \A s \in Subs : WF_vars(Serve(s) \/ Relay(s) \/ RelayEnd(s) \/ Generate(s) \/ RelayFails(s))
  /\ WF_vars(\/ Open \/ \E s \in Socks : ReceiveChunk(s) \/ ReceiveEnd(s) \/ ReceiveRefusal(s)
             \/ ConnectTimeout
             \/ SocketCloses /\ (sock = "connecting" \/ ~link[sock].up))
  /\ WF_vars(Reconnect)
  /\ WF_vars(Read \/ ReadBody \/ BodyBreaks)

LiveSpec == Spec /\ Fairness

-----------------------------------------------------------------------------
(* Over drops, reconnects, fall-backs and restarts the caller is given the *)
(* events of its answer each once and in order, and sees it complete only  *)
(* when it is (the comment on durability in chatWsTransport.js).           *)
Stream == INSTANCE OrderedStream WITH
  sent   <- Len(run[1].buf),
  closed <- Complete(1),
  got    <- [k \in DOMAIN got |-> got[k].seq]

ImplementsOrderedStream == Stream!Spec

(* The caller is never left waiting: once nothing runs any more, its loop  *)
(* ends, whatever the socket does (the reconnect budget, the end frame and *)
(* the end of the body after [DONE], the reader that finishes when it gives *)
(* up). The exception is a run cancelled before it drained: it has ended   *)
(* but never became terminal, and nobody wakes those that follow it        *)
(* (AgentRuns, SubscribersAreWoken).                                       *)
Quiet == started > 0 /\ \A r \in 1 .. started : run[r].task = "ended" /\ Terminal(r)

ReaderEnds == <>[]Quiet => <>(ended # "no")
=============================================================================
