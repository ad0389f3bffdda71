------------------------------- MODULE GsLink -------------------------------
(***************************************************************************)
(* The Ground Station's query of a Central Computer: the client            *)
(* GroundStation/src/communication/central_computer.cpp (query()) over     *)
(* Shared/Net/tcp_transport.cpp, and the single-threaded GsLinkServer of   *)
(* CentralComputer/src/gsLink.  Each query has a connection of its own;    *)
(* the client gives up after MaxPolls reads, whether they returned data or *)
(* not, and the server answers one connection after the other.             *)
(*                                                                         *)
(* A connection is a FIFO of whole frames towards the client, as long as   *)
(* the two socket buffers.  From the server's side its client is there,    *)
(* or has closed: with frames unread, which makes send() fail, or with     *)
(* none; then one more send() succeeds and is answered with a RST, and the *)
(* next raises SIGPIPE, which nothing in the program handles or masks.     *)
(* A session may also fail for a client that is there, and the Central     *)
(* Computer's process may end at any time and be started again.            *)
(***************************************************************************)
EXTENDS Naturals, Sequences

CONSTANTS
  Clients,    \* Ground Stations that ask this Central Computer
  NoClient,   \* none of them
  Records,    \* stored lines in the range asked for
  MaxPolls,   \* kMaxPollIterations
  Buffer,     \* frames the socket buffers hold
  Backlog,    \* connections the kernel holds before accept()
  MaxQueries  \* bound: queries of each client

ASSUME GsLinkAssumption ==
  /\ NoClient \notin Clients
  /\ {Records, MaxPolls, Buffer, Backlog} \subseteq Nat \ {0}
  /\ MaxQueries \in Nat

End == 0   \* GS_END; the records are 1..Records

VARIABLES
  cpc,      \* cpc[c]: where client c is in query()
  polls,    \* polls[c]: iterations
  lines,    \* lines[c]: the records it has received
  outcome,  \* outcome[c]: what the operator was shown last
  asked,    \* queries so far, by client (bounded by MaxQueries)
  stream,   \* stream[c]: frames on their way to c
  hungup,   \* hungup[c]: the server has closed c's connection
  backlog,  \* connections to accept, each named by its client and the query
  server,   \* where accept_thread_ is: accept, recv, send; or killed, down
  serving,  \* the connection it serves
  peer,     \* that connection's client: there, closed, broken, reset
  next      \* the next frame it sends

client  == <<cpc, polls, lines, outcome, asked>>
session == <<server, serving, peer, next>>
vars    == <<client, stream, hungup, backlog, session>>

Connections == Clients \X (1..MaxQueries)
NoSession == <<NoClient, 0>>
Mine(c) == <<c, asked[c]>>   \* c's last connection
Running == server \notin {"killed", "down"}
InSession == server \in {"recv", "send"}
Alive(conn) == \E c \in Clients : conn = Mine(c) /\ cpc[c] = "poll"

-----------------------------------------------------------------------------
(* query() *)

\* TcpTransport's constructor connects, into the kernel's backlog or not at
\* all when nobody listens, and write() sends the request.
Ask(c) ==
  /\ cpc[c] = "idle"
  /\ asked[c] < MaxQueries
  /\ asked' = [asked EXCEPT ![c] = @ + 1]
  /\ polls' = [polls EXCEPT ![c] = 0]
  /\ lines' = [lines EXCEPT ![c] = << >>]
  /\ stream' = [stream EXCEPT ![c] = << >>]
  /\ hungup' = [hungup EXCEPT ![c] = FALSE]
  /\ \/ /\ ~Running
        /\ outcome' = [outcome EXCEPT ![c] = "connection failed"]
        /\ UNCHANGED <<cpc, backlog>>
     \/ /\ Running
        /\ Len(backlog) < Backlog
        /\ cpc' = [cpc EXCEPT ![c] = "poll"]
        /\ outcome' = [outcome EXCEPT ![c] = "none"]
        /\ backlog' = Append(backlog, <<c, asked[c] + 1>>)
  /\ UNCHANGED session

\* query() returns what, and its TcpTransport closes the connection with left
\* unread in it.
Return(c, what, left) ==
  /\ cpc' = [cpc EXCEPT ![c] = "idle"]
  /\ outcome' = [outcome EXCEPT ![c] = what]
  /\ peer' = IF serving # Mine(c) THEN peer
             ELSE IF left = << >> THEN "closed" ELSE "reset"

Poll(c) ==
  /\ cpc[c] = "poll"
  /\ polls[c] < MaxPolls
  /\ polls' = [polls EXCEPT ![c] = @ + 1]

\* read() returns n frames, records all of them.
Read(c) ==
  /\ Poll(c)
  /\ \E n \in 1..Len(stream[c]) :
       /\ \A i \in 1..n : stream[c][i] # End
       /\ lines' = [lines EXCEPT ![c] = @ \o SubSeq(stream[c], 1, n)]
       /\ stream' = [stream EXCEPT ![c] = SubSeq(@, n + 1, Len(@))]
  /\ UNCHANGED <<cpc, outcome, asked, hungup, backlog, session>>

\* The k-th of the n frames is the first GS_END, which ends the loop.
ReadEnd(c) ==
  /\ Poll(c)
  /\ \E n \in 1..Len(stream[c]) : \E k \in 1..n :
       LET rest == SubSeq(stream[c], n + 1, Len(stream[c]))
       IN  /\ stream[c][k] = End
           /\ \A i \in 1..k - 1 : stream[c][i] # End
           /\ lines' = [lines EXCEPT ![c] = @ \o SubSeq(stream[c], 1, k - 1)]
           /\ stream' = [stream EXCEPT ![c] = rest]
           /\ Return(c, "complete", rest)
  /\ UNCHANGED <<asked, hungup, backlog, server, serving, next>>

\* read() returns 0 after 100 ms without data, or the beginning of a frame.
ReadNothing(c) ==
  /\ Poll(c)
  /\ stream[c] # << >> \/ ~hungup[c]
  /\ UNCHANGED <<cpc, lines, outcome, asked, stream, hungup, backlog, session>>

ClosedIsDone(c) ==   \* mutant: an answer that is cut short is not remarked on
  /\ Poll(c)
  /\ stream[c] = << >> /\ hungup[c]
  /\ Return(c, IF lines[c] = << >> THEN "connection failed" ELSE "complete", << >>)
  /\ UNCHANGED <<lines, asked, stream, hungup, backlog, server, serving, next>>

\* read() throws: the server has closed the connection before GS_END.
ReadFails(c) ==
  /\ Poll(c)
  /\ stream[c] = << >> /\ hungup[c]
  /\ Return(c, IF lines[c] = << >> THEN "connection failed" ELSE "connection lost", << >>)
  /\ UNCHANGED <<lines, asked, stream, hungup, backlog, server, serving, next>>

GiveUp(c) ==
  /\ cpc[c] = "poll"
  /\ polls[c] = MaxPolls
  /\ Return(c, "no reply", stream[c])
  /\ UNCHANGED <<polls, lines, asked, stream, hungup, backlog, server, serving, next>>

-----------------------------------------------------------------------------
(* accept_loop() and handle_client() *)

\* A connection whose client has closed it is still accepted.
Accept ==
  /\ server = "accept"
  /\ backlog # << >>
  /\ server' = "recv"
  /\ serving' = Head(backlog)
  /\ backlog' = Tail(backlog)
  /\ peer' = IF Alive(Head(backlog)) THEN "there" ELSE "closed"
  /\ next' = 1
  /\ UNCHANGED <<client, stream, hungup>>

\* The loop over recv() ends with the whole request, which query() wrote when it
\* connected, whether or not its client is still there.
ReadRequest ==
  /\ server = "recv"
  /\ server' = "send"
  /\ UNCHANGED <<client, stream, hungup, backlog, serving, peer, next>>

Frame == IF next <= Records THEN next ELSE End

SessionEnds ==
  /\ server' = "accept"
  /\ serving' = NoSession
  /\ peer' = "none"
  /\ next' = 1

SendFrame ==
  LET c == serving[1] IN
  /\ server = "send"
  /\ peer = "there"
  /\ Len(stream[c]) < Buffer
  /\ stream' = [stream EXCEPT ![c] = Append(@, Frame)]
  /\ IF Frame = End
       THEN SessionEnds /\ hungup' = [hungup EXCEPT ![c] = TRUE]
       ELSE next' = next + 1 /\ UNCHANGED <<server, serving, peer, hungup>>
  /\ UNCHANGED <<client, backlog>>

\* send() succeeds though nobody will read; the answer to it is a RST.
SendLost ==
  /\ server = "send"
  /\ peer = "closed"
  /\ IF Frame = End
       THEN SessionEnds
       ELSE next' = next + 1 /\ peer' \in {"closed", "broken"} /\ UNCHANGED <<server, serving>>
  /\ UNCHANGED <<client, stream, hungup, backlog>>

NeverLetsGo ==   \* mutant: send() is tried again when the client is gone
  /\ server = "send"
  /\ peer = "reset"
  /\ UNCHANGED vars

\* send() fails with ECONNRESET: send_frame() throws, accept_loop() logs it.
SendFails ==
  /\ server = "send"
  /\ peer = "reset"
  /\ SessionEnds
  /\ UNCHANGED <<client, stream, hungup, backlog>>

\* The session ends before GS_END: recv() fails or the request is malformed, the
\* database throws, or send() fails.  accept_loop() closes the connection, and
\* of the frames on their way a client that is there may get the first ones only.
SessionBreaks ==
  /\ InSession
  /\ SessionEnds
  /\ IF peer = "there"
       THEN LET c == serving[1] IN
            /\ hungup' = [hungup EXCEPT ![c] = TRUE]
            /\ \E n \in 0..Len(stream[c]) :
                 stream' = [stream EXCEPT ![c] = SubSeq(stream[c], 1, n)]
       ELSE UNCHANGED <<hungup, stream>>
  /\ UNCHANGED <<client, backlog>>

\* The process ends, and every connection with it, the waiting ones too.
ProcessEnds(how) ==
  /\ server' = how
  /\ serving' = NoSession
  /\ peer' = "none"
  /\ next' = 1
  /\ hungup' = [c \in Clients |-> TRUE]
  /\ backlog' = << >>
  /\ UNCHANGED <<client, stream>>

\* send() raises SIGPIPE.
Killed ==
  /\ server = "send"
  /\ peer = "broken"
  /\ ProcessEnds("killed")

\* The operator stops the program, or another of its threads ends it.
Dies == Running /\ ProcessEnds("down")

\* The operator starts it again.
Restart ==
  /\ ~Running
  /\ server' = "accept"
  /\ UNCHANGED <<client, stream, hungup, backlog, serving, peer, next>>

-----------------------------------------------------------------------------
Init ==
  /\ cpc     = [c \in Clients |-> "idle"]
  /\ polls   = [c \in Clients |-> 0]
  /\ lines   = [c \in Clients |-> << >>]
  /\ outcome = [c \in Clients |-> "none"]
  /\ asked   = [c \in Clients |-> 0]
  /\ stream  = [c \in Clients |-> << >>]
  /\ hungup  = [c \in Clients |-> FALSE]
  /\ backlog = << >>
  /\ server  = "accept"
  /\ serving = NoSession
  /\ peer    = "none"
  /\ next    = 1

ClientStep(c) == Read(c) \/ ReadEnd(c) \/ ReadNothing(c) \/ ReadFails(c) \/ GiveUp(c)
ServerStep == Accept \/ ReadRequest \/ SendFrame \/ SendLost \/ SendFails \/ Killed
Failure == SessionBreaks \/ Dies \/ Restart
Next == ServerStep \/ Failure \/ \E c \in Clients : Ask(c) \/ ClientStep(c)

Spec == Init /\ [][Next]_vars

\* accept_thread_ runs, and so does the operator's program in query(), which
\* returns from every read() within 100 ms; nobody has to ask, and no failure or
\* restart has to happen.
FairSpec == Spec /\ WF_vars(ServerStep) /\ \A c \in Clients : WF_vars(ClientStep(c))

-----------------------------------------------------------------------------
(* Properties *)

Outcomes == {"none", "complete", "no reply", "connection failed", "connection lost"}

TypeOK ==
  /\ cpc \in [Clients -> {"idle", "poll"}]
  /\ polls \in [Clients -> 0..MaxPolls]
  /\ lines \in [Clients -> Seq(1..Records)]
  /\ outcome \in [Clients -> Outcomes]
  /\ asked \in [Clients -> 0..MaxQueries]
  /\ stream \in [Clients -> Seq(0..Records)]
  /\ \A c \in Clients : Len(stream[c]) <= Buffer
  /\ hungup \in [Clients -> BOOLEAN]
  /\ backlog \in Seq(Connections) /\ Len(backlog) <= Backlog
  /\ server \in {"accept", "recv", "send", "killed", "down"}
  /\ serving \in Connections \cup {NoSession}
  /\ peer \in {"none", "there", "closed", "broken", "reset"}
  /\ next \in 1..Records + 1

\* An answer shown without a remark has every stored line in the range, once
\* and in order, though the session can fail and the process that sends it can
\* end between any two frames, with some of them shown already: such an answer
\* is remarked on as cut short (central_computer.cpp query()).
AnswerIsWhole ==
  \A c \in Clients :
    outcome[c] = "complete" => lines[c] = [i \in 1..Records |-> i]

\* A client that stops reading, with the socket buffers full, or that is gone
\* does not hold the only server thread for ever: the session ends.
SessionsEnd == InSession ~> ~InSession

\* "accept_loop() just logs and moves on to the next connection, same as any
\* other client-gone scenario" (gs_link_server.cpp:58-61).
ClientGoneIsHarmless == server # "killed"

\* "(no reply -- central computer unreachable or unresponsive)" is shown of a
\* Central Computer that did not reply (central_computer.cpp:90).
NoReplyMeansSilence ==
  \A c \in Clients : outcome[c] = "no reply" => lines[c] = << >>
=============================================================================
