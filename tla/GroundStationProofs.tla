------------------------- MODULE GroundStationProofs -------------------------
(***************************************************************************)
(* Theorems about the Ground Station's two parts.  About GsLink: an answer *)
(* that is shown as complete is, for any number of clients, queries,       *)
(* records and polls, and sockets of any size.  About Fleet: links are     *)
(* mutual and a mission lasts as long as its assignment, for any           *)
(* submarines and missions.                                                *)
(***************************************************************************)
EXTENDS GsLink, Fleet, SequenceTheorems, NaturalsInduction, WellFoundedInduction, TLAPS

USE DEF InSession, Running

\* The connections are all different, none but the last of a client is alive, and
\* accept_thread_ thinks a client is there only while it is.
Sessions ==
  /\ InSession <=> serving # NoSession
  /\ ~InSession => peer = "none"
  /\ \A i \in DOMAIN backlog : /\ backlog[i] # serving
                               /\ backlog[i][2] <= asked[backlog[i][1]]
  /\ \A i, j \in DOMAIN backlog : backlog[i] = backlog[j] => i = j
  /\ serving # NoSession => serving[2] <= asked[serving[1]]
  /\ peer = "there" => Alive(serving)

\* The i-th frame of a whole answer.
Nth(i) == IF i <= Records THEN i ELSE End

\* What a client has received and what is on its way to it is the beginning of a
\* whole answer, as far as handle_client() has come if it serves this client.
Begun(c) ==
  /\ Len(lines[c]) <= Records
  /\ Len(lines[c]) + Len(stream[c]) <= Records + 1
  /\ \A i \in 1..Len(lines[c]) : lines[c][i] = i
  /\ \A i \in 1..Len(stream[c]) : stream[c][i] = Nth(Len(lines[c]) + i)

Waits(c) == (\E i \in DOMAIN backlog : backlog[i] = Mine(c))
              => Len(lines[c]) = 0 /\ Len(stream[c]) = 0

InStep(c) == serving = Mine(c)
               => peer = "there" /\ next = Len(lines[c]) + Len(stream[c]) + 1

Answers == \A c \in Clients :
             cpc[c] = "poll" => outcome[c] = "none" /\ Begun(c) /\ Waits(c) /\ InStep(c)

IInv == TypeOK /\ Sessions /\ Answers /\ AnswerIsWhole

-----------------------------------------------------------------------------
LEMMA Numbers == /\ Records \in Nat \ {0} /\ MaxPolls \in Nat \ {0}
                 /\ Buffer \in Nat \ {0} /\ Backlog \in Nat \ {0} /\ MaxQueries \in Nat
                 /\ NoClient \notin Clients
  BY GsLinkAssumption

LEMMA NotAConnection == ASSUME NEW c \in Clients, NEW q PROVE <<c, q>> # NoSession
  BY GsLinkAssumption DEF NoSession

LEMMA InitIInv == Init => IInv
<1> SUFFICES ASSUME Init PROVE IInv
  OBVIOUS
<1>1. TypeOK
  BY Numbers DEF Init, TypeOK, Outcomes
<1>2. Sessions
  BY DEF Init, Sessions
<1>3. Answers /\ AnswerIsWhole
  BY DEF Init, Answers, AnswerIsWhole
<1> QED
  BY <1>1, <1>2, <1>3 DEF IInv

\* What is taken from the front of a stream, and what is left.
LEMMA Cut ==
  ASSUME NEW S, NEW s \in Seq(S), NEW n \in 0..Len(s)
  PROVE  /\ SubSeq(s, 1, n) \in Seq(S) /\ Len(SubSeq(s, 1, n)) = n
         /\ \A i \in 1..n : SubSeq(s, 1, n)[i] = s[i]
         /\ SubSeq(s, n + 1, Len(s)) \in Seq(S)
         /\ Len(SubSeq(s, n + 1, Len(s))) = Len(s) - n
         /\ \A i \in 1..Len(s) - n : SubSeq(s, n + 1, Len(s))[i] = s[n + i]
<1>1. Len(s) \in Nat /\ \A i \in 1..Len(s) : s[i] \in S
  BY LenProperties, ElementOfSeq
<1>2. /\ SubSeq(s, 1, n) \in Seq(S)
      /\ Len(SubSeq(s, 1, n)) = IF 1 <= n THEN n - 1 + 1 ELSE 0
      /\ \A i \in 1..n - 1 + 1 : SubSeq(s, 1, n)[i] = s[1 + i - 1]
  BY <1>1, SubSeqProperties
<1>3. /\ SubSeq(s, n + 1, Len(s)) \in Seq(S)
      /\ Len(SubSeq(s, n + 1, Len(s))) = IF n + 1 <= Len(s) THEN Len(s) - (n + 1) + 1 ELSE 0
      /\ \A i \in 1..Len(s) - (n + 1) + 1 : SubSeq(s, n + 1, Len(s))[i] = s[n + 1 + i - 1]
  <2>1. n + 1 \in Int /\ Len(s) \in Int /\ \A i \in n + 1..Len(s) : s[i] \in S
    BY <1>1
  <2> QED
    BY <2>1, SubSeqProperties
<1> QED
  BY <1>1, <1>2, <1>3

\* What is added to a queue, and what is left of it.
LEMMA Queues ==
  ASSUME NEW S, NEW q \in Seq(S), NEW x \in S
  PROVE  /\ Append(q, x) \in Seq(S)
         /\ Len(q) \in Nat
         /\ Len(Append(q, x)) = Len(q) + 1
         /\ \A i \in DOMAIN Append(q, x) : \/ i \in DOMAIN q /\ Append(q, x)[i] = q[i]
                                           \/ i = Len(q) + 1 /\ Append(q, x)[i] = x
         /\ q # << >> => /\ Head(q) = q[1] /\ 1 \in DOMAIN q
                         /\ Tail(q) \in Seq(S) /\ Len(Tail(q)) = Len(q) - 1
                         /\ \A i \in DOMAIN Tail(q) : /\ i + 1 \in DOMAIN q
                                                      /\ i + 1 # 1
                                                      /\ Tail(q)[i] = q[i + 1]
  OBVIOUS

\* A client that has been given k records more.
LEMMA More ==
  ASSUME NEW c \in Clients, TypeOK, Begun(c), NEW k \in 0..Len(stream[c]),
         \A i \in 1..k : stream[c][i] # End
  PROVE  LET got == lines[c] \o SubSeq(stream[c], 1, k)
         IN  /\ got \in Seq(1..Records)
             /\ Len(got) = Len(lines[c]) + k
             /\ Len(got) <= Records
             /\ \A i \in 1..Len(got) : got[i] = i
<1> DEFINE head == SubSeq(stream[c], 1, k)
           got  == lines[c] \o head
<1>1. stream[c] \in Seq(0..Records) /\ lines[c] \in Seq(1..Records)
  BY DEF TypeOK
<1>2. Len(stream[c]) \in Nat /\ Len(lines[c]) \in Nat /\ Records \in Nat
  BY <1>1, Numbers, LenProperties
<1>3. \A i \in 1..k : stream[c][i] \in 1..Records /\ stream[c][i] = Len(lines[c]) + i
  <2> SUFFICES ASSUME NEW i \in 1..k
               PROVE  stream[c][i] \in 1..Records /\ stream[c][i] = Len(lines[c]) + i
    OBVIOUS
  <2>1. i \in 1..Len(stream[c]) /\ stream[c][i] # End
    BY <1>2
  <2>2. stream[c][i] = Nth(Len(lines[c]) + i)
    BY <2>1 DEF Begun
  <2>3. Nth(Len(lines[c]) + i) \in {Len(lines[c]) + i, End}
    BY DEF Nth
  <2>4. stream[c][i] = Len(lines[c]) + i /\ Len(lines[c]) + i <= Records
    BY <1>2, <2>1, <2>2, <2>3 DEF Nth
  <2> QED
    BY <1>2, <2>4
<1>4. /\ head \in Seq(1..Records) /\ Len(head) = k
      /\ \A i \in 1..k : head[i] = Len(lines[c]) + i
  <2>1. /\ head \in Seq(1..Records)
        /\ Len(head) = IF 1 <= k THEN k - 1 + 1 ELSE 0
        /\ \A i \in 1..k - 1 + 1 : head[i] = stream[c][1 + i - 1]
    BY <1>2, <1>3, SubSeqProperties
  <2> QED
    BY <1>2, <1>3, <2>1
<1> HIDE DEF head
<1>5. /\ got \in Seq(1..Records)
      /\ Len(got) = Len(lines[c]) + k
      /\ \A i \in 1..Len(lines[c]) + k :
           got[i] = IF i <= Len(lines[c]) THEN lines[c][i] ELSE head[i - Len(lines[c])]
  BY <1>1, <1>4, ConcatProperties
<1> HIDE DEF got
<1>6. (\A i \in 1..Len(got) : got[i] = i) /\ Len(got) <= Records
  <2>1. \A i \in 1..k : head[i] = Len(lines[c]) + i /\ head[i] \in 1..Records
    BY <1>3, <1>4
  <2>2. Len(lines[c]) <= Records /\ \A i \in 1..Len(lines[c]) : lines[c][i] = i
    BY DEF Begun
  <2>3. ASSUME NEW i \in 1..Len(got) PROVE got[i] = i
    <3>1. CASE i <= Len(lines[c])
      <4>1. i \in 1..Len(lines[c]) /\ i \in 1..Len(lines[c]) + k
        BY <1>2, <1>5, <3>1
      <4>2. lines[c][i] = i
        BY <2>2, <4>1
      <4> QED
        BY <1>5, <3>1, <4>1, <4>2
    <3>2. CASE i > Len(lines[c])
      <4>1. i - Len(lines[c]) \in 1..k
        BY <1>2, <1>5, <3>2
      <4>2. head[i - Len(lines[c])] = i
        BY <1>2, <2>1, <4>1
      <4> QED
        BY <1>2, <1>5, <3>2, <4>2
    <3> QED
      BY <1>2, <3>1, <3>2
  <2>4. Len(lines[c]) + k <= Records
    BY <1>2, <2>1, <2>2
  <2> QED
    BY <1>5, <2>3, <2>4
<1> QED
  BY <1>5, <1>6 DEF got, head

-----------------------------------------------------------------------------
(* The steps of a client *)

LEMMA AskIInv == ASSUME IInv, NEW c \in Clients, Ask(c) PROVE IInv'
<1>0. TypeOK /\ Sessions /\ Answers /\ AnswerIsWhole
  BY DEF IInv
<1>1. /\ asked[c] \in Nat /\ asked[c] < MaxQueries /\ asked' = [asked EXCEPT ![c] = asked[c] + 1]
      /\ asked \in [Clients -> 0..MaxQueries] /\ asked' \in [Clients -> 0..MaxQueries]
      /\ UNCHANGED session
  <2>1. asked[c] < MaxQueries /\ asked' = [asked EXCEPT ![c] = @ + 1] /\ UNCHANGED session
    BY DEF Ask
  <2>2. asked \in [Clients -> 0..MaxQueries]
    BY <1>0 DEF TypeOK
  <2> QED
    BY <2>1, <2>2, Numbers
<1>2. <<c, asked[c] + 1>> \in Connections
  BY <1>1, Numbers DEF Connections
<1>3. backlog \in Seq(Connections) /\ serving \in Connections \cup {NoSession}
  BY <1>0 DEF TypeOK
<1>4. backlog' = backlog \/ (/\ backlog' = Append(backlog, <<c, asked[c] + 1>>)
                             /\ Len(backlog) < Backlog)
  BY DEF Ask
<1>o. \/ cpc' = cpc /\ outcome' = [outcome EXCEPT ![c] = "connection failed"]
      \/ cpc' = [cpc EXCEPT ![c] = "poll"] /\ outcome' = [outcome EXCEPT ![c] = "none"]
  BY DEF Ask
<1>f. /\ cpc[c] = "idle"
      /\ polls' = [polls EXCEPT ![c] = 0]
      /\ lines' = [lines EXCEPT ![c] = << >>]
      /\ stream' = [stream EXCEPT ![c] = << >>]
      /\ hungup' = [hungup EXCEPT ![c] = FALSE]
  BY DEF Ask
<1>5. TypeOK'
  <2>1. backlog' \in Seq(Connections) /\ Len(backlog') <= Backlog
    <3>1. CASE backlog' = backlog
      BY <1>0, <3>1 DEF TypeOK
    <3>2. CASE backlog' = Append(backlog, <<c, asked[c] + 1>>) /\ Len(backlog) < Backlog
      <4>1. /\ Append(backlog, <<c, asked[c] + 1>>) \in Seq(Connections)
            /\ Len(Append(backlog, <<c, asked[c] + 1>>)) = Len(backlog) + 1
            /\ Len(backlog) \in Nat
        BY <1>2, <1>3, Queues
      <4> QED
        BY <3>2, <4>1, Numbers
    <3> QED
      BY <1>4, <3>1, <3>2
  <2>2. /\ cpc' \in [Clients -> {"idle", "poll"}]
        /\ outcome' \in [Clients -> Outcomes]
    BY <1>0, <1>o DEF TypeOK, Outcomes
  <2>3. /\ polls' \in [Clients -> 0..MaxPolls]
        /\ lines' \in [Clients -> Seq(1..Records)]
        /\ stream' \in [Clients -> Seq(0..Records)]
        /\ \A d \in Clients : Len(stream'[d]) <= Buffer
        /\ hungup' \in [Clients -> BOOLEAN]
    BY <1>0, <1>f, Numbers DEF TypeOK
  <2> QED
    BY <1>0, <1>1, <2>1, <2>2, <2>3 DEF TypeOK, session
<1>q. \A i \in DOMAIN backlog' : \/ i \in DOMAIN backlog /\ backlog'[i] = backlog[i]
                                 \/ i = Len(backlog) + 1 /\ backlog'[i] = <<c, asked[c] + 1>>
  BY <1>2, <1>3, <1>4, Queues
<1>6. Sessions'
  <2>2. \A i \in DOMAIN backlog : backlog[i] \in Connections
    BY <1>3
  <2>3. \A i \in DOMAIN backlog : backlog[i] # <<c, asked[c] + 1>>
    BY <1>0, <1>1 DEF Sessions
  <2>4. serving # <<c, asked[c] + 1>>
    BY <1>0, <1>1, NotAConnection DEF Sessions
  <2>5. \A d \in Clients : asked[d] \in Nat /\ asked[d] <= asked'[d]
    BY <1>1, Numbers
  <2>6. \A i \in DOMAIN backlog' : /\ backlog'[i] # serving'
                                   /\ backlog'[i][2] <= asked'[backlog'[i][1]]
    BY <1>0, <1>1, <1>q, <2>2, <2>4, <2>5 DEF Sessions, session, Connections
  <2>7. \A i, j \in DOMAIN backlog' : backlog'[i] = backlog'[j] => i = j
    BY <1>0, <1>q, <2>3 DEF Sessions
  <2>8. serving' # NoSession => serving'[2] <= asked'[serving'[1]]
    BY <1>0, <1>1, <1>3, <2>5 DEF Sessions, session, Connections
  <2>9. peer' = "there" => Alive(serving)'
    <3> SUFFICES ASSUME peer = "there" PROVE Alive(serving)'
      BY <1>1 DEF session
    <3>1. PICK d \in Clients : serving = Mine(d) /\ cpc[d] = "poll"
      BY <1>0 DEF Sessions, Alive
    <3>2. d # c
      BY <1>f, <3>1
    <3>3. asked'[d] = asked[d] /\ cpc'[d] = cpc[d]
      BY <1>0, <1>1, <1>o, <3>2 DEF TypeOK
    <3> QED
      BY <1>1, <3>1, <3>3 DEF Alive, Mine, session
  <2> QED
    BY <1>0, <1>1, <2>6, <2>7, <2>8, <2>9 DEF Sessions, session
<1>7. Answers'
  <2>1. ASSUME NEW d \in Clients, cpc'[d] = "poll" 
                   PROVE outcome'[d] = "none" /\ Begun(d)' /\ Waits(d)' /\ InStep(d)'
    <3>1. CASE d = c
      <4>1. lines'[c] = << >> /\ stream'[c] = << >>
        BY <1>0, <1>f DEF TypeOK
      <4>2. serving' # Mine(c)'
        BY <1>0, <1>1, <1>3, NotAConnection DEF Sessions, Mine, session, Connections
      <4>3. outcome'[c] = "none"
        BY <1>0, <1>f, <1>o, <2>1, <3>1 DEF TypeOK
      <4> QED
        BY <3>1, <4>1, <4>2, <4>3, Numbers DEF Begun, Waits, InStep
    <3>2. CASE d # c
      <4>1. /\ lines'[d] = lines[d] /\ stream'[d] = stream[d] /\ cpc[d] = "poll"
            /\ Mine(d)' = Mine(d)
        BY <1>0, <1>1, <1>o, <1>f, <2>1, <3>2 DEF TypeOK, Mine
      <4>2. (\E i \in DOMAIN backlog' : backlog'[i] = Mine(d))
              => \E i \in DOMAIN backlog : backlog[i] = Mine(d)
        BY <1>q, <3>2 DEF Mine
      <4>3. outcome'[d] = "none" /\ Begun(d) /\ Waits(d) /\ InStep(d)
        BY <1>0, <1>o, <3>2, <4>1 DEF Answers, TypeOK
      <4> QED
        BY <1>1, <4>1, <4>2, <4>3 DEF Begun, Waits, InStep, session
    <3> QED
      BY <3>1, <3>2
  <2> QED
    BY <2>1 DEF Answers
<1>8. AnswerIsWhole'
  BY <1>0, <1>o, <1>f DEF TypeOK, AnswerIsWhole
<1> QED
  BY <1>5, <1>6, <1>7, <1>8 DEF IInv

LEMMA ReadIInv == ASSUME IInv, NEW c \in Clients, Read(c) PROVE IInv'
<1>0. TypeOK /\ Sessions /\ Answers /\ AnswerIsWhole
  BY DEF IInv
<1>1. PICK n \in 1..Len(stream[c]) :
        /\ \A i \in 1..n : stream[c][i] # End
        /\ lines' = [lines EXCEPT ![c] = @ \o SubSeq(stream[c], 1, n)]
        /\ stream' = [stream EXCEPT ![c] = SubSeq(@, n + 1, Len(@))]
  BY DEF Read
<1>2. /\ cpc[c] = "poll" /\ polls[c] < MaxPolls /\ polls' = [polls EXCEPT ![c] = @ + 1]
      /\ UNCHANGED <<cpc, outcome, asked, hungup, backlog, server, serving, peer, next>>
  BY DEF Read, Poll, session
<1>3. outcome[c] = "none" /\ Begun(c) /\ Waits(c) /\ InStep(c)
  BY <1>0, <1>2 DEF Answers
<1>4. stream[c] \in Seq(0..Records) /\ n \in 0..Len(stream[c]) /\ Len(stream[c]) \in Nat
  BY <1>0, <1>1 DEF TypeOK
<1>5. /\ lines'[c] = lines[c] \o SubSeq(stream[c], 1, n)
      /\ stream'[c] = SubSeq(stream[c], n + 1, Len(stream[c]))
      /\ \A d \in Clients \ {c} : lines'[d] = lines[d] /\ stream'[d] = stream[d]
  BY <1>0, <1>1 DEF TypeOK
<1>6. /\ lines'[c] \in Seq(1..Records)
      /\ Len(lines'[c]) = Len(lines[c]) + n
      /\ Len(lines'[c]) <= Records
      /\ \A i \in 1..Len(lines'[c]) : lines'[c][i] = i
  BY <1>0, <1>1, <1>3, <1>4, <1>5, More
<1>7. /\ stream'[c] \in Seq(0..Records)
      /\ Len(stream'[c]) = Len(stream[c]) - n
      /\ \A i \in 1..Len(stream[c]) - n : stream'[c][i] = stream[c][n + i]
  <2>1. /\ SubSeq(stream[c], n + 1, Len(stream[c])) \in Seq(0..Records)
        /\ Len(SubSeq(stream[c], n + 1, Len(stream[c]))) = Len(stream[c]) - n
        /\ \A i \in 1..Len(stream[c]) - n :
             SubSeq(stream[c], n + 1, Len(stream[c]))[i] = stream[c][n + i]
    <3> DEFINE s == stream[c]
    <3>1. s \in Seq(0..Records) /\ n \in 0..Len(s)
      BY <1>4
    <3> HIDE DEF s
    <3>2. /\ SubSeq(s, n + 1, Len(s)) \in Seq(0..Records)
          /\ Len(SubSeq(s, n + 1, Len(s))) = Len(s) - n
          /\ \A i \in 1..Len(s) - n : SubSeq(s, n + 1, Len(s))[i] = s[n + i]
      BY <3>1, Cut
    <3> QED
      BY <3>2 DEF s
  <2> QED
    BY <1>5, <2>1
<1>s. Len(lines'[c]) = Len(lines[c]) + n /\ Len(stream'[c]) = Len(stream[c]) - n
  BY <1>6, <1>7
<1>t. /\ lines \in [Clients -> Seq(1..Records)] /\ lines' \in [Clients -> Seq(1..Records)]
      /\ stream \in [Clients -> Seq(0..Records)] /\ stream' \in [Clients -> Seq(0..Records)]
  BY <1>0, <1>1, <1>5, <1>6, <1>7 DEF TypeOK
<1>8. Len(lines[c]) \in Nat /\ Len(stream[c]) \in Nat /\ n \in Nat /\ n >= 1 /\ n <= Len(stream[c])
  BY <1>0, <1>4 DEF TypeOK
<1>9. TypeOK'
  <2>1. polls' \in [Clients -> 0..MaxPolls]
    BY <1>0, <1>2, Numbers DEF TypeOK
  <2>3. \A d \in Clients : Len(stream'[d]) <= Buffer
    <3>1. \A d \in Clients : Len(stream[d]) <= Buffer
      BY <1>0 DEF TypeOK
    <3>2. Len(stream'[c]) <= Buffer
      BY <1>8, <1>s, <1>t, <3>1, Numbers
    <3> QED
      BY <1>5, <3>1, <3>2
  <2> QED
    BY <1>0, <1>2, <1>t, <2>1, <2>3 DEF TypeOK
<1>10. Sessions'
  BY <1>0, <1>2 DEF Sessions, Alive, Mine
<1>11. Answers'
  <2>1. Begun(c)'
    <3>1. \A i \in 1..Len(stream'[c]) : stream'[c][i] = Nth(Len(lines'[c]) + i)
      <4> SUFFICES ASSUME NEW i \in 1..Len(stream'[c])
                   PROVE  stream'[c][i] = Nth(Len(lines'[c]) + i)
        OBVIOUS
      <4>1. n + i \in 1..Len(stream[c]) /\ stream'[c][i] = stream[c][n + i]
        BY <1>4, <1>7, <1>s
      <4>2. stream[c][n + i] = Nth(Len(lines[c]) + (n + i))
        BY <1>3, <4>1 DEF Begun
      <4>3. Len(lines[c]) + (n + i) = Len(lines'[c]) + i
        BY <1>8, <1>s, <1>t
      <4> QED
        BY <4>1, <4>2, <4>3
    <3>2. Len(lines'[c]) + Len(stream'[c]) <= Records + 1
      BY <1>3, <1>8, <1>s, <1>t, Numbers DEF Begun
    <3> QED
      BY <1>6, <3>1, <3>2 DEF Begun
  <2>2. Waits(c)'
    BY <1>2, <1>3, <1>4 DEF Waits, Mine
  <2>3. InStep(c)'
    BY <1>2, <1>3, <1>8, <1>s, <1>t DEF InStep, Mine
  <2>4. \A d \in Clients \ {c} : 
          cpc'[d] = "poll" => outcome'[d] = "none" /\ Begun(d)' /\ Waits(d)' /\ InStep(d)'
    BY <1>0, <1>2, <1>5 DEF Answers, Begun, Waits, InStep, Mine
  <2> QED
    BY <1>2, <1>3, <2>1, <2>2, <2>3, <2>4 DEF Answers
<1>12. AnswerIsWhole'
  BY <1>0, <1>2, <1>3, <1>5 DEF AnswerIsWhole
<1> QED
  BY <1>9, <1>10, <1>11, <1>12 DEF IInv

\* What the end of a query changes, whatever has been read.
LEMMA ReturnKeeps ==
  ASSUME IInv, NEW c \in Clients, cpc[c] = "poll", NEW what \in Outcomes, NEW left,
         Return(c, what, left), polls' \in [Clients -> 0..MaxPolls],
         lines' \in [Clients -> Seq(1..Records)], stream' \in [Clients -> Seq(0..Records)],
         \A d \in Clients : Len(stream'[d]) <= Buffer,
         \A d \in Clients \ {c} : lines'[d] = lines[d] /\ stream'[d] = stream[d],
         UNCHANGED <<asked, hungup, backlog, server, serving, next>>,
         what = "complete" => lines'[c] = [i \in 1..Records |-> i]
  PROVE  IInv'
<1>0. TypeOK /\ Sessions /\ Answers /\ AnswerIsWhole
  BY DEF IInv
<1>1. /\ cpc' = [cpc EXCEPT ![c] = "idle"] /\ outcome' = [outcome EXCEPT ![c] = what]
      /\ IF serving # Mine(c) THEN peer' = peer ELSE peer' \in {"closed", "reset"}
  BY DEF Return
<1>2. /\ cpc'[c] = "idle" /\ outcome'[c] = what
      /\ \A d \in Clients \ {c} : cpc'[d] = cpc[d] /\ outcome'[d] = outcome[d]
  BY <1>0, <1>1 DEF TypeOK
<1>3. TypeOK'
  <2>1. /\ cpc' \in [Clients -> {"idle", "poll"}] /\ outcome' \in [Clients -> Outcomes]
        /\ peer' \in {"none", "there", "closed", "broken", "reset"}
    BY <1>0, <1>1 DEF TypeOK
  <2> QED
    BY <1>0, <2>1 DEF TypeOK
<1>4. Sessions'
  <2>1. ~InSession => peer' = "none"
    BY <1>0, <1>1, NotAConnection DEF Sessions, Mine
  <2>2. peer' = "there" => Alive(serving)'
    <3> SUFFICES ASSUME peer' = "there" PROVE Alive(serving)'
      OBVIOUS
    <3>1. serving # Mine(c) /\ peer = "there"
      BY <1>1
    <3>2. PICK d \in Clients : serving = Mine(d) /\ cpc[d] = "poll"
      BY <1>0, <3>1 DEF Sessions, Alive
    <3>3. cpc'[d] = "poll"
      BY <1>2, <3>1, <3>2
    <3> QED
      BY <3>2, <3>3 DEF Alive, Mine
  <2> QED
    BY <1>0, <2>1, <2>2 DEF Sessions
<1>5. Answers'
  <2> SUFFICES ASSUME NEW d \in Clients, cpc'[d] = "poll"
               PROVE outcome'[d] = "none" /\ Begun(d)' /\ Waits(d)' /\ InStep(d)'
    BY DEF Answers
  <2>1. d # c
    BY <1>2
  <2>2. outcome'[d] = "none" /\ Begun(d) /\ Waits(d) /\ InStep(d)
    BY <1>0, <1>2, <2>1 DEF Answers
  <2>3. serving = Mine(d) => peer' = peer
    BY <1>1, <2>1 DEF Mine
  <2>4. lines'[d] = lines[d] /\ stream'[d] = stream[d] /\ Mine(d)' = Mine(d)
    BY <2>1 DEF Mine
  <2> QED
    BY <2>2, <2>3, <2>4 DEF Begun, Waits, InStep
<1>6. AnswerIsWhole'
  BY <1>0, <1>2 DEF AnswerIsWhole
<1> QED
  BY <1>3, <1>4, <1>5, <1>6 DEF IInv

LEMMA ReadEndIInv == ASSUME IInv, NEW c \in Clients, ReadEnd(c) PROVE IInv'
<1>0. TypeOK /\ Sessions /\ Answers
  BY DEF IInv
<1>p. PICK n \in 1..Len(stream[c]) : \E k \in 1..n :
        /\ stream[c][k] = End
        /\ \A i \in 1..k - 1 : stream[c][i] # End
        /\ lines' = [lines EXCEPT ![c] = @ \o SubSeq(stream[c], 1, k - 1)]
        /\ stream' = [stream EXCEPT ![c] = SubSeq(stream[c], n + 1, Len(stream[c]))]
        /\ Return(c, "complete", SubSeq(stream[c], n + 1, Len(stream[c])))
  BY DEF ReadEnd
<1>1. PICK k \in 1..n :
        /\ stream[c][k] = End
        /\ \A i \in 1..k - 1 : stream[c][i] # End
        /\ lines' = [lines EXCEPT ![c] = @ \o SubSeq(stream[c], 1, k - 1)]
        /\ stream' = [stream EXCEPT ![c] = SubSeq(stream[c], n + 1, Len(stream[c]))]
        /\ Return(c, "complete", SubSeq(stream[c], n + 1, Len(stream[c])))
  BY <1>p
<1>2. /\ cpc[c] = "poll" /\ polls[c] < MaxPolls /\ polls' = [polls EXCEPT ![c] = @ + 1]
      /\ UNCHANGED <<asked, hungup, backlog, server, serving, next>>
  BY DEF ReadEnd, Poll
<1>3. Begun(c)
  BY <1>0, <1>2 DEF Answers
<1>4. /\ stream \in [Clients -> Seq(0..Records)] /\ lines \in [Clients -> Seq(1..Records)]
      /\ Len(stream[c]) \in Nat /\ Len(lines[c]) \in Nat
      /\ \A d \in Clients : Len(stream[d]) <= Buffer
  BY <1>0 DEF TypeOK
<1>5. /\ n \in Nat /\ k \in Nat /\ k - 1 \in 0..Len(stream[c]) /\ k \in 1..Len(stream[c])
      /\ n \in 0..Len(stream[c])
  BY <1>4
<1>6. \A d \in Clients \ {c} : lines'[d] = lines[d] /\ stream'[d] = stream[d]
  BY <1>1, <1>4
<1>7. Len(lines[c]) + (k - 1) = Records
  <2>1. Nth(Len(lines[c]) + k) = End
    BY <1>1, <1>3, <1>5 DEF Begun
  <2>2. Len(lines[c]) + k > Records
    BY <1>4, <1>5, <2>1, Numbers DEF Nth, End
  <2>3. Len(lines[c]) + Len(stream[c]) <= Records + 1
    BY <1>3 DEF Begun
  <2> QED
    BY <1>4, <1>5, <2>2, <2>3, Numbers
<1>8. /\ lines'[c] \in Seq(1..Records)
      /\ Len(lines'[c]) = Len(lines[c]) + (k - 1)
      /\ \A i \in 1..Len(lines'[c]) : lines'[c][i] = i
  <2>1. lines'[c] = lines[c] \o SubSeq(stream[c], 1, k - 1)
    BY <1>1, <1>4
  <2> QED
    BY <1>0, <1>1, <1>3, <1>5, <2>1, More
<1>10. stream'[c] \in Seq(0..Records) /\ Len(stream'[c]) = Len(stream[c]) - n
  <2> DEFINE s == stream[c]
  <2>1. s \in Seq(0..Records) /\ n \in 0..Len(s)
    BY <1>4, <1>5
  <2>2. stream'[c] = SubSeq(s, n + 1, Len(s))
    BY <1>1, <1>4
  <2> HIDE DEF s
  <2>3. /\ SubSeq(s, n + 1, Len(s)) \in Seq(0..Records)
        /\ Len(SubSeq(s, n + 1, Len(s))) = Len(s) - n
    BY <2>1, Cut
  <2> QED
    BY <2>2, <2>3 DEF s
<1>11. lines' \in [Clients -> Seq(1..Records)] /\ stream' \in [Clients -> Seq(0..Records)]
  BY <1>1, <1>4, <1>6, <1>8, <1>10
<1>9. lines'[c] = [i \in 1..Records |-> i]
  <2>1. Len(lines'[c]) = Records
    BY <1>4, <1>5, <1>7, <1>8, <1>11
  <2> DEFINE l == lines'[c]
  <2>2. l \in Seq(1..Records) /\ Len(l) = Records /\ \A i \in 1..Records : l[i] = i
    BY <1>8, <2>1
  <2> HIDE DEF l
  <2>3. l \in [1..Records -> 1..Records]
    BY <2>2, LenProperties
  <2>4. l = [i \in 1..Records |-> i]
    BY <2>2, <2>3
  <2> QED
    BY <2>4 DEF l
<1>12. \A d \in Clients : Len(stream'[d]) <= Buffer
  <2>1. Len(stream'[c]) <= Buffer
    BY <1>4, <1>5, <1>10, <1>11, Numbers
  <2> QED
    BY <1>4, <1>6, <2>1
<1>13. polls' \in [Clients -> 0..MaxPolls]
  BY <1>0, <1>2, Numbers DEF TypeOK
<1> QED
  BY <1>1, <1>2, <1>6, <1>9, <1>11, <1>12, <1>13, ReturnKeeps DEF Outcomes

LEMMA OtherReturns ==
  ASSUME IInv, NEW c \in Clients, ReadNothing(c) \/ ReadFails(c) \/ GiveUp(c) PROVE IInv'
<1>0. TypeOK /\ Sessions /\ Answers /\ AnswerIsWhole
  BY DEF IInv
<1>1. CASE ReadNothing(c)
  <2>1. /\ polls' = [polls EXCEPT ![c] = @ + 1] /\ polls[c] < MaxPolls
        /\ UNCHANGED <<cpc, lines, outcome, asked, stream, hungup, backlog,
                       server, serving, peer, next>>
    BY <1>1 DEF ReadNothing, Poll, session
  <2>2. polls' \in [Clients -> 0..MaxPolls]
    BY <1>0, <2>1, Numbers DEF TypeOK
  <2> QED
    BY <1>0, <2>1, <2>2
    DEF IInv, TypeOK, Sessions, Alive, Mine, Answers, Begun, Waits, InStep,
         AnswerIsWhole
<1>2. CASE ReadFails(c) \/ GiveUp(c)
  <2>1. PICK what \in Outcomes \ {"complete"}, left \in {<< >>, stream[c]} :
         Return(c, what, left)
    <3>1. \/ Return(c, "connection failed", << >>) \/ Return(c, "connection lost", << >>)
          \/ Return(c, "no reply", stream[c])
      BY <1>2 DEF ReadFails, GiveUp
    <3>2. {"connection failed", "connection lost", "no reply"} \subseteq Outcomes \ {"complete"}
      BY DEF Outcomes
    <3> QED
      BY <3>1, <3>2
  <2>2. /\ cpc[c] = "poll"
        /\ UNCHANGED <<lines, stream, asked, hungup, backlog, server, serving, next>>
        /\ polls' = polls \/ (polls[c] < MaxPolls /\ polls' = [polls EXCEPT ![c] = @ + 1])
    BY <1>2 DEF ReadFails, GiveUp, Poll
  <2>3. polls' \in [Clients -> 0..MaxPolls]
    <3>1. polls \in [Clients -> 0..MaxPolls]
      BY <1>0 DEF TypeOK
    <3>2. CASE polls' = polls
      BY <3>1, <3>2
    <3>3. CASE polls[c] < MaxPolls /\ polls' = [polls EXCEPT ![c] = @ + 1]
      BY <3>1, <3>3, Numbers
    <3> QED
      BY <2>2, <3>2, <3>3
  <2>4. /\ lines \in [Clients -> Seq(1..Records)] /\ stream \in [Clients -> Seq(0..Records)]
        /\ \A d \in Clients : Len(stream[d]) <= Buffer
    BY <1>0 DEF TypeOK
  <2> QED
    BY <2>1, <2>2, <2>3, <2>4, ReturnKeeps
<1> QED
  BY <1>1, <1>2

-----------------------------------------------------------------------------
(* The steps of accept_thread_ *)

LEMMA AcceptIInv == ASSUME IInv, Accept PROVE IInv'
<1>0. TypeOK /\ Sessions /\ Answers /\ AnswerIsWhole
  BY DEF IInv
<1>1. /\ server = "accept" /\ backlog # << >> /\ server' = "recv"
      /\ serving' = Head(backlog) /\ backlog' = Tail(backlog) /\ next' = 1
      /\ peer' = IF Alive(Head(backlog)) THEN "there" ELSE "closed"
      /\ UNCHANGED <<cpc, polls, lines, outcome, asked, stream, hungup>>
  BY DEF Accept, client
<1>2. backlog \in Seq(Connections) /\ Len(backlog) <= Backlog
  BY <1>0 DEF TypeOK
<1>3. /\ serving' = backlog[1] /\ 1 \in DOMAIN backlog
      /\ backlog' \in Seq(Connections) /\ Len(backlog) \in Nat
      /\ Len(backlog') = Len(backlog) - 1
      /\ \A i \in DOMAIN backlog' : /\ i + 1 \in DOMAIN backlog /\ i + 1 # 1
                                    /\ backlog'[i] = backlog[i + 1]
  <2>1. \A x \in Connections : backlog # << >> =>
          /\ Head(backlog) = backlog[1] /\ 1 \in DOMAIN backlog
          /\ Tail(backlog) \in Seq(Connections) /\ Len(Tail(backlog)) = Len(backlog) - 1
          /\ Len(backlog) \in Nat
          /\ \A i \in DOMAIN Tail(backlog) : /\ i + 1 \in DOMAIN backlog /\ i + 1 # 1
                                             /\ Tail(backlog)[i] = backlog[i + 1]
    BY <1>2, Queues
  <2>2. Connections # {}
    BY <1>1, <1>2
  <2> QED
    BY <1>1, <2>1, <2>2
<1>4. serving' \in Connections /\ serving' # NoSession
  BY <1>2, <1>3, NotAConnection DEF Connections
<1>5. TypeOK'
  BY <1>0, <1>1, <1>2, <1>3, <1>4, Numbers DEF TypeOK
<1>6. Sessions'
  <2>1. \A i \in DOMAIN backlog' : /\ backlog'[i] # serving'
                                   /\ backlog'[i][2] <= asked'[backlog'[i][1]]
    BY <1>0, <1>1, <1>3 DEF Sessions
  <2>2. \A i, j \in DOMAIN backlog' : backlog'[i] = backlog'[j] => i = j
    <3> SUFFICES ASSUME NEW i \in DOMAIN backlog', NEW j \in DOMAIN backlog',
                        backlog'[i] = backlog'[j]
                 PROVE  i = j
      OBVIOUS
    <3>1. i + 1 = j + 1
      BY <1>0, <1>3 DEF Sessions
    <3>2. i \in Nat /\ j \in Nat
      BY <1>3
    <3> QED
      BY <3>1, <3>2
  <2>3. serving'[2] <= asked'[serving'[1]]
    BY <1>0, <1>1, <1>3 DEF Sessions
  <2>4. peer' = "there" => Alive(serving)'
    BY <1>1 DEF Alive, Mine
  <2> QED
    BY <1>1, <1>4, <2>1, <2>2, <2>3, <2>4 DEF Sessions
<1>7. Answers'
  <2> SUFFICES ASSUME NEW c \in Clients, cpc[c] = "poll"
               PROVE  outcome'[c] = "none" /\ Begun(c)' /\ Waits(c)' /\ InStep(c)'
    BY <1>1 DEF Answers
  <2>1. outcome[c] = "none" /\ Begun(c) /\ Waits(c)
    BY <1>0 DEF Answers
  <2>2. Waits(c)'
    BY <1>1, <1>3, <2>1 DEF Waits, Mine
  <2>3. InStep(c)'
    <3> SUFFICES ASSUME backlog[1] = Mine(c)
                 PROVE  peer' = "there" /\ next' = Len(lines[c]) + Len(stream[c]) + 1
      BY <1>1, <1>3 DEF InStep, Mine
    <3>1. Alive(backlog[1])
      BY DEF Alive
    <3>2. Len(lines[c]) = 0 /\ Len(stream[c]) = 0
      BY <1>3, <2>1 DEF Waits
    <3> QED
      BY <1>1, <1>3, <3>1, <3>2
  <2> QED
    BY <1>1, <2>1, <2>2, <2>3 DEF Begun
<1> QED
  BY <1>0, <1>1, <1>5, <1>6, <1>7 DEF IInv, AnswerIsWhole

\* What the end of a session changes: the client only knows whether it is hung up.
LEMMA EndKeeps ==
  ASSUME TypeOK, Sessions,
         server' \in {"accept", "killed", "down"}, serving' = NoSession, peer' = "none", next' = 1,
         UNCHANGED <<cpc, polls, lines, outcome, asked>>,
         hungup' \in [Clients -> BOOLEAN], backlog' = backlog \/ backlog' = << >>,
         stream' \in [Clients -> Seq(0..Records)],
         \A c \in Clients : Len(stream'[c]) <= Buffer,
         \A c \in Clients : cpc[c] = "poll" =>
           /\ outcome[c] = "none" /\ Begun(c)'
           /\ (\E i \in DOMAIN backlog : backlog[i] = Mine(c))
                 => Len(lines[c]) = 0 /\ Len(stream'[c]) = 0,
         AnswerIsWhole
  PROVE  IInv'
<1>1. TypeOK'
  <2>1. backlog' \in Seq(Connections) /\ Len(backlog') <= Backlog
    <3>1. backlog \in Seq(Connections) /\ Len(backlog) <= Backlog
      BY DEF TypeOK
    <3>2. << >> \in Seq(Connections) /\ Len(<< >>) = 0
      OBVIOUS
    <3>3. CASE backlog' = backlog
      BY <3>1, <3>3
    <3>4. CASE backlog' = << >>
      BY <3>2, <3>4, Numbers
    <3> QED
      BY <3>3, <3>4
  <2> QED
    BY <2>1, Numbers DEF TypeOK
<1>2. \A i \in DOMAIN backlog' : i \in DOMAIN backlog /\ backlog'[i] = backlog[i]
  OBVIOUS
<1>3. \A i \in DOMAIN backlog : backlog[i] # NoSession
  <2>1. \A i \in DOMAIN backlog : backlog[i] \in Connections
    BY DEF TypeOK
  <2> QED
    BY <2>1, NotAConnection DEF Connections
<1>4. Sessions'
  BY <1>2, <1>3 DEF Sessions
<1>5. Answers'
  BY <1>2, NotAConnection DEF Answers, Waits, InStep, Mine
<1> QED
  BY <1>1, <1>4, <1>5 DEF IInv, AnswerIsWhole

LEMMA SendFrameIInv == ASSUME IInv, SendFrame PROVE IInv'
<1>0. TypeOK /\ Sessions /\ Answers /\ AnswerIsWhole
  BY DEF IInv
<1>3. PICK c \in Clients : serving = Mine(c) /\ cpc[c] = "poll"
  <2>1. peer = "there"
    BY DEF SendFrame
  <2> QED
    BY <1>0, <2>1 DEF Sessions, Alive
<1>c. serving[1] = c
  BY <1>3 DEF Mine
<1>1. /\ server = "send" /\ peer = "there" /\ Len(stream[c]) < Buffer
      /\ stream' = [stream EXCEPT ![c] = Append(@, Frame)]
      /\ UNCHANGED <<cpc, polls, lines, outcome, asked, backlog>>
  BY <1>c DEF SendFrame, client
<1>2. \/ Frame = End /\ SessionEnds /\ hungup' = [hungup EXCEPT ![c] = TRUE]
      \/ Frame # End /\ next' = next + 1 /\ UNCHANGED <<server, serving, peer, hungup>>
  BY <1>c DEF SendFrame
<1>4. outcome[c] = "none" /\ Begun(c) /\ next = Len(lines[c]) + Len(stream[c]) + 1
  BY <1>0, <1>3 DEF Answers, InStep
<1>5. /\ stream \in [Clients -> Seq(0..Records)] /\ lines \in [Clients -> Seq(1..Records)]
      /\ Len(stream[c]) \in Nat /\ Len(lines[c]) \in Nat /\ next \in 1..Records + 1
      /\ \A d \in Clients : Len(stream[d]) <= Buffer
  BY <1>0, <1>3 DEF TypeOK
<1>6. Frame \in 0..Records /\ Frame = Nth(next)
  BY <1>5, Numbers DEF Frame, Nth, End
<1>7. /\ stream'[c] \in Seq(0..Records) /\ Len(stream'[c]) = Len(stream[c]) + 1
      /\ \A i \in 1..Len(stream[c]) : stream'[c][i] = stream[c][i]
      /\ stream'[c][Len(stream[c]) + 1] = Frame
  <2> DEFINE s == stream[c]
  <2>1. s \in Seq(0..Records)
    BY <1>3, <1>5
  <2>2. stream'[c] = Append(s, Frame)
    BY <1>1, <1>3, <1>5
  <2> HIDE DEF s
  <2>3. /\ Append(s, Frame) \in Seq(0..Records) /\ Len(Append(s, Frame)) = Len(s) + 1
        /\ \A i \in 1..Len(s) : Append(s, Frame)[i] = s[i]
        /\ Append(s, Frame)[Len(s) + 1] = Frame
    BY <1>6, <2>1
  <2> QED
    BY <2>2, <2>3 DEF s
<1>8. \A d \in Clients \ {c} : stream'[d] = stream[d]
  BY <1>1, <1>5
<1>9. stream' \in [Clients -> Seq(0..Records)]
  BY <1>1, <1>5, <1>7, <1>8
<1>10. \A d \in Clients : Len(stream'[d]) <= Buffer
  <2>1. Len(stream'[c]) <= Buffer
    BY <1>1, <1>3, <1>5, <1>7, <1>9, Numbers
  <2> QED
    BY <1>5, <1>8, <2>1
<1>11. Begun(c)'
  <2>1. \A i \in 1..Len(stream'[c]) : stream'[c][i] = Nth(Len(lines[c]) + i)
    <3> SUFFICES ASSUME NEW i \in 1..Len(stream'[c])
                 PROVE  stream'[c][i] = Nth(Len(lines[c]) + i)
      OBVIOUS
    <3>1. CASE i \in 1..Len(stream[c])
      BY <1>4, <1>7, <3>1 DEF Begun
    <3>2. CASE i = Len(stream[c]) + 1
      <4>1. Len(lines[c]) + i = next
        BY <1>3, <1>4, <1>5, <3>2
      <4> QED
        BY <1>6, <1>7, <3>2, <4>1
    <3> QED
      BY <1>3, <1>5, <1>7, <1>9, <3>1, <3>2
  <2>2. Len(lines[c]) + Len(stream'[c]) <= Records + 1
    BY <1>3, <1>4, <1>5, <1>7, <1>9, Numbers
  <2> QED
    BY <1>1, <1>4, <2>1, <2>2 DEF Begun
<1>12. \A d \in Clients : cpc[d] = "poll" =>
          /\ outcome[d] = "none" /\ Begun(d)'
          /\ (\E i \in DOMAIN backlog : backlog[i] = Mine(d))
                => Len(lines[d]) = 0 /\ Len(stream'[d]) = 0
  <2> SUFFICES ASSUME NEW d \in Clients, cpc[d] = "poll"
               PROVE  /\ outcome[d] = "none" /\ Begun(d)'
                      /\ (\E i \in DOMAIN backlog : backlog[i] = Mine(d))
                            => Len(lines[d]) = 0 /\ Len(stream'[d]) = 0
    OBVIOUS
  <2>1. CASE d = c
    BY <1>0, <1>3, <1>4, <1>11, <2>1 DEF Sessions
  <2>2. CASE d # c
    <3>1. outcome[d] = "none" /\ Begun(d) /\ Waits(d)
      BY <1>0 DEF Answers
    <3> QED
      BY <1>1, <1>8, <2>2, <3>1 DEF Begun, Waits
  <2> QED
    BY <2>1, <2>2
<1>13. CASE Frame = End /\ SessionEnds /\ hungup' = [hungup EXCEPT ![c] = TRUE]
  <2>1. hungup' \in [Clients -> BOOLEAN]
    BY <1>0, <1>13 DEF TypeOK
  <2> QED
    BY <1>0, <1>1, <1>9, <1>10, <1>12, <1>13, <2>1, EndKeeps DEF SessionEnds
<1>14. CASE Frame # End /\ next' = next + 1 /\ UNCHANGED <<server, serving, peer, hungup>>
  <2>1. next' \in 1..Records + 1
    BY <1>5, <1>14, Numbers DEF Frame
  <2>2. TypeOK'
    BY <1>0, <1>1, <1>9, <1>10, <1>14, <2>1 DEF TypeOK
  <2>3. Sessions'
    BY <1>0, <1>1, <1>14 DEF Sessions, Alive, Mine
  <2>4. Answers'
    <3> SUFFICES ASSUME NEW d \in Clients, cpc[d] = "poll"
                 PROVE  outcome'[d] = "none" /\ Begun(d)' /\ Waits(d)' /\ InStep(d)'
      BY <1>1 DEF Answers
    <3>1. outcome'[d] = "none" /\ Begun(d)' /\ Waits(d)'
      BY <1>1, <1>12 DEF Waits, Mine
    <3>2. CASE d = c
      <4>1. next' = Len(lines[c]) + Len(stream'[c]) + 1
        BY <1>3, <1>4, <1>5, <1>7, <1>9, <1>14
      <4> QED
        BY <1>1, <1>14, <3>1, <3>2, <4>1 DEF InStep
    <3>3. CASE d # c
      BY <1>1, <1>3, <1>14, <3>1, <3>3 DEF InStep, Mine
    <3> QED
      BY <3>2, <3>3
  <2> QED
    BY <1>0, <1>1, <2>2, <2>3, <2>4 DEF IInv, AnswerIsWhole
<1> QED
  BY <1>2, <1>13, <1>14

LEMMA OtherSends == ASSUME IInv, SendLost \/ SendFails \/ Killed PROVE IInv'
<1>0. TypeOK /\ Sessions /\ Answers /\ AnswerIsWhole
  BY DEF IInv
<1>1. /\ server = "send" /\ peer # "there"
      /\ UNCHANGED <<cpc, polls, lines, outcome, asked, stream>>
      /\ \/ SessionEnds /\ UNCHANGED <<hungup, backlog>>
         \/ /\ Frame # End /\ next' = next + 1 /\ peer' \in {"closed", "broken"}
            /\ UNCHANGED <<server, serving, hungup, backlog>>
         \/ /\ server' = "killed" /\ serving' = NoSession /\ peer' = "none" /\ next' = 1
            /\ hungup' = [c \in Clients |-> TRUE] /\ backlog' = << >>
  BY DEF SendLost, SendFails, Killed, ProcessEnds, client
<1>2. \A c \in Clients : cpc[c] = "poll" =>
         /\ outcome[c] = "none" /\ Begun(c)' /\ Begun(c) /\ Waits(c) /\ InStep(c)
  BY <1>0, <1>1 DEF Answers, Begun
<1>3. CASE /\ Frame # End /\ next' = next + 1 /\ peer' \in {"closed", "broken"}
           /\ UNCHANGED <<server, serving, hungup, backlog>>
  <2>1. next' \in 1..Records + 1
    BY <1>0, <1>3, Numbers DEF Frame, TypeOK
  <2> QED
    BY <1>0, <1>1, <1>2, <1>3, <2>1
    DEF IInv, TypeOK, Sessions, Answers, Waits, InStep, Mine,
       AnswerIsWhole
<1>4. CASE \/ SessionEnds /\ UNCHANGED <<hungup, backlog>>
           \/ /\ server' = "killed" /\ serving' = NoSession /\ peer' = "none" /\ next' = 1
              /\ hungup' = [c \in Clients |-> TRUE] /\ backlog' = << >>
  <2>1. /\ hungup' \in [Clients -> BOOLEAN] /\ stream' \in [Clients -> Seq(0..Records)]
        /\ \A c \in Clients : Len(stream'[c]) <= Buffer
    BY <1>0, <1>1, <1>4 DEF TypeOK
  <2>2. /\ server' \in {"accept", "killed", "down"} /\ serving' = NoSession /\ peer' = "none"
        /\ next' = 1 /\ (backlog' = backlog \/ backlog' = << >>)
    BY <1>4 DEF SessionEnds
  <2>3. \A c \in Clients : cpc[c] = "poll" =>
           /\ outcome[c] = "none" /\ Begun(c)'
           /\ (\E i \in DOMAIN backlog : backlog[i] = Mine(c))
                 => Len(lines[c]) = 0 /\ Len(stream'[c]) = 0
    BY <1>1, <1>2 DEF Waits
  <2> QED
    BY <1>0, <1>1, <2>1, <2>2, <2>3, EndKeeps
<1> QED
  BY <1>1, <1>3, <1>4

LEMMA ReadRequestIInv == ASSUME IInv, ReadRequest PROVE IInv'
BY DEF IInv, ReadRequest, client, TypeOK, Sessions, Alive, Mine, Answers, Begun,
       Waits, InStep, AnswerIsWhole

\* A session that breaks leaves its client the beginning of an answer, and only
\* query() can say that it is not the whole.
LEMMA SessionBreaksIInv == ASSUME IInv, SessionBreaks PROVE IInv'
<1>0. TypeOK /\ Sessions /\ Answers /\ AnswerIsWhole
  BY DEF IInv
<1>1. /\ SessionEnds
      /\ UNCHANGED <<cpc, polls, lines, outcome, asked, backlog>>
  BY DEF SessionBreaks, client
<1>2. /\ stream \in [Clients -> Seq(0..Records)] /\ lines \in [Clients -> Seq(1..Records)]
      /\ \A d \in Clients : Len(stream[d]) <= Buffer
      /\ \A d \in Clients : Len(stream[d]) \in Nat /\ Len(lines[d]) \in Nat
  BY <1>0 DEF TypeOK
<1>3. \A d \in Clients : cpc[d] = "poll" => outcome[d] = "none" /\ Begun(d) /\ Waits(d)
  BY <1>0 DEF Answers
<1>4. CASE peer = "there"
  <2>1. PICK c \in Clients : serving = Mine(c)
    BY <1>0, <1>4 DEF Sessions, Alive
  <2>2. serving[1] = c
    BY <2>1 DEF Mine
  <2>3. /\ hungup' = [hungup EXCEPT ![c] = TRUE]
        /\ \E n \in 0..Len(stream[c]) :
             stream' = [stream EXCEPT ![c] = SubSeq(stream[c], 1, n)]
    BY <1>4, <2>2 DEF SessionBreaks
  <2>4. PICK n \in 0..Len(stream[c]) :
           stream' = [stream EXCEPT ![c] = SubSeq(stream[c], 1, n)]
    BY <2>3
  <2>5. /\ stream'[c] \in Seq(0..Records) /\ Len(stream'[c]) = n
        /\ \A i \in 1..n : stream'[c][i] = stream[c][i]
    <3> DEFINE s == stream[c]
    <3>1. s \in Seq(0..Records) /\ n \in 0..Len(s)
      BY <1>2
    <3>2. stream'[c] = SubSeq(s, 1, n)
      BY <1>2, <2>4
    <3> HIDE DEF s
    <3>3. /\ SubSeq(s, 1, n) \in Seq(0..Records) /\ Len(SubSeq(s, 1, n)) = n
          /\ \A i \in 1..n : SubSeq(s, 1, n)[i] = s[i]
      BY <3>1, Cut
    <3> QED
      BY <3>2, <3>3 DEF s
  <2>6. \A d \in Clients \ {c} : stream'[d] = stream[d]
    BY <1>2, <2>4
  <2>7. stream' \in [Clients -> Seq(0..Records)]
    BY <1>2, <2>4, <2>5, <2>6
  <2>8. n \in Nat /\ n <= Len(stream[c])
    BY <1>2
  <2>9. \A d \in Clients : Len(stream'[d]) <= Buffer
    <3>1. Len(stream'[c]) <= Buffer
      BY <1>2, <2>5, <2>8, Numbers
    <3> QED
      BY <1>2, <2>6, <3>1
  <2>10. ASSUME NEW d \in Clients, cpc[d] = "poll"
         PROVE  /\ outcome[d] = "none" /\ Begun(d)'
                /\ (\E i \in DOMAIN backlog : backlog[i] = Mine(d))
                      => Len(lines[d]) = 0 /\ Len(stream'[d]) = 0
    <3>1. outcome[d] = "none" /\ Begun(d) /\ Waits(d)
      BY <1>3, <2>10
    <3>2. CASE d = c
      <4>1. Len(lines[c]) + Len(stream'[c]) <= Records + 1
        BY <1>2, <2>5, <2>8, <3>1, <3>2, Numbers DEF Begun
      <4>2. \A i \in 1..Len(stream'[c]) : stream'[c][i] = Nth(Len(lines[c]) + i)
        BY <1>2, <2>5, <2>8, <3>1, <3>2 DEF Begun
      <4>3. Begun(c)'
        BY <1>1, <3>1, <3>2, <4>1, <4>2 DEF Begun
      <4> QED
        BY <1>0, <2>1, <3>1, <3>2, <4>3 DEF Sessions
    <3>3. CASE d # c
      BY <1>1, <2>6, <3>1, <3>3 DEF Begun, Waits
    <3> QED
      BY <3>2, <3>3
  <2>11. hungup' \in [Clients -> BOOLEAN]
    BY <1>0, <2>3 DEF TypeOK
  <2> QED
    BY <1>0, <1>1, <2>7, <2>9, <2>10, <2>11, EndKeeps DEF SessionEnds
<1>5. CASE peer # "there"
  <2>1. UNCHANGED <<hungup, stream>>
    BY <1>5 DEF SessionBreaks
  <2>2. \A d \in Clients : cpc[d] = "poll" =>
          /\ outcome[d] = "none" /\ Begun(d)'
          /\ (\E i \in DOMAIN backlog : backlog[i] = Mine(d))
                => Len(lines[d]) = 0 /\ Len(stream'[d]) = 0
    BY <1>1, <1>3, <2>1 DEF Begun, Waits
  <2>3. hungup' \in [Clients -> BOOLEAN]
    BY <1>0, <2>1 DEF TypeOK
  <2> QED
    BY <1>0, <1>1, <1>2, <2>1, <2>2, <2>3, EndKeeps DEF SessionEnds
<1> QED
  BY <1>4, <1>5

\* The process may end anywhere, in the middle of an answer too.
LEMMA DiesIInv == ASSUME IInv, Dies PROVE IInv'
<1>0. TypeOK /\ Sessions /\ Answers /\ AnswerIsWhole
  BY DEF IInv
<1>1. /\ server' = "down" /\ serving' = NoSession /\ peer' = "none" /\ next' = 1
      /\ hungup' = [c \in Clients |-> TRUE] /\ backlog' = << >>
      /\ UNCHANGED <<cpc, polls, lines, outcome, asked, stream>>
  BY DEF Dies, ProcessEnds, client
<1>2. /\ hungup' \in [Clients -> BOOLEAN] /\ stream' \in [Clients -> Seq(0..Records)]
      /\ \A c \in Clients : Len(stream'[c]) <= Buffer
  BY <1>0, <1>1 DEF TypeOK
<1>3. \A c \in Clients : cpc[c] = "poll" =>
        /\ outcome[c] = "none" /\ Begun(c)'
        /\ (\E i \in DOMAIN backlog : backlog[i] = Mine(c))
              => Len(lines[c]) = 0 /\ Len(stream'[c]) = 0
  BY <1>0, <1>1 DEF Answers, Begun, Waits
<1> QED
  BY <1>0, <1>1, <1>2, <1>3, EndKeeps

LEMMA RestartIInv == ASSUME IInv, Restart PROVE IInv'
BY DEF IInv, Restart, client, TypeOK, Sessions, Alive, Mine, Answers, Begun,
       Waits, InStep, AnswerIsWhole

-----------------------------------------------------------------------------
\* The inductive invariant holds in every state (query() and GsLinkServer).
THEOREM Invariance == Spec => []IInv
<1>1. IInv /\ [Next]_vars => IInv'
  <2> SUFFICES ASSUME IInv, [Next]_vars PROVE IInv'
    OBVIOUS
  <2>1. CASE UNCHANGED vars
    BY <2>1 DEF vars, client, session, IInv, TypeOK, Sessions, Alive, Mine, Answers, Begun,
       Waits, InStep, AnswerIsWhole
  <2>2. CASE ServerStep
    BY <2>2, AcceptIInv, ReadRequestIInv, SendFrameIInv, OtherSends DEF ServerStep
  <2>3. CASE \E c \in Clients : Ask(c) \/ ClientStep(c)
    BY <2>3, AskIInv, ReadIInv, ReadEndIInv, OtherReturns DEF ClientStep
  <2>4. CASE Failure
    BY <2>4, SessionBreaksIInv, DiesIInv, RestartIInv DEF Failure
  <2> QED
    BY <2>1, <2>2, <2>3, <2>4 DEF Next
<1> QED
  BY <1>1, InitIInv, PTL DEF Spec

\* Every variable of the clients, the connections and the server keeps its type.
THEOREM TypeCorrect == Spec => []TypeOK
<1>1. IInv => TypeOK
  BY DEF IInv
<1> QED
  BY <1>1, Invariance, PTL

\* An answer shown as complete has every record once and in order, though clients
\* give up, sessions break and the server's process ends in the middle of an
\* answer (query(), handle_client()).
THEOREM Whole == Spec => []AnswerIsWhole
<1>1. IInv => AnswerIsWhole
  BY DEF IInv
<1> QED
  BY <1>1, Invariance, PTL

-----------------------------------------------------------------------------
(* The fleet *)


\* What holds of 0, and of n + 1 whenever it holds of n, holds of every number.
LEMMA Induction ==
  ASSUME NEW S, 0 \in S, \A n \in Nat : n \in S => n + 1 \in S
  PROVE  \A n \in Nat : n \in S
<1> DEFINE T == Nat \ S
           R == {p \in Nat \X Nat : p[1] < p[2]}
<1>1. IsWellFoundedOn(R, Nat)
  <2>1. OpToRel(<, Nat) = R
    BY DEF OpToRel
  <2> QED
    BY <2>1, NatLessThanWellFounded
<1>2. SUFFICES ASSUME T # {} PROVE FALSE
  OBVIOUS
<1>3. PICK x \in T : \A y \in T : ~(<<y, x>> \in R)
  <2>1. T \subseteq Nat
    OBVIOUS
  <2> HIDE DEF T, R
  <2> QED
    BY <1>1, <1>2, <2>1, WFMin
<1>4. x \in Nat /\ x # 0 /\ x \notin S
  OBVIOUS
<1>5. x - 1 \in Nat /\ (x - 1) + 1 = x /\ x - 1 < x
  BY <1>4
<1>6. <<x - 1, x>> \in R
  BY <1>4, <1>5
<1>7. x - 1 \notin T
  BY <1>3, <1>6
<1>8. x - 1 \in S
  BY <1>5, <1>7
<1> QED
  BY <1>4, <1>5, <1>8

\* The defining equations of Without: its recursive function exists.
LEMMA WithoutIs ==
  ASSUME NEW S, NEW seq \in Seq(S), NEW s
  PROVE  \E kept :
           /\ kept = [n \in 0..Len(seq) |->
                        IF n = 0 THEN << >>
                        ELSE IF seq[n] = s THEN kept[n - 1]
                        ELSE Append(kept[n - 1], seq[n])]
           /\ Without(seq, s) = kept[Len(seq)]
<1> DEFINE Kept(k, kept) ==
             kept = [n \in 0..k |-> IF n = 0 THEN << >>
                                    ELSE IF seq[n] = s THEN kept[n - 1]
                                    ELSE Append(kept[n - 1], seq[n])]
           E == {k \in Nat : \E kept : Kept(k, kept)}
<1>1. 0 \in E
  <2>1. Kept(0, [n \in 0..0 |-> << >>])
    OBVIOUS
  <2> QED
    BY <2>1
<1>2. ASSUME NEW k \in Nat, k \in E
      PROVE  k + 1 \in E
  <2>1. PICK g : Kept(k, g)
    BY <1>2
  <2> DEFINE x == IF seq[k + 1] = s THEN g[k] ELSE Append(g[k], seq[k + 1])
             h == [n \in 0..k + 1 |-> IF n = k + 1 THEN x ELSE g[n]]
  <2>2. ASSUME NEW n \in 0..k + 1
        PROVE  h[n] = IF n = 0 THEN << >>
                      ELSE IF seq[n] = s THEN h[n - 1]
                      ELSE Append(h[n - 1], seq[n])
    <3>1. CASE n = k + 1
      <4>1. n # 0 /\ n - 1 = k /\ k \in 0..k + 1 /\ k # k + 1
        BY <3>1
      <4>2. h[n] = x /\ h[k] = g[k]
        BY <3>1, <4>1
      <4> HIDE DEF h
      <4> QED
        BY <3>1, <4>1, <4>2
    <3>2. CASE n # k + 1
      <4>1. n \in 0..k
        BY <3>2
      <4>2. h[n] = g[n]
        BY <3>2
      <4>3. n # 0 => n - 1 \in 0..k + 1 /\ n - 1 # k + 1 /\ n - 1 \in 0..k
        BY <4>1
      <4>4. n # 0 => h[n - 1] = g[n - 1]
        BY <4>3
      <4>5. g[n] = IF n = 0 THEN << >>
                   ELSE IF seq[n] = s THEN g[n - 1]
                   ELSE Append(g[n - 1], seq[n])
        BY <2>1, <4>1
      <4> HIDE DEF h
      <4> QED
        BY <4>2, <4>4, <4>5
    <3> QED
      BY <3>1, <3>2
  <2>3. Kept(k + 1, h)
    BY <2>2
  <2> HIDE DEF h, Kept
  <2> QED
    BY <2>3
<1>3. \A k \in Nat : k \in E
  <2> HIDE DEF E
  <2> QED
    BY <1>1, <1>2, Induction
<1>4. Len(seq) \in Nat
  BY LenProperties
<1>5. \E kept : Kept(Len(seq), kept)
  BY <1>3, <1>4
<1> DEFINE kept == CHOOSE f : Kept(Len(seq), f)
<1>6. Kept(Len(seq), kept)
  BY <1>5
<1>7. Without(seq, s) = kept[Len(seq)]
  BY DEF Without
<1> QED
  BY <1>6, <1>7

\* No element occurs twice.
Distinct(seq) == \A i, j \in DOMAIN seq : seq[i] = seq[j] => i = j

\* One element more.
LEMMA AppendElements ==
  ASSUME NEW S, NEW seq \in Seq(S), NEW x \in S
  PROVE  /\ Append(seq, x) \in Seq(S)
         /\ Elements(Append(seq, x)) = Elements(seq) \cup {x}
         /\ Distinct(seq) /\ x \notin Elements(seq) => Distinct(Append(seq, x))
<1> DEFINE l == Len(seq)  a == Append(seq, x)
<1>1. l \in Nat /\ DOMAIN seq = 1..l
  BY LenProperties
<1>2. /\ a \in Seq(S) /\ Len(a) = l + 1 /\ a[l + 1] = x
      /\ \A i \in 1..l : a[i] = seq[i]
  BY AppendProperties
<1>3. DOMAIN a = 1..l + 1
  BY <1>2, LenProperties
<1> HIDE DEF l, a
<1>4. 1..l + 1 = (1..l) \cup {l + 1}
  BY <1>1
<1>5. Elements(a) = Elements(seq) \cup {x}
  BY <1>1, <1>2, <1>3, <1>4 DEF Elements
<1>6. Distinct(seq) /\ x \notin Elements(seq) => Distinct(a)
  BY <1>1, <1>2, <1>3, <1>4 DEF Elements, Distinct
<1> QED
  BY <1>2, <1>5, <1>6 DEF a

\* Without leaves out s and nothing else, and repeats nothing.
LEMMA WithoutElements ==
  ASSUME NEW S, NEW seq \in Seq(S), NEW s
  PROVE  /\ Without(seq, s) \in Seq(S)
         /\ Elements(Without(seq, s)) = Elements(seq) \ {s}
         /\ Distinct(seq) => Distinct(Without(seq, s))
<1> DEFINE l == Len(seq)
           First(n) == {seq[i] : i \in 1..n}
<1>1. PICK kept :
        /\ kept = [n \in 0..l |-> IF n = 0 THEN << >>
                                   ELSE IF seq[n] = s THEN kept[n - 1]
                                   ELSE Append(kept[n - 1], seq[n])]
        /\ Without(seq, s) = kept[l]
  BY WithoutIs
<1>2. l \in Nat /\ DOMAIN seq = 1..l /\ \A i \in 1..l : seq[i] \in S
  BY LenProperties, ElementOfSeq
<1> HIDE DEF l
<1> DEFINE Good(n) == /\ kept[n] \in Seq(S)
                      /\ Elements(kept[n]) = First(n) \ {s}
                      /\ Distinct(seq) => Distinct(kept[n])
           G == {n \in Nat : n <= l => Good(n)}
<1>3. 0 \in G
  <2>1. kept[0] = << >>
    BY <1>1, <1>2
  <2>2. First(0) = {} /\ DOMAIN << >> = {} /\ << >> \in Seq(S)
    BY EmptySeq
  <2> QED
    BY <2>1, <2>2 DEF Elements, Distinct
<1>4. ASSUME NEW n \in Nat, n \in G
      PROVE  n + 1 \in G
  <2> SUFFICES ASSUME n + 1 <= l PROVE Good(n + 1)
    OBVIOUS
  <2>1. /\ n + 1 \in 0..l /\ n + 1 # 0 /\ (n + 1) - 1 = n /\ n + 1 \in 1..l
        /\ n <= l
    BY <1>2
  <2>2. Good(n)
    BY <1>4, <2>1
  <2>3. kept[n + 1] = IF seq[n + 1] = s THEN kept[n] ELSE Append(kept[n], seq[n + 1])
    BY <1>1, <2>1
  <2>4. First(n + 1) = First(n) \cup {seq[n + 1]}
    <3>1. 1..n + 1 = (1..n) \cup {n + 1}
      OBVIOUS
    <3> QED
      BY <3>1
  <2>5. CASE seq[n + 1] = s
    BY <2>2, <2>3, <2>4, <2>5
  <2>6. CASE seq[n + 1] # s
    <3>1. /\ kept[n + 1] \in Seq(S)
          /\ Elements(kept[n + 1]) = Elements(kept[n]) \cup {seq[n + 1]}
          /\ Distinct(kept[n]) /\ seq[n + 1] \notin Elements(kept[n])
               => Distinct(kept[n + 1])
      BY <1>2, <2>1, <2>2, <2>3, <2>6, AppendElements
    <3>2. Distinct(seq) => seq[n + 1] \notin First(n)
      <4> SUFFICES ASSUME Distinct(seq), NEW i \in 1..n, seq[n + 1] = seq[i] PROVE FALSE
        OBVIOUS
      <4>1. i \in 1..l /\ i # n + 1
        BY <2>1, <1>2
      <4> QED
        BY <1>2, <2>1, <4>1 DEF Distinct
    <3> QED
      BY <2>2, <2>4, <2>6, <3>1, <3>2
  <2> QED
    BY <2>5, <2>6
<1>5. \A n \in Nat : n \in G
  <2> HIDE DEF G
  <2> QED
    BY <1>3, <1>4, Induction
<1>6. Good(l)
  <2>1. l \in G
    BY <1>2, <1>5
  <2>2. l <= l
    BY <1>2
  <2> HIDE DEF Good
  <2> QED
    BY <2>1, <2>2
<1>7. First(l) = Elements(seq)
  BY <1>2 DEF Elements
<1> QED
  BY <1>1, <1>6, <1>7

\* Missions by kind of submarine: only a combat submarine has one, and it has
\* one while it is assigned; a submarine that is not there is not assigned.
MissionByType ==
  \A s \in Serials :
    /\ type[s] = "none" => ~assigned[s]
    /\ type[s] # "combat" => mission[s] = None
    /\ type[s] = "combat" => (assigned[s] <=> mission[s] # None)

LinkedOnce == \A s \in Serials : Distinct(linked[s])

MutualLinks ==
  \A s, t \in Serials :
    t \in Elements(linked[s]) => s # t /\ s \in Elements(linked[t])

\* LinksAreMutual is inductive with the types: linkSubmarine() asks one end only,
\* and endMission() calls std::remove() only for the peers it knows of.
FleetInv == FleetTypeOK /\ MutualLinks /\ LinkedOnce

\* Nobody is linked at first.
LEMMA FleetStart == FleetInit => FleetInv
<1> SUFFICES ASSUME FleetInit PROVE FleetInv
  OBVIOUS
<1>1. \A S : << >> \in Seq(S)
  BY EmptySeq
<1>2. FleetTypeOK
  BY <1>1 DEF FleetInit, FleetTypeOK
<1>3. Elements(<< >>) = {} /\ Distinct(<< >>)
  BY DEF Elements, Distinct
<1> QED
  BY <1>2, <1>3 DEF FleetInit, FleetInv, MutualLinks, LinkedOnce

\* endMission(): the submarine forgets its peers, and each of them forgets it.
LEMMA EndMissionKeeps ==
  ASSUME FleetInv, NEW s \in Serials, EndMission(s)
  PROVE  FleetInv'
<1> USE DEF FleetInv
<1>1. \A t \in Serials :
        /\ linked[t] \in Seq(Serials)
        /\ linked'[t] = IF t = s THEN << >>
                        ELSE IF t \in Elements(linked[s]) THEN Without(linked[t], s)
                        ELSE linked[t]
  BY DEF EndMission, IsLinkedTo, FleetTypeOK
<1>2. ASSUME NEW t \in Serials
      PROVE  /\ linked'[t] \in Seq(Serials)
             /\ Elements(linked'[t]) = IF t = s THEN {}
                                       ELSE Elements(linked[t]) \ {s}
             /\ Distinct(linked'[t])
  <2>1. CASE t = s
    <3>1. linked'[t] = << >>
      BY <1>1, <2>1
    <3>2. Elements(<< >>) = {} /\ Distinct(<< >>)
      BY DEF Elements, Distinct
    <3> QED
      BY <2>1, <3>1, <3>2, EmptySeq
  <2>2. CASE t # s /\ t \in Elements(linked[s])
    <3> DEFINE w == Without(linked[t], s)
    <3>1. /\ w \in Seq(Serials)
          /\ Elements(w) = Elements(linked[t]) \ {s}
          /\ Distinct(linked[t]) => Distinct(w)
      BY <1>1, WithoutElements
    <3>2. linked'[t] = w /\ Distinct(linked[t])
      BY <1>1, <2>2 DEF LinkedOnce
    <3> HIDE DEF w
    <3> QED
      BY <2>2, <3>1, <3>2
  <2>3. CASE t # s /\ t \notin Elements(linked[s])
    BY <1>1, <2>3 DEF LinkedOnce, MutualLinks
  <2> QED
    BY <2>1, <2>2, <2>3
<1>3. FleetTypeOK'
  <2>1. linked' \in [Serials -> Seq(Serials)]
    BY <1>2 DEF EndMission
  <2>2. history' \in [Serials -> Seq(Missions)]
    <3>1. history[s] \in Seq(Missions) /\ mission[s] \in Missions \cup {None}
      BY DEF FleetTypeOK
    <3>2. mission[s] # None => Append(history[s], mission[s]) \in Seq(Missions)
      BY <3>1, AppendProperties
    <3> QED
      BY <3>1, <3>2 DEF EndMission, FleetTypeOK
  <2> QED
    BY <2>1, <2>2 DEF EndMission, FleetTypeOK
<1>4. MutualLinks'
  <2> DEFINE E(t) == Elements(linked[t])
             F(t) == Elements(linked'[t])
  <2>1. \A t \in Serials : F(t) = IF t = s THEN {} ELSE E(t) \ {s}
    BY <1>2
  <2>2. \A t, u \in Serials : u \in E(t) => t # u /\ t \in E(u)
    BY DEF MutualLinks
  <2> HIDE DEF E, F
  <2>3. \A t, u \in Serials : u \in F(t) => t # u /\ t \in F(u)
    BY <2>1, <2>2
  <2> QED
    BY <2>3 DEF MutualLinks, F
<1>5. LinkedOnce'
  BY <1>2 DEF LinkedOnce
<1> QED
  BY <1>3, <1>4, <1>5

\* linkSubmarine(): asking one end is enough, and both are told.
LEMMA LinkKeeps ==
  ASSUME FleetInv, NEW s \in Serials, NEW other \in Serials, LinkSubmarine(s, other)
  PROVE  FleetInv'
<1> USE DEF FleetInv
<1>1. /\ other # s
      /\ other \notin Elements(linked[s]) /\ s \notin Elements(linked[other])
  BY DEF LinkSubmarine, IsLinkedTo, MutualLinks
<1>2. \A t \in Serials :
        /\ linked[t] \in Seq(Serials)
        /\ linked'[t] = IF t = s THEN Append(linked[t], other)
                        ELSE IF t = other THEN Append(linked[t], s)
                        ELSE linked[t]
  BY <1>1 DEF LinkSubmarine, FleetTypeOK
<1>3. ASSUME NEW t \in Serials
      PROVE  /\ linked'[t] \in Seq(Serials)
             /\ Elements(linked'[t]) =
                  Elements(linked[t]) \cup (IF t = s THEN {other}
                                            ELSE IF t = other THEN {s} ELSE {})
             /\ Distinct(linked'[t])
  <2>1. CASE t = s
    <3>1. linked'[t] = Append(linked[t], other) /\ linked[t] \in Seq(Serials)
      BY <1>1, <1>2, <2>1
    <3>2. Distinct(linked[t]) /\ other \notin Elements(linked[t])
      BY <1>1, <2>1 DEF LinkedOnce
    <3>3. /\ linked'[t] \in Seq(Serials)
          /\ Elements(linked'[t]) = Elements(linked[t]) \cup {other}
          /\ Distinct(linked'[t])
      BY <3>1, <3>2, AppendElements
    <3> QED
      BY <1>1, <2>1, <3>3
  <2>2. CASE t = other
    <3>1. linked'[t] = Append(linked[t], s) /\ linked[t] \in Seq(Serials)
      BY <1>1, <1>2, <2>2
    <3>2. Distinct(linked[t]) /\ s \notin Elements(linked[t])
      BY <1>1, <2>2 DEF LinkedOnce
    <3>3. /\ linked'[t] \in Seq(Serials)
          /\ Elements(linked'[t]) = Elements(linked[t]) \cup {s}
          /\ Distinct(linked'[t])
      BY <3>1, <3>2, AppendElements
    <3> QED
      BY <1>1, <2>2, <3>3
  <2>3. CASE t \notin {s, other}
    BY <1>2, <2>3 DEF LinkedOnce
  <2> QED
    BY <2>1, <2>2, <2>3
<1>4. FleetTypeOK'
  BY <1>3 DEF LinkSubmarine, FleetTypeOK
<1>5. MutualLinks'
  <2> DEFINE E(t) == Elements(linked[t])
             F(t) == Elements(linked'[t])
  <2>1. \A t \in Serials : F(t) = E(t) \cup (IF t = s THEN {other}
                                           ELSE IF t = other THEN {s} ELSE {})
    BY <1>3
  <2>2. \A t, u \in Serials : u \in E(t) => t # u /\ t \in E(u)
    BY DEF MutualLinks
  <2> HIDE DEF E, F
  <2>3. \A t, u \in Serials : u \in F(t) => t # u /\ t \in F(u)
    BY <1>1, <2>1, <2>2
  <2> QED
    BY <2>3 DEF MutualLinks, F
<1>6. LinkedOnce'
  BY <1>3 DEF LinkedOnce
<1> QED
  BY <1>4, <1>5, <1>6

\* The other menu actions leave the links alone.
LEMMA FleetStep == FleetInv /\ [FleetNext]_fleetVars => FleetInv'
<1> SUFFICES ASSUME FleetInv, [FleetNext]_fleetVars PROVE FleetInv'
  OBVIOUS
<1>1. ASSUME UNCHANGED linked, FleetTypeOK'
      PROVE  FleetInv'
  BY <1>1 DEF FleetInv, MutualLinks, LinkedOnce
<1>2. ASSUME NEW s \in Serials,
             AddSubmarine(s) \/ AssignMission(s) \/ UpdateMission(s)
      PROVE  FleetInv'
  <2>1. FleetTypeOK
    BY DEF FleetInv
  <2>2. UNCHANGED linked /\ FleetTypeOK'
    BY <1>2, <2>1 DEF AddSubmarine, AssignMission, UpdateMission,
                      FleetTypeOK
  <2> QED
    BY <1>1, <2>2
<1>3. ASSUME NEW s \in Serials, NEW t \in Serials, SendMessage(s, t)
      PROVE  FleetInv'
  <2>1. FleetTypeOK
    BY DEF FleetInv
  <2>2. Append(inbox[t], s) \in Seq(Serials)
    BY <2>1, AppendProperties DEF FleetTypeOK
  <2>3. UNCHANGED linked /\ FleetTypeOK'
    BY <1>3, <2>1, <2>2 DEF SendMessage, FleetTypeOK
  <2> QED
    BY <1>1, <2>3
<1>4. CASE UNCHANGED fleetVars
  BY <1>4 DEF fleetVars, FleetTypeOK, FleetInv, MutualLinks, LinkedOnce
<1> QED
  BY <1>2, <1>3, <1>4, EndMissionKeeps, LinkKeeps DEF FleetNext

\* The fleet's variables keep their types.
THEOREM FleetTypeCorrect == FleetSpec => []FleetTypeOK
<1>1. FleetInv => FleetTypeOK
  BY DEF FleetInv
<1> QED
  BY <1>1, FleetStart, FleetStep, PTL DEF FleetSpec

\* On any fleet, after any menu actions, a link is known to both ends, once to
\* each, and never leads back to the submarine itself.
THEOREM Links == FleetSpec => []LinksAreMutual
<1>1. FleetInv => LinksAreMutual
  BY DEF FleetInv, MutualLinks, LinkedOnce, Distinct, LinksAreMutual, IsLinkedTo
<1> QED
  BY <1>1, FleetStart, FleetStep, PTL DEF FleetSpec

\* MissionByType, which a submarine's kind makes inductive, is kept.
LEMMA MissionStep ==
  ASSUME FleetTypeOK, MissionByType, [FleetNext]_fleetVars
  PROVE  MissionByType'
<1> USE FleetAssumption DEF MissionByType
<1>1. ASSUME NEW s \in Serials, AddSubmarine(s)
      PROVE  MissionByType'
  BY <1>1 DEF AddSubmarine, FleetTypeOK
<1>2. ASSUME NEW s \in Serials, AssignMission(s)
      PROVE  MissionByType'
  <2>1. CASE type[s] = "combat"
    BY <1>2, <2>1 DEF AssignMission, FleetTypeOK
  <2>2. CASE type[s] # "combat"
    BY <1>2, <2>2 DEF AssignMission, FleetTypeOK
  <2> QED
    BY <2>1, <2>2
<1>3. ASSUME NEW s \in Serials, UpdateMission(s)
      PROVE  MissionByType'
  BY <1>3 DEF UpdateMission, FleetTypeOK
<1>4. ASSUME NEW s \in Serials, EndMission(s)
      PROVE  MissionByType'
  BY <1>4 DEF EndMission, FleetTypeOK
<1>5. ASSUME UNCHANGED <<type, assigned, mission>>
      PROVE  MissionByType'
  BY <1>5
<1> QED
  BY <1>1, <1>2, <1>3, <1>4, <1>5
     DEF FleetNext, LinkSubmarine, SendMessage, fleetVars

\* A combat submarine has a mission exactly while it is assigned, so that
\* do_update_mission() finds one.
THEOREM MissionsFollow == FleetSpec => []MissionWhileAssigned
<1>1. FleetInit => FleetInv /\ MissionByType
  BY FleetStart DEF FleetInit, MissionByType
<1>2. FleetInv /\ MissionByType /\ [FleetNext]_fleetVars => (FleetInv /\ MissionByType)'
  BY FleetStep, MissionStep DEF FleetInv
<1>3. MissionByType => MissionWhileAssigned
  BY DEF MissionByType, MissionWhileAssigned
<1> QED
  BY <1>1, <1>2, <1>3, PTL DEF FleetSpec
=============================================================================
