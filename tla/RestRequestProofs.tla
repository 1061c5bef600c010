------------------------- MODULE RestRequestProofs -------------------------
(* Proofs about RestRequest, for every set of threads and every scenario:   *)
(* any number of requests, polls, expired tokens and nested renewals, with  *)
(* or without a close() at any moment.                                      *)
EXTENDS RestRequest, FiniteSetTheorems, SequenceTheorems, TLAPS

Answered == Codes \cup {"none", "reading", "STORED", "RENEWED"}
Outcomes == {"none", "answered", "raised", "closed", "reauthentication"}

Typed ==
    /\ scenario \in Scenarios
    /\ issued \in Nat \ {0} /\ token \in 0..issued /\ master_token \in 0..issued
    /\ session_alive \in SUBSET (1..issued) /\ master_alive \in SUBSET (1..issued)
    /\ expired \in BOOLEAN /\ closing \in 0..2
    /\ lock \in SUBSET Threads /\ token_at \in Nat /\ master_at \in Nat
    /\ stack \in [Threads -> Seq(Frame)]
    /\ answer \in [Threads -> Answered]
    /\ pair \in [Threads -> 0..issued]
    /\ polls \in [Threads -> 0..MaxPolls] /\ begun \in [Threads -> 0..MaxRequests]
    /\ no_results \in [Threads -> BOOLEAN] /\ outcome \in [Threads -> Outcomes]

\* The calls of a thread are nested as the code nests them, and one that has a
\* renewal's answer to handle was not made too deep.
CallsNested(t) ==
    LET s == stack[t] IN
    /\ s = <<>> => answer[t] = "none"
    /\ answer[t] \in {"reading", "STORED"} => s # <<>> /\ Top(t).fn = "renew"
    /\ s # <<>> => s[1].fn # "renew"
    /\ \A i \in 2..Len(s) :
         s[i].fn = "renew" \/ (i = 2 /\ s[i].fn = "get" /\ s[1].fn = "post")
    /\ Len(s) <= MaxStack + 1
    /\ s # <<>> /\ answer[t] = "SESSION_EXPIRED" /\ Top(t).fn = "renew" => Len(s) < MaxStack

ShapeInv == \A t \in Threads : CallsNested(t)

\* A thread that has stored one token and not yet the other holds the lock, alone; what
\* others may then see is its session token, or none after close().
LockInv ==
    /\ \A t \in Threads : answer[t] = "STORED" => lock = {t}
    /\ \A t \in lock : answer[t] = "STORED" /\ token \in {0, pair[t]}
    /\ TokensPaired

\* Tokens are stored in turn, the session token first; a renewal that has read its master
\* token has one that was stored by then.
StampInv ==
    /\ master_at <= token_at /\ (lock = {} => master_at = token_at)
    /\ \A t \in Threads : answer[t] = "reading" => Top(t).at <= master_at

\* Where no renewal is itself renewed: a renewal is the innermost call, and it is made
\* with a master token that was issued, or with none after close().
MasterGone == DeadMasters # {} \/ closing > 0

RenewalAsked(t) ==
    LET s == stack[t] IN
    /\ \A i \in 1..Len(s) :
         /\ s[i].token \in 0..issued
         /\ s[i].fn = "renew" =>
              i = Len(s) /\ s[i].is_master /\ (s[i].token = 0 => closing > 0)
    /\ s # <<>> /\ answer[t] = "RENEWED" => Top(t).fn # "renew"
    /\ s # <<>> /\ Top(t).fn = "renew" /\ answer[t] \in {"OK", "STORED"} => pair[t] \in 1..issued
    /\ s # <<>> /\ Top(t).fn = "renew" /\ answer[t] \in NoMaster => MasterGone
    /\ outcome[t] = "reauthentication" => MasterGone

RefusalInv ==
    /\ master_token = 0 => closing > 0
    /\ \A t \in Threads : RenewalAsked(t)

\* The session token that the innermost request of a thread was sent with.
Asks(t) == stack[t] # <<>> /\ answer[t] \notin {"STORED", "RENEWED"}
Asked(t) ==
    IF Top(t).fn = "renew" THEN stack[t][Len(stack[t]) - 1].token ELSE Top(t).token

\* A new pair has arrived and no token of it is yet stored.
Holds(t) == stack[t] # <<>> /\ Top(t).fn = "renew" /\ answer[t] = "OK"

\* A thread at work on a renewal met a session token that has expired.
Renews(t) == stack[t] # <<>> /\ (Top(t).fn = "renew" \/ answer[t] = "SESSION_EXPIRED")
MetExpired == \A t \in Threads : Renews(t) => Asked(t) \in DeadSessions

\* A pair that is not yet installed is known to nobody else.
PairsPrivate ==
    \A t \in Threads : Holds(t) =>
      /\ pair[t] # token
      /\ \A u \in Threads : u # t /\ Holds(u) => pair[u] # pair[t]
      /\ \A u \in Threads : Asks(u) => Asked(u) # pair[t]

\* For whose renewal, and of which expired session token, each pair was issued: a thread
\* never asks again with a token for which it has installed another one.
Ledger(w) ==
    /\ \A i, j \in 2..issued : w[i] = w[j] => i = j
    /\ \A i \in 2..issued :
         LET t == w[i][1]  k == w[i][2] IN
         /\ \A u \in Threads : Holds(u) => pair[u] # k
         /\ ~(Holds(t) /\ pair[t] = i) => token # k /\ (Asks(t) => Asked(t) # k)

LedgerInv ==
    /\ MetExpired /\ PairsPrivate
    /\ \E w \in [2..issued -> Threads \X DeadSessions] : Ledger(w)

SimpleRenewals == scenario.stack = 2

Inv ==
    /\ Typed /\ ShapeInv /\ LockInv /\ StampInv
    /\ SimpleRenewals => RefusalInv /\ LedgerInv

-----------------------------------------------------------------------------
(* The settings of a scenario.                                              *)
LEMMA ScenarioFacts ==
    ASSUME scenario \in Scenarios
    PROVE  /\ MaxStack \in Nat /\ MaxStack >= 2 /\ MaxPolls \in Nat /\ MaxRequests \in Nat
           /\ scenario.threads \subseteq Threads
BY ParametersAssumption DEF MaxStack, MaxPolls, MaxRequests

(* The sequences that calling, returning and resending make of a stack.     *)
LEMMA StackOps ==
    ASSUME NEW s \in Seq(Frame), NEW f \in Frame
    PROVE  /\ Len(s) \in Nat /\ (s = <<>> <=> Len(s) = 0)
           /\ \A i \in 1..Len(s) : s[i] \in Frame
           /\ Append(s, f) \in Seq(Frame) /\ Len(Append(s, f)) = Len(s) + 1
           /\ Append(s, f)[Len(s) + 1] = f
           /\ \A i \in 1..Len(s) : Append(s, f)[i] = s[i]
           /\ <<f>> \in Seq(Frame) /\ Len(<<f>>) = 1 /\ <<f>>[1] = f
BY AppendProperties, EmptySeq, LenProperties, ElementOfSeq

(* The stack of the caller.                                                 *)
LEMMA CallerOps ==
    ASSUME NEW s \in Seq(Frame), s # <<>>
    PROVE  LET c == SubSeq(s, 1, Len(s) - 1) IN
           /\ c \in Seq(Frame) /\ Len(c) = Len(s) - 1 /\ Len(s) \in Nat \ {0}
           /\ \A i \in 1..Len(s) - 1 : c[i] = s[i]
<1> DEFINE m == Len(s) - 1
<1>1. Len(s) \in Nat \ {0} /\ m \in Nat /\ \A i \in 1..m : s[i] \in Frame
  BY EmptySeq, ElementOfSeq
<1>2. Len(s) = m + 1
  BY <1>1
<1> HIDE DEF m
<1>3. /\ SubSeq(s, 1, m) \in Seq(Frame)
      /\ Len(SubSeq(s, 1, m)) = IF 1 <= m THEN m - 1 + 1 ELSE 0
      /\ \A i \in 1..m - 1 + 1 : SubSeq(s, 1, m)[i] = s[1 + i - 1]
  BY <1>1, SubSeqProperties
<1>4. Len(SubSeq(s, 1, m)) = m /\ \A i \in 1..m : SubSeq(s, 1, m)[i] = s[i]
  BY <1>1, <1>3
<1> QED
  BY <1>1, <1>3, <1>4 DEF m

(* What a thread's stack is made of.                                        *)
LEMMA StackFacts ==
    ASSUME Typed, NEW t \in Threads
    PROVE  /\ stack[t] \in Seq(Frame) /\ Len(stack[t]) \in Nat
           /\ \A i \in 1..Len(stack[t]) : stack[t][i] \in Frame
           /\ stack[t] # <<>> =>
                /\ Len(stack[t]) >= 1 /\ Top(t) \in Frame
                /\ Caller(t) \in Seq(Frame) /\ Len(Caller(t)) = Len(stack[t]) - 1
                /\ \A i \in 1..Len(stack[t]) - 1 : Caller(t)[i] = stack[t][i]
<1>1. stack[t] \in Seq(Frame)
  BY DEF Typed
<1>2. Len(stack[t]) \in Nat /\ \A i \in 1..Len(stack[t]) : stack[t][i] \in Frame
  BY <1>1, LenProperties, ElementOfSeq
<1>3. stack[t] # <<>> => Len(stack[t]) >= 1
  BY <1>1, EmptySeq
<1>4. stack[t] # <<>> =>
        /\ Caller(t) \in Seq(Frame) /\ Len(Caller(t)) = Len(stack[t]) - 1
        /\ \A i \in 1..Len(stack[t]) - 1 : Caller(t)[i] = stack[t][i]
  BY <1>1, CallerOps DEF Caller
<1> QED
  BY <1>1, <1>2, <1>3, <1>4 DEF Top

\* A call as it is made again after a renewal.
Resent(g) == [g EXCEPT !.token = token, !.is_master = FALSE, !.no_results = FALSE]

\* A renewal that has read both its tokens.
Complete(g) == [g EXCEPT !.at = 0]

(* The frames of new calls.                                                 *)
LEMMA FrameFacts ==
    ASSUME Typed
    PROVE  /\ \A nr \in BOOLEAN : Post(nr) \in Frame
           /\ Get \in Frame /\ TokenRequest \in Frame
           /\ \A g \in Frame : Resent(g) \in Frame /\ Resent(g).fn = g.fn /\ Resent(g).token = token
           /\ \A g \in Frame : /\ Complete(g) \in Frame /\ Complete(g).fn = g.fn
                               /\ Complete(g).token = g.token
                               /\ Complete(g).is_master = g.is_master
<1>1. token \in Nat /\ master_token \in Nat /\ master_at \in Nat
  BY DEF Typed
<1>2. \A nr \in BOOLEAN : Post(nr) \in Frame
  BY <1>1 DEF Post, Frame
<1>3. Get \in Frame /\ TokenRequest \in Frame
  BY <1>1 DEF Get, TokenRequest, Frame
<1>4. \A g \in Frame : Resent(g) \in Frame /\ Resent(g).fn = g.fn /\ Resent(g).token = token
  BY <1>1 DEF Frame, Resent
<1>5. \A g \in Frame : /\ Complete(g) \in Frame /\ Complete(g).fn = g.fn
                       /\ Complete(g).token = g.token /\ Complete(g).is_master = g.is_master
  BY DEF Frame, Complete
<1> QED
  BY <1>2, <1>3, <1>4, <1>5

-----------------------------------------------------------------------------
(* Every step keeps the types.                                              *)
LEMMA TypedStep == Typed /\ ShapeInv /\ [Next]_vars => Typed'
<1> SUFFICES ASSUME Typed, ShapeInv, [Next]_vars PROVE Typed'
  OBVIOUS
<1>1. CASE UNCHANGED vars
  BY <1>1 DEF vars, tokens, server, Typed, MaxPolls, MaxRequests
<1>2. CASE Next
  <2>0. /\ scenario' = scenario /\ MaxPolls' = MaxPolls /\ MaxRequests' = MaxRequests
        /\ MaxPolls \in Nat /\ MaxRequests \in Nat /\ scenario.threads \subseteq Threads
    BY <1>2, ScenarioFacts DEF Next, Typed, MaxPolls, MaxRequests
  <2>1. /\ scenario \in Scenarios
        /\ issued \in Nat \ {0} /\ token \in 0..issued /\ master_token \in 0..issued
        /\ session_alive \in SUBSET (1..issued) /\ master_alive \in SUBSET (1..issued)
        /\ expired \in BOOLEAN /\ closing \in 0..2
        /\ lock \in SUBSET Threads /\ token_at \in Nat /\ master_at \in Nat
        /\ stack \in [Threads -> Seq(Frame)] /\ answer \in [Threads -> Answered]
        /\ pair \in [Threads -> 0..issued]
        /\ polls \in [Threads -> 0..MaxPolls] /\ begun \in [Threads -> 0..MaxRequests]
        /\ no_results \in [Threads -> BOOLEAN] /\ outcome \in [Threads -> Outcomes]
    BY DEF Typed
  <2> DEFINE
       ServerTyped == /\ issued' \in Nat \ {0}
                      /\ session_alive' \in SUBSET (1..issued')
                      /\ master_alive' \in SUBSET (1..issued')
       TokensTyped == /\ token' \in 0..issued' /\ master_token' \in 0..issued'
                      /\ expired' \in BOOLEAN /\ closing' \in 0..2
                      /\ lock' \in SUBSET Threads /\ token_at' \in Nat /\ master_at' \in Nat
       CallsTyped == /\ stack' \in [Threads -> Seq(Frame)] /\ answer' \in [Threads -> Answered]
                     /\ pair' \in [Threads -> 0..issued']
                     /\ polls' \in [Threads -> 0..MaxPolls]
                     /\ begun' \in [Threads -> 0..MaxRequests]
                     /\ no_results' \in [Threads -> BOOLEAN]
                     /\ outcome' \in [Threads -> Outcomes]
  <2>2. SUFFICES ServerTyped /\ TokensTyped /\ CallsTyped
    BY <2>0, <2>1 DEF Typed
  <2> USE <2>0, <2>1
  <2>3. ASSUME UNCHANGED server PROVE ServerTyped
    BY <2>3 DEF server
  <2>4. ASSUME UNCHANGED <<tokens, expired, closing, server>> PROVE TokensTyped
    BY <2>4 DEF server, tokens
  <2>5. CASE Close
    <3>1. ServerTyped
      BY <2>3, <2>5 DEF Close
    <3>2. TokensTyped
      BY <2>5 DEF Close, server
    <3>3. CallsTyped
      BY <2>5 DEF Close, server
    <3> QED
      BY <3>1, <3>2, <3>3
  <2>6. CASE Expire
    BY <2>6 DEF Expire, ExpireSession, ExpireMaster, tokens
  <2>7. ASSUME NEW t \in Threads, NEW how \in Outcomes, End(t, how), UNCHANGED <<begun, server>>
        PROVE  CallsTyped
    BY <2>7, EmptySeq DEF End, Answered, server
  <2>8. ASSUME NEW t \in Threads, NEW s \in Seq(Frame), NEW c \in Answered, Continue(t, s, c),
               UNCHANGED begun, issued' \in Nat, issued' >= issued
        PROVE  CallsTyped
    BY <2>8 DEF Continue
  <2>9. ASSUME NEW t \in Threads, Begin(t) PROVE ServerTyped /\ TokensTyped /\ CallsTyped
    <3>1. UNCHANGED <<tokens, expired, closing, server>>
      BY <2>9 DEF Begin, Request, Heartbeat, Call
    <3>2. ASSUME NEW f \in Frame, Call(t, f) PROVE CallsTyped
      <4>1. <<f>> \in Seq(Frame)
        BY StackOps, EmptySeq
      <4>2. f.no_results \in BOOLEAN
        BY DEF Frame
      <4> QED
        BY <3>2, <4>1, <4>2 DEF Call, server
    <3>3. ASSUME NEW f \in Frame, Request(t, f) PROVE CallsTyped
      BY <3>2, <3>3, <2>7 DEF Request, Outcomes
    <3>4. CallsTyped
      BY <2>9, <3>2, <3>3, FrameFacts DEF Begin, Heartbeat
    <3> QED
      BY <2>3, <2>4, <3>1, <3>4
  <2>10. ASSUME NEW t \in Threads, Answer(t) PROVE ServerTyped /\ TokensTyped /\ CallsTyped
    <3>1. PICK c \in Answers(t) :
            /\ answer' = [answer EXCEPT ![t] = c]
            /\ polls' = [polls EXCEPT ![t] = IF c \in InProgress THEN @ + 1 ELSE @]
            /\ IF c = "OK" /\ Top(t).fn = "renew"
               THEN /\ issued' = issued + 1
                    /\ session_alive' = session_alive \cup {issued'}
                    /\ master_alive' = master_alive \cup {issued'}
                    /\ pair' = [pair EXCEPT ![t] = issued']
               ELSE UNCHANGED <<server, pair>>
      BY <2>10 DEF Answer
    <3>2. c \in Codes /\ (c \in InProgress => polls[t] < MaxPolls)
      BY <3>1 DEF Answers, RenewAnswers, RequestAnswers, Codes, InProgress, NoMaster
    <3>3. issued' \in Nat \ {0} /\ issued' >= issued /\ ServerTyped
          /\ pair' \in [Threads -> 0..issued']
      <4>1. CASE c = "OK" /\ Top(t).fn = "renew"
        <5>1. /\ issued' = issued + 1 /\ pair' = [pair EXCEPT ![t] = issued']
              /\ session_alive' = session_alive \cup {issued'}
              /\ master_alive' = master_alive \cup {issued'}
          BY <3>1, <4>1
        <5>2. pair' \in [Threads -> 0..issued']
          BY <5>1
        <5>3. ServerTyped
          BY <5>1
        <5> QED
          BY <5>1, <5>2, <5>3
      <4>2. CASE ~(c = "OK" /\ Top(t).fn = "renew")
        <5>1. UNCHANGED <<issued, session_alive, master_alive, pair>>
          BY <3>1, <4>2 DEF server
        <5> QED
          BY <5>1
      <4> QED
        BY <4>1, <4>2
    <3>4. answer' \in [Threads -> Answered] /\ polls' \in [Threads -> 0..MaxPolls]
      BY <3>1, <3>2 DEF Answered
    <3>5. UNCHANGED <<tokens, expired, closing, stack, begun, no_results, outcome>>
      BY <2>10 DEF Answer
    <3> QED
      BY <3>3, <3>4, <3>5, <2>1 DEF tokens
  <2>11. ASSUME NEW t \in Threads, FetchRaises(t) \/ RenewalFails(t)
         PROVE  ServerTyped /\ TokensTyped /\ CallsTyped
    BY <2>3, <2>4, <2>7, <2>11 DEF FetchRaises, RenewalFails, Outcomes
  <2>12. ASSUME NEW t \in Threads, Renew(t) \/ ReadOld(t) \/ Resend(t) \/ Poll(t)
         PROVE  ServerTyped /\ TokensTyped /\ CallsTyped
    <3>1. UNCHANGED <<tokens, expired, closing, begun, server>>
      BY <2>12 DEF Renew, ReadOld, Resend, Poll
    <3>2. stack[t] # <<>>
      BY <2>12 DEF Renew, ReadOld, Resend, Poll, Waits, ShapeInv, CallsNested
    <3>3. stack[t] \in Seq(Frame) /\ Caller(t) \in Seq(Frame) /\ Top(t) \in Frame
          /\ stack[t][1] \in Frame
      BY <3>2, StackFacts
    <3>4. \E s \in Seq(Frame), c \in Answered : Continue(t, s, c)
      <4>1. /\ Append(stack[t], TokenRequest) \in Seq(Frame)
            /\ Append(Caller(t), Resent(Top(t))) \in Seq(Frame)
            /\ Append(Caller(t), Complete(Top(t))) \in Seq(Frame)
            /\ <<stack[t][1], Get>> \in Seq(Frame)
        BY <3>3, FrameFacts
      <4> QED
        BY <2>12, <4>1 DEF Renew, ReadOld, Resend, Poll, Resent, Complete, Answered
    <3>5. CallsTyped
      BY <3>1, <3>4, <2>8 DEF server
    <3> QED
      BY <2>3, <2>4, <3>1, <3>5
  <2>13. ASSUME NEW t \in Threads, StoreSession(t) \/ StoreMaster(t)
         PROVE  ServerTyped /\ TokensTyped /\ CallsTyped
    <3>1. Caller(t) \in Seq(Frame) /\ stack[t] \in Seq(Frame)
      BY <2>13, StackFacts DEF StoreSession, StoreMaster
    <3>2. CallsTyped
      <4>1. UNCHANGED begun /\ issued' = issued
        BY <2>13 DEF StoreSession, StoreMaster, server
      <4>2. Continue(t, stack[t], "STORED") \/ Continue(t, Caller(t), "RENEWED")
        BY <2>13 DEF StoreSession, StoreMaster
      <4>3. "STORED" \in Answered /\ "RENEWED" \in Answered
        BY DEF Answered
      <4> HIDE DEF CallsTyped
      <4> QED
        BY <3>1, <4>1, <4>2, <4>3, <2>8
    <3>3. TokensTyped
      BY <2>13 DEF StoreSession, StoreMaster, server
    <3> QED
      BY <2>3, <2>13, <3>2, <3>3 DEF StoreSession, StoreMaster
  <2>14. ASSUME NEW t \in Threads, RenewalRefused(t)
         PROVE  ServerTyped /\ TokensTyped /\ CallsTyped
    <3>0. expired' \in BOOLEAN /\ UNCHANGED <<tokens, closing, begun>>
      BY <2>14 DEF RenewalRefused
    <3>1. CASE Reauthenticate(t)
      <4>1. issued' = issued + 1 /\ ServerTyped
        BY <3>1 DEF Reauthenticate
      <4>2. CallsTyped
        BY <3>0, <3>1, <4>1 DEF Reauthenticate, Answered, Codes
      <4>3. TokensTyped
        BY <3>0, <4>1 DEF tokens
      <4> QED
        BY <4>1, <4>2, <4>3
    <3>2. CASE End(t, "reauthentication") /\ UNCHANGED server
      <4>1. CallsTyped
        BY <3>0, <3>2, <2>7 DEF Outcomes
      <4>2. TokensTyped
        BY <3>0, <3>2 DEF tokens, server
      <4> QED
        BY <2>3, <3>2, <4>1, <4>2
    <3> QED
      BY <2>14, <3>1, <3>2 DEF RenewalRefused
  <2>15. ASSUME NEW t \in Threads, Return(t)
         PROVE  ServerTyped /\ TokensTyped /\ CallsTyped
    <3>1. expired' \in BOOLEAN
      BY <2>15 DEF Return
    <3>2. CallsTyped
      BY <2>15, <2>7 DEF Return, Outcomes
    <3> QED
      BY <2>3, <2>15, <3>1, <3>2 DEF Return, tokens, server
  <2> HIDE DEF ServerTyped, TokensTyped, CallsTyped
  <2> QED
    BY <1>2, <2>5, <2>6, <2>9, <2>10, <2>11, <2>12, <2>13, <2>14, <2>15 DEF Next, Run
<1> QED
  BY <1>1, <1>2

-----------------------------------------------------------------------------
\* The moves of a thread, as far as its calls are concerned: a request starts or ends; the
\* other moves are Answer, Renew, ReadOld, StoreSession, StoreMaster, Reauthenticates, Resend
\* and Poll.
Starts(t) ==
    /\ stack[t] = <<>>
    /\ \E f \in Frame : f.fn # "renew" /\ f.token = token /\ Call(t, f)

Ends(t) ==
    /\ \E how \in Outcomes :
         /\ End(t, how)
         /\ how = "reauthentication" =>
              stack[t] # <<>> /\ Top(t).fn = "renew" /\ answer[t] \in NoMaster
    /\ answer[t] # "STORED" /\ ~Holds(t)
    /\ UNCHANGED <<tokens, closing, server>>

Reauthenticates(t) ==
    /\ stack[t] # <<>> /\ Top(t).fn = "renew" /\ answer[t] \in NoMaster
    /\ Reauthenticate(t)
    /\ UNCHANGED <<tokens, closing>>

Moves(t) ==
    \/ Starts(t) \/ Ends(t) \/ Answer(t) \/ Renew(t) \/ ReadOld(t) \/ StoreSession(t)
    \/ StoreMaster(t) \/ Reauthenticates(t) \/ Resend(t) \/ Poll(t)

(* Every action of a thread is one of its moves.                            *)
LEMMA ThreadMoves ==
    ASSUME Typed, ShapeInv, NEW t \in Threads, Begin(t) \/ Run(t)
    PROVE  Moves(t)
<1>1. ASSUME NEW f \in Frame, f.fn # "renew", f.token = token, Request(t, f)
      PROVE  Moves(t)
  <2>1. CASE token = 0 /\ master_token = 0
    BY <1>1, <2>1 DEF Request, Ends, Outcomes, Holds, Moves, ShapeInv, CallsNested
  <2>2. CASE ~(token = 0 /\ master_token = 0)
    BY <1>1, <2>2 DEF Request, Starts, Moves
  <2> QED
    BY <2>1, <2>2
<1>2. CASE Begin(t)
  <2>1. \A nr \in BOOLEAN : /\ Post(nr) \in Frame /\ Post(nr).fn # "renew"
                            /\ Post(nr).token = token
    BY FrameFacts DEF Post
  <2>2. Get \in Frame /\ Get.fn # "renew" /\ Get.token = token
    BY FrameFacts DEF Get
  <2>3. ASSUME Heartbeat(t) PROVE Moves(t)
    BY <2>1, <2>3 DEF Heartbeat, Starts, Moves
  <2> QED
    BY <1>1, <1>2, <2>1, <2>2, <2>3 DEF Begin
<1>3. CASE FetchRaises(t) \/ RenewalFails(t)
  BY <1>3 DEF FetchRaises, RenewalFails, Ends, Outcomes, Holds, Moves
<1>4. CASE Return(t)
  BY <1>4 DEF Return, Ends, Outcomes, Holds, Moves, Codes, InProgress, NoMaster
<1>5. CASE RenewalRefused(t)
  <2>1. CASE Reauthenticate(t)
    BY <1>5, <2>1 DEF RenewalRefused, Reauthenticates, Moves
  <2>2. CASE End(t, "reauthentication") /\ UNCHANGED server
    BY <1>5, <2>2 DEF RenewalRefused, Ends, Outcomes, Holds, NoMaster, Moves
  <2> QED
    BY <1>5, <2>1, <2>2 DEF RenewalRefused
<1> QED
  BY <1>2, <1>3, <1>4, <1>5 DEF Run, Moves

\* A thread that a step is not about.
SameThread(u) ==
    /\ stack'[u] = stack[u] /\ answer'[u] = answer[u]
    /\ pair'[u] = pair[u] /\ outcome'[u] = outcome[u]

(* A move of a thread leaves the calls of the others alone.                 *)
LEMMA OtherThreads ==
    ASSUME Typed, NEW t \in Threads, Moves(t), NEW u \in Threads \ {t}
    PROVE  SameThread(u)
<1> USE DEF Typed, SameThread
<1>1. CASE Starts(t)
  BY <1>1 DEF Starts, Call
<1>2. CASE Ends(t)
  BY <1>2 DEF Ends, End
<1>3. CASE Answer(t)
  <2>1. answer'[u] = answer[u] /\ UNCHANGED <<stack, outcome>>
    BY <1>3 DEF Answer
  <2>2. pair'[u] = pair[u]
    BY <1>3 DEF Answer
  <2> QED
    BY <2>1, <2>2
<1>4. CASE Renew(t) \/ ReadOld(t) \/ Resend(t) \/ Poll(t)
  BY <1>4 DEF Renew, ReadOld, Resend, Poll, Continue
<1>5. CASE StoreSession(t) \/ StoreMaster(t) \/ Reauthenticates(t)
  BY <1>5 DEF StoreSession, StoreMaster, Reauthenticates, Reauthenticate, Continue
<1> QED
  BY <1>1, <1>2, <1>3, <1>4, <1>5 DEF Moves

(* Every answer that can wait to be handled.                                *)
LEMMA AnswerFacts ==
    ASSUME Typed, NEW t \in Threads, Answer(t)
    PROVE  /\ stack' = stack /\ stack[t] # <<>> /\ answer[t] = "none"
           /\ UNCHANGED <<token, master_token, closing, outcome>> /\ UNCHANGED tokens
           /\ answer'[t] \in Answers(t) /\ answer'[t] \notin {"reading", "STORED", "RENEWED"}
           /\ \/ /\ answer'[t] = "OK" /\ Top(t).fn = "renew"
                 /\ issued' = issued + 1
                 /\ session_alive' = session_alive \cup {issued + 1}
                 /\ master_alive' = master_alive \cup {issued + 1}
                 /\ pair'[t] = issued + 1
              \/ /\ ~(answer'[t] = "OK" /\ Top(t).fn = "renew")
                 /\ UNCHANGED <<issued, session_alive, master_alive, pair>>
<1>1. PICK c \in Answers(t) :
        /\ answer' = [answer EXCEPT ![t] = c]
        /\ IF c = "OK" /\ Top(t).fn = "renew"
           THEN /\ issued' = issued + 1
                /\ session_alive' = session_alive \cup {issued'}
                /\ master_alive' = master_alive \cup {issued'}
                /\ pair' = [pair EXCEPT ![t] = issued']
           ELSE UNCHANGED <<server, pair>>
  BY DEF Answer
<1>2. c \notin {"reading", "STORED", "RENEWED"} /\ answer'[t] = c
  BY <1>1 DEF Answers, RenewAnswers, RequestAnswers, InProgress, Typed
<1>3. /\ stack' = stack /\ stack[t] # <<>> /\ answer[t] = "none"
      /\ UNCHANGED <<token, master_token, closing, outcome>> /\ UNCHANGED tokens
  BY DEF Answer, tokens
<1>4. CASE c = "OK" /\ Top(t).fn = "renew"
  BY <1>1, <1>2, <1>3, <1>4 DEF Typed
<1>5. CASE ~(c = "OK" /\ Top(t).fn = "renew")
  BY <1>1, <1>2, <1>3, <1>5 DEF server
<1> QED
  BY <1>4, <1>5

(* A request starts with one call, made with the token in force.            *)
LEMMA StartsFacts ==
    ASSUME Typed, NEW t \in Threads, Starts(t)
    PROVE  /\ Len(stack'[t]) = 1 /\ stack'[t] # <<>>
           /\ stack'[t][1].fn # "renew" /\ stack'[t][1].token = token
           /\ stack[t] = <<>> /\ answer'[t] = answer[t] /\ UNCHANGED tokens
           /\ UNCHANGED <<token, master_token, closing, outcome, issued, session_alive,
                          master_alive, pair>>
<1>1. PICK f \in Frame : f.fn # "renew" /\ f.token = token /\ Call(t, f)
  BY DEF Starts
<1>2. stack'[t] = <<f>> /\ stack[t] = <<>>
  BY <1>1 DEF Starts, Call, Typed
<1>3. <<f>> # <<>> /\ Len(<<f>>) = 1 /\ <<f>>[1] = f
  BY StackOps, EmptySeq
<1> QED
  BY <1>1, <1>2, <1>3 DEF Call, tokens, server

(* A request that ends leaves no call, and changes no token.                *)
LEMMA EndsFacts ==
    ASSUME Typed, NEW t \in Threads, Ends(t)
    PROVE  /\ stack'[t] = <<>> /\ answer'[t] = "none" /\ ~Holds(t) /\ answer[t] # "STORED"
           /\ UNCHANGED tokens
           /\ outcome'[t] = "reauthentication" =>
                stack[t] # <<>> /\ Top(t).fn = "renew" /\ answer[t] \in NoMaster
           /\ UNCHANGED <<token, master_token, closing, issued, session_alive, master_alive>>
BY DEF Ends, End, Typed, tokens, server

(* A renewal is one more call on top of the one that needs it.              *)
LEMMA RenewFacts ==
    ASSUME Typed, ShapeInv, NEW t \in Threads, Renew(t)
    PROVE  /\ stack[t] # <<>> /\ stack'[t] # <<>> /\ Len(stack'[t]) = Len(stack[t]) + 1
           /\ \A i \in 1..Len(stack[t]) : stack'[t][i] = stack[t][i]
           /\ stack'[t][Len(stack[t]) + 1] = TokenRequest
           /\ answer[t] = "SESSION_EXPIRED" /\ answer'[t] = "reading" /\ UNCHANGED tokens
           /\ UNCHANGED <<token, master_token, closing, outcome, issued, session_alive,
                          master_alive, pair>>
<1>1. stack'[t] = Append(stack[t], TokenRequest)
  BY DEF Renew, Continue, Typed
<1>2. stack[t] \in Seq(Frame) /\ TokenRequest \in Frame
  BY StackFacts, FrameFacts
<1>3. /\ Len(stack'[t]) = Len(stack[t]) + 1
      /\ \A i \in 1..Len(stack[t]) : stack'[t][i] = stack[t][i]
      /\ stack'[t][Len(stack[t]) + 1] = TokenRequest
  BY <1>1, <1>2, StackOps
<1>4. stack[t] # <<>> /\ Len(stack[t]) >= 1 /\ Len(stack[t]) \in Nat
  BY StackFacts DEF Renew, ShapeInv, CallsNested
<1>5. stack'[t] # <<>>
  BY <1>3, <1>4, EmptySeq
<1> QED
  BY <1>3, <1>4, <1>5 DEF Renew, Continue, tokens, server, Typed

(* The renewal has read its second token; its call stays where it is.       *)
LEMMA ReadOldFacts ==
    ASSUME Typed, ShapeInv, NEW t \in Threads, ReadOld(t)
    PROVE  /\ stack[t] # <<>> /\ stack'[t] # <<>> /\ Len(stack'[t]) = Len(stack[t])
           /\ Len(stack[t]) \in Nat /\ Len(stack[t]) >= 2
           /\ \A i \in 1..Len(stack[t]) - 1 : stack'[t][i] = stack[t][i]
           /\ stack'[t][Len(stack[t])].fn = "renew" /\ Top(t).fn = "renew"
           /\ stack'[t][Len(stack[t])].token = Top(t).token
           /\ stack'[t][Len(stack[t])].is_master = Top(t).is_master
           /\ answer[t] = "reading" /\ answer'[t] = "none" /\ UNCHANGED tokens
           /\ UNCHANGED <<token, master_token, closing, outcome, issued, session_alive,
                          master_alive, pair>>
<1>1. /\ stack'[t] = Append(Caller(t), Complete(Top(t))) /\ stack[t] # <<>>
      /\ Top(t).fn = "renew" /\ stack[t][1].fn # "renew"
  BY DEF ReadOld, Continue, Typed, Complete, ShapeInv, CallsNested
<1>2. /\ Top(t) \in Frame /\ Caller(t) \in Seq(Frame) /\ Len(Caller(t)) = Len(stack[t]) - 1
      /\ \A i \in 1..Len(stack[t]) - 1 : Caller(t)[i] = stack[t][i]
      /\ Len(stack[t]) \in Nat /\ Len(stack[t]) >= 1
  BY <1>1, StackFacts
<1>3. /\ Complete(Top(t)) \in Frame /\ Complete(Top(t)).fn = "renew"
      /\ Complete(Top(t)).token = Top(t).token /\ Complete(Top(t)).is_master = Top(t).is_master
  BY <1>1, <1>2, FrameFacts
<1>4. /\ Len(stack'[t]) = Len(Caller(t)) + 1
      /\ \A i \in 1..Len(Caller(t)) : stack'[t][i] = Caller(t)[i]
      /\ stack'[t][Len(Caller(t)) + 1] = Complete(Top(t))
  BY <1>1, <1>2, <1>3, StackOps
<1>5. Len(stack'[t]) = Len(stack[t]) /\ stack'[t][Len(stack[t])] = Complete(Top(t))
  BY <1>2, <1>4
<1>6. stack'[t] # <<>> /\ Len(stack[t]) # 1
  BY <1>1, <1>2, <1>5, EmptySeq DEF Top
<1> QED
  BY <1>1, <1>2, <1>3, <1>4, <1>5, <1>6 DEF ReadOld, Continue, tokens, server, Typed

(* A thread with a new pair waits for the lock and stores the session token.*)
LEMMA StoreSessionFacts ==
    ASSUME Typed, NEW t \in Threads, StoreSession(t)
    PROVE  /\ Holds(t) /\ stack' = stack /\ answer'[t] = "STORED"
           /\ lock = {} /\ lock' = {t} /\ token' = pair[t] /\ token_at' = token_at + 1
           /\ UNCHANGED <<master_token, master_at, closing, outcome, issued, session_alive,
                          master_alive, pair>>
<1>1. stack' = stack /\ answer'[t] = "STORED" /\ UNCHANGED <<outcome, pair>>
  BY DEF StoreSession, Continue, Typed
<1> QED
  BY <1>1 DEF StoreSession, server, Holds

(* A renewal or a new login returns to its caller when it has stored the    *)
(* master token too.                                                        *)
LEMMA StoreMasterFacts ==
    ASSUME Typed, ShapeInv, NEW t \in Threads, StoreMaster(t)
    PROVE  /\ stack[t] # <<>> /\ Top(t).fn = "renew" /\ answer[t] = "STORED"
           /\ stack'[t] # <<>> /\ Len(stack'[t]) = Len(stack[t]) - 1 /\ Len(stack[t]) >= 2
           /\ \A i \in 1..Len(stack[t]) - 1 : stack'[t][i] = stack[t][i]
           /\ answer'[t] = "RENEWED"
           /\ lock' = {} /\ master_token' = pair[t] /\ master_at' = token_at
           /\ UNCHANGED <<token, token_at, closing, outcome, issued, session_alive,
                          master_alive, pair>>
<1>1. /\ stack[t] # <<>> /\ Top(t).fn = "renew" /\ stack'[t] = Caller(t)
      /\ answer[t] = "STORED" /\ answer'[t] = "RENEWED" /\ UNCHANGED <<outcome, pair>>
  BY DEF StoreMaster, Continue, Typed, ShapeInv, CallsNested
<1>2. Len(stack[t]) \in Nat /\ Len(stack[t]) >= 1 /\ Len(stack[t]) # 1
  BY <1>1, StackFacts DEF ShapeInv, CallsNested, Top
<1>3. /\ Len(stack'[t]) = Len(stack[t]) - 1
      /\ \A i \in 1..Len(stack[t]) - 1 : stack'[t][i] = stack[t][i]
  BY <1>1, StackFacts
<1>4. Caller(t) # <<>>
  <2>1. Caller(t) \in Seq(Frame) /\ Len(Caller(t)) = Len(stack[t]) - 1
    BY <1>1, StackFacts
  <2>2. Len(Caller(t)) # 0
    BY <1>2, <2>1
  <2> QED
    BY <2>2, EmptySeq
<1> QED
  BY <1>1, <1>2, <1>3, <1>4 DEF StoreMaster, server

(* A new login gets a pair, as a renewal that is granted does.              *)
LEMMA LoginFacts ==
    ASSUME Typed, NEW t \in Threads, Reauthenticates(t)
    PROVE  /\ stack' = stack /\ stack[t] # <<>> /\ Top(t).fn = "renew"
           /\ answer[t] \in NoMaster /\ answer'[t] = "OK"
           /\ issued' = issued + 1 /\ pair'[t] = issued + 1
           /\ session_alive' = session_alive \cup {issued + 1}
           /\ master_alive' = master_alive \cup {issued + 1}
           /\ UNCHANGED <<token, master_token, closing, outcome>> /\ UNCHANGED tokens
BY DEF Reauthenticates, Reauthenticate, tokens, Typed

(* A call is made again in its own place, with the token now in force.      *)
LEMMA ResendFacts ==
    ASSUME Typed, ShapeInv, NEW t \in Threads, Resend(t)
    PROVE  /\ stack[t] # <<>> /\ stack'[t] # <<>> /\ Len(stack'[t]) = Len(stack[t])
           /\ \A i \in 1..Len(stack[t]) - 1 : stack'[t][i] = stack[t][i]
           /\ stack'[t][Len(stack[t])].fn = Top(t).fn
           /\ stack'[t][Len(stack[t])].token = token
           /\ answer[t] = "RENEWED" /\ answer'[t] = "none" /\ UNCHANGED tokens
           /\ UNCHANGED <<token, master_token, closing, outcome, issued, session_alive,
                          master_alive, pair>>
<1>1. stack'[t] = Append(Caller(t), Resent(Top(t))) /\ stack[t] # <<>>
  BY DEF Resend, Continue, Typed, Resent, ShapeInv, CallsNested
<1>2. /\ Top(t) \in Frame /\ Caller(t) \in Seq(Frame) /\ Len(Caller(t)) = Len(stack[t]) - 1
      /\ \A i \in 1..Len(stack[t]) - 1 : Caller(t)[i] = stack[t][i]
      /\ Len(stack[t]) \in Nat /\ Len(stack[t]) >= 1
  BY <1>1, StackFacts
<1>3. Resent(Top(t)) \in Frame /\ Resent(Top(t)).fn = Top(t).fn /\ Resent(Top(t)).token = token
  BY <1>2, FrameFacts
<1>4. /\ Len(stack'[t]) = Len(Caller(t)) + 1
      /\ \A i \in 1..Len(Caller(t)) : stack'[t][i] = Caller(t)[i]
      /\ stack'[t][Len(Caller(t)) + 1] = Resent(Top(t))
  BY <1>1, <1>2, <1>3, StackOps
<1>5. Len(stack'[t]) = Len(stack[t]) /\ stack'[t][Len(stack[t])] = Resent(Top(t))
  BY <1>2, <1>4
<1>6. stack'[t] # <<>>
  BY <1>2, <1>5, EmptySeq
<1> QED
  BY <1>1, <1>2, <1>3, <1>4, <1>5, <1>6 DEF Resend, Continue, tokens, server, Typed

(* A poll is a _get_request on top of the post that waits.                  *)
LEMMA PollFacts ==
    ASSUME Typed, NEW t \in Threads, Poll(t)
    PROVE  /\ stack[t] # <<>> /\ stack'[t] # <<>> /\ Len(stack'[t]) = 2
           /\ stack'[t][1] = stack[t][1] /\ stack'[t][2] = Get /\ stack[t][1].fn = "post"
           /\ answer[t] \in InProgress /\ answer'[t] = "none" /\ UNCHANGED tokens
           /\ UNCHANGED <<token, master_token, closing, outcome, issued, session_alive,
                          master_alive, pair>>
<1>1. stack'[t] = <<stack[t][1], Get>> /\ stack[t] # <<>>
  BY DEF Poll, Waits, Continue, Typed
<1>2. stack'[t] # <<>> /\ Len(stack'[t]) = 2 /\ stack'[t][1] = stack[t][1] /\ stack'[t][2] = Get
  BY <1>1
<1> QED
  BY <1>1, <1>2 DEF Poll, Waits, Continue, tokens, server, Typed

-----------------------------------------------------------------------------
(* Every step keeps the nesting of the calls.                               *)
LEMMA ShapeStep == Typed /\ ShapeInv /\ [Next]_vars => ShapeInv'
<1> SUFFICES ASSUME Typed, ShapeInv, [Next]_vars PROVE ShapeInv'
  OBVIOUS
<1>0. scenario' = scenario /\ MaxStack' = MaxStack /\ MaxStack \in Nat /\ MaxStack >= 2
      /\ scenario.threads \subseteq Threads
  BY ScenarioFacts DEF Next, vars, MaxStack, Typed
<1>1. ASSUME NEW u \in Threads, stack'[u] = stack[u], answer'[u] = answer[u]
      PROVE  CallsNested(u)'
  BY <1>0, <1>1 DEF ShapeInv, CallsNested, Top
<1>2. CASE UNCHANGED vars \/ Close \/ Expire
  BY <1>1, <1>2 DEF vars, Close, Expire, ShapeInv
<1>3. ASSUME NEW t \in Threads, Moves(t) PROVE ShapeInv'
  <2>1. \A u \in Threads \ {t} : CallsNested(u)'
    BY <1>1, <1>3, OtherThreads DEF SameThread
  <2> SUFFICES CallsNested(t)'
    BY <2>1 DEF ShapeInv
  <2>2. CallsNested(t) /\ Len(stack[t]) \in Nat
    BY StackFacts DEF ShapeInv
  <2>3. CASE Starts(t)
    <3>1. /\ Len(stack'[t]) = 1 /\ stack'[t] # <<>> /\ stack'[t][1].fn # "renew"
          /\ stack[t] = <<>> /\ answer'[t] = answer[t]
      BY <2>3, StartsFacts
    <3>2. answer'[t] = "none"
      BY <2>2, <3>1 DEF CallsNested
    <3> QED
      BY <1>0, <3>1, <3>2 DEF CallsNested
  <2>4. CASE Ends(t)
    BY <1>0, <2>4, EndsFacts, EmptySeq DEF CallsNested
  <2>5. CASE Answer(t)
    <3>1. answer'[t] = "SESSION_EXPIRED" /\ Top(t).fn = "renew" => Len(stack[t]) < MaxStack
      BY <2>5, AnswerFacts DEF Answers, RenewAnswers
    <3> QED
      BY <1>0, <2>2, <2>5, <3>1, AnswerFacts DEF CallsNested, Top
  <2>6. CASE Renew(t)
    <3>1. Len(stack[t]) + 1 <= MaxStack + 1
      <4>1. CASE Top(t).fn = "renew"
        BY <1>0, <2>2, <2>6, <4>1, RenewFacts DEF CallsNested
      <4>2. CASE Top(t).fn # "renew"
        <5>1. Len(stack[t]) <= 2
          BY <2>2, <2>6, <4>2 DEF CallsNested, Top
        <5> QED
          BY <1>0, <2>2, <5>1
      <4> QED
        BY <4>1, <4>2
    <3>2. TokenRequest.fn = "renew"
      BY DEF TokenRequest
    <3>3. Len(stack[t]) >= 1
      BY <2>6, RenewFacts, StackFacts
    <3>4. /\ stack[t] # <<>> /\ stack'[t] # <<>> /\ Len(stack'[t]) = Len(stack[t]) + 1
          /\ \A i \in 1..Len(stack[t]) : stack'[t][i] = stack[t][i]
          /\ stack'[t][Len(stack[t]) + 1] = TokenRequest /\ answer'[t] = "reading"
      BY <2>6, RenewFacts
    <3>5. \A i \in 2..Len(stack'[t]) :
            \/ stack'[t][i].fn = "renew"
            \/ i = 2 /\ stack'[t][i].fn = "get" /\ stack'[t][1].fn = "post"
      BY <2>2, <3>2, <3>3, <3>4 DEF CallsNested
    <3> QED
      BY <1>0, <2>2, <3>1, <3>2, <3>3, <3>4, <3>5 DEF CallsNested, Top
  <2>7. CASE StoreMaster(t)
    <3>1. /\ stack[t] # <<>> /\ stack'[t] # <<>>
          /\ Len(stack'[t]) = Len(stack[t]) - 1 /\ Len(stack[t]) >= 2
          /\ \A i \in 1..Len(stack[t]) - 1 : stack'[t][i] = stack[t][i]
          /\ answer'[t] = "RENEWED"
      BY <2>7, StoreMasterFacts
    <3>2. Len(stack'[t]) <= MaxStack + 1
      BY <1>0, <2>2, <3>1 DEF CallsNested
    <3>3. \A i \in 2..Len(stack'[t]) :
            \/ stack'[t][i].fn = "renew"
            \/ i = 2 /\ stack'[t][i].fn = "get" /\ stack'[t][1].fn = "post"
      BY <2>2, <3>1 DEF CallsNested
    <3>4. stack'[t][1].fn # "renew"
      BY <2>2, <3>1 DEF CallsNested
    <3> QED
      BY <1>0, <3>1, <3>2, <3>3, <3>4 DEF CallsNested
  <2>8. CASE Resend(t)
    BY <1>0, <2>2, <2>8, ResendFacts DEF CallsNested, Top
  <2>9. CASE Poll(t)
    <3>1. Get.fn = "get"
      BY DEF Get
    <3>2. /\ stack'[t] # <<>> /\ Len(stack'[t]) = 2 /\ stack'[t][1] = stack[t][1]
          /\ stack'[t][2] = Get /\ stack[t][1].fn = "post" /\ answer'[t] = "none"
      BY <2>9, PollFacts
    <3> QED
      BY <1>0, <3>1, <3>2 DEF CallsNested
  <2>10. CASE ReadOld(t)
    BY <1>0, <2>2, <2>10, ReadOldFacts DEF CallsNested, Top
  <2>11. CASE StoreSession(t) \/ Reauthenticates(t)
    BY <1>0, <2>2, <2>11, StoreSessionFacts, LoginFacts DEF CallsNested, Top, Holds
  <2> QED
    BY <1>3, <2>3, <2>4, <2>5, <2>6, <2>7, <2>8, <2>9, <2>10, <2>11 DEF Moves
<1> QED
  BY <1>0, <1>2, <1>3, ThreadMoves DEF Next

(* Every step keeps what the lock is for: only its holder has stored one    *)
(* token and not the other.                                                 *)
LEMMA LockStep == Typed /\ ShapeInv /\ LockInv /\ [Next]_vars => LockInv'
<1> SUFFICES ASSUME Typed, ShapeInv, LockInv, [Next]_vars PROVE LockInv'
  OBVIOUS
<1>0. scenario.threads \subseteq Threads /\ lock \subseteq Threads
  BY ScenarioFacts DEF Typed
<1>1. CASE UNCHANGED vars \/ Close \/ Expire
  <2>1. UNCHANGED <<lock, answer, pair>> /\ token' \in {token, 0}
        /\ (token' = 0 \/ master_token' \in {master_token, 0})
    BY <1>1 DEF vars, tokens, Close, Expire
  <2>2. UNCHANGED token \/ token' = 0
    BY <2>1
  <2> QED
    BY <2>1, <2>2 DEF LockInv, TokensPaired
<1>2. ASSUME NEW t \in Threads, Moves(t) PROVE LockInv'
  <2>1. \A u \in Threads \ {t} : answer'[u] = answer[u] /\ pair'[u] = pair[u]
    BY <1>2, OtherThreads DEF SameThread
  <2>2. CASE StoreSession(t)
    <3>1. lock = {} /\ lock' = {t} /\ token' = pair[t] /\ pair'[t] = pair[t]
          /\ answer'[t] = "STORED"
      BY <2>2, StoreSessionFacts
    <3>2. \A u \in Threads \ {t} : answer'[u] # "STORED"
      BY <2>1, <3>1 DEF LockInv
    <3> QED
      BY <3>1, <3>2 DEF LockInv, TokensPaired
  <2>3. CASE StoreMaster(t)
    <3>1. /\ answer[t] = "STORED" /\ lock' = {} /\ master_token' = pair[t] /\ token' = token
          /\ answer'[t] = "RENEWED"
      BY <2>3, StoreMasterFacts
    <3>2. lock = {t} /\ token \in {0, pair[t]}
      BY <3>1 DEF LockInv
    <3>3. \A u \in Threads \ {t} : answer'[u] # "STORED"
      BY <2>1, <3>2 DEF LockInv
    <3> QED
      BY <3>1, <3>2, <3>3 DEF LockInv, TokensPaired
  <2>4. CASE \/ Starts(t) \/ Ends(t) \/ Answer(t) \/ Renew(t) \/ ReadOld(t) \/ Reauthenticates(t)
             \/ Resend(t) \/ Poll(t)
    <3>1. UNCHANGED <<lock, token, master_token>>
      BY <2>4, StartsFacts, EndsFacts, AnswerFacts, RenewFacts, ReadOldFacts, LoginFacts,
         ResendFacts, PollFacts DEF tokens
    <3>2. answer[t] # "STORED" /\ answer'[t] # "STORED"
      <4>1. CASE Starts(t)
        BY <4>1, StartsFacts DEF ShapeInv, CallsNested
      <4>2. CASE Ends(t) \/ Answer(t) \/ Renew(t) \/ ReadOld(t) \/ Resend(t) \/ Poll(t)
        BY <4>2, EndsFacts, AnswerFacts, RenewFacts, ReadOldFacts, ResendFacts, PollFacts
           DEF InProgress
      <4>3. CASE Reauthenticates(t)
        BY <4>3, LoginFacts DEF NoMaster
      <4> QED
        BY <2>4, <4>1, <4>2, <4>3
    <3>3. t \notin lock
      BY <3>2 DEF LockInv
    <3> QED
      BY <1>0, <2>1, <3>1, <3>2, <3>3 DEF LockInv, TokensPaired
  <2> QED
    BY <1>2, <2>2, <2>3, <2>4 DEF Moves
<1> QED
  BY <1>0, <1>1, <1>2, ThreadMoves DEF Next

(* Every step keeps the order in which tokens are stored and read.          *)
LEMMA StampStep == Typed /\ ShapeInv /\ LockInv /\ StampInv /\ [Next]_vars => StampInv'
<1> SUFFICES ASSUME Typed, ShapeInv, LockInv, StampInv, [Next]_vars PROVE StampInv'
  OBVIOUS
<1>0. scenario.threads \subseteq Threads /\ token_at \in Nat /\ master_at \in Nat
  BY ScenarioFacts DEF Typed
<1>1. ASSUME NEW u \in Threads, answer[u] = "reading" PROVE Top(u).at \in Nat
  <2>1. Top(u) \in Frame
    BY <1>1, StackFacts DEF ShapeInv, CallsNested
  <2> QED
    BY <2>1 DEF Frame
<1>2. ASSUME NEW u \in Threads, answer'[u] = answer[u], stack'[u] = stack[u],
             master_at' \in Nat, master_at' >= master_at, answer'[u] = "reading"
      PROVE  Top(u)'.at <= master_at'
  <2>1. Top(u)' = Top(u) /\ Top(u).at <= master_at /\ Top(u).at \in Nat
    BY <1>1, <1>2 DEF StampInv, Top
  <2> QED
    BY <1>0, <1>2, <2>1
<1>3. CASE UNCHANGED vars \/ Close \/ Expire
  <2>1. UNCHANGED <<lock, token_at, master_at, answer, stack>>
    BY <1>3 DEF vars, tokens, Close, Expire
  <2> QED
    BY <1>0, <1>2, <2>1 DEF StampInv
<1>4. ASSUME NEW t \in Threads, Moves(t) PROVE StampInv'
  <2>1. \A u \in Threads \ {t} : answer'[u] = answer[u] /\ stack'[u] = stack[u]
    BY <1>4, OtherThreads DEF SameThread
  <2>2. ASSUME master_at' \in Nat, master_at' >= master_at, answer'[t] # "reading"
        PROVE  \A u \in Threads : answer'[u] = "reading" => Top(u)'.at <= master_at'
    BY <1>2, <2>1, <2>2
  <2>3. CASE StoreSession(t)
    <3>1. /\ lock = {} /\ lock' = {t} /\ token_at' = token_at + 1 /\ master_at' = master_at
          /\ answer'[t] = "STORED"
      BY <2>3, StoreSessionFacts
    <3> QED
      BY <1>0, <2>2, <3>1 DEF StampInv
  <2>4. CASE StoreMaster(t)
    <3>1. /\ lock' = {} /\ token_at' = token_at /\ master_at' = token_at
          /\ answer'[t] = "RENEWED"
      BY <2>4, StoreMasterFacts
    <3> QED
      BY <1>0, <2>2, <3>1 DEF StampInv
  <2>5. CASE Renew(t)
    <3>1. /\ UNCHANGED <<lock, token_at, master_at>>
          /\ Len(stack'[t]) = Len(stack[t]) + 1
          /\ stack'[t][Len(stack[t]) + 1] = TokenRequest
      BY <2>5, RenewFacts DEF tokens
    <3>2. Top(t)'.at = master_at
      BY <3>1 DEF Top, TokenRequest
    <3>3. \A u \in Threads \ {t} : answer'[u] = "reading" => Top(u)'.at <= master_at'
      BY <1>0, <1>2, <2>1, <3>1
    <3> QED
      BY <1>0, <3>1, <3>2, <3>3 DEF StampInv
  <2>6. CASE \/ Starts(t) \/ Ends(t) \/ Answer(t) \/ ReadOld(t) \/ Reauthenticates(t)
             \/ Resend(t) \/ Poll(t)
    <3>1. UNCHANGED <<lock, token_at, master_at>>
      BY <2>6, StartsFacts, EndsFacts, AnswerFacts, ReadOldFacts, LoginFacts,
         ResendFacts, PollFacts DEF tokens
    <3>2. answer'[t] # "reading"
      <4>1. CASE Starts(t)
        BY <4>1, StartsFacts DEF ShapeInv, CallsNested
      <4>2. CASE Ends(t) \/ Answer(t) \/ ReadOld(t) \/ Reauthenticates(t) \/ Resend(t) \/ Poll(t)
        BY <4>2, EndsFacts, AnswerFacts, ReadOldFacts, LoginFacts, ResendFacts, PollFacts
      <4> QED
        BY <2>6, <4>1, <4>2
    <3> QED
      BY <1>0, <2>2, <3>1, <3>2 DEF StampInv
  <2> QED
    BY <1>4, <2>3, <2>4, <2>5, <2>6 DEF Moves
<1> QED
  BY <1>0, <1>3, <1>4, ThreadMoves DEF Next

-----------------------------------------------------------------------------
(* What is dead stays dead, and what was issued stays issued.               *)
LEMMA ServerStep ==
    ASSUME Typed, ShapeInv, [Next]_vars
    PROVE  /\ issued' \in Nat /\ issued' >= issued /\ closing' >= closing
           /\ DeadMasters \subseteq DeadMasters' /\ DeadSessions \subseteq DeadSessions'
           /\ MasterGone => MasterGone'
<1>0. /\ scenario.threads \subseteq Threads /\ issued \in Nat /\ closing \in Nat
      /\ session_alive \in SUBSET (1..issued) /\ master_alive \in SUBSET (1..issued)
  BY ScenarioFacts DEF Typed
<1> USE DEF DeadMasters, DeadSessions
<1> DEFINE Grows == /\ issued' \in Nat /\ issued' >= issued /\ closing' >= closing
                    /\ DeadMasters \subseteq DeadMasters' /\ DeadSessions \subseteq DeadSessions'
<1>1. ASSUME UNCHANGED <<issued, session_alive, master_alive>>, closing' >= closing PROVE Grows
  BY <1>0, <1>1
<1>2. ASSUME issued' = issued + 1, closing' = closing,
             session_alive' = session_alive \cup {issued + 1},
             master_alive' = master_alive \cup {issued + 1}
      PROVE  Grows
  BY <1>0, <1>2
<1>3. ASSUME UNCHANGED vars \/ Close PROVE Grows
  BY <1>0, <1>1, <1>3 DEF vars, server, Close
<1>4. ASSUME Expire PROVE Grows
  BY <1>0, <1>4 DEF Expire, ExpireSession, ExpireMaster
<1>5. ASSUME NEW t \in Threads, Moves(t) PROVE Grows
  <2>1. ASSUME Starts(t) \/ Ends(t) \/ Renew(t) \/ ReadOld(t) \/ Resend(t) \/ Poll(t)
        PROVE  Grows
    BY <1>0, <1>1, <2>1, StartsFacts, EndsFacts, RenewFacts, ReadOldFacts, ResendFacts, PollFacts
  <2>2. ASSUME Answer(t) PROVE Grows
    <3>1. /\ closing' = closing
          /\ \/ /\ issued' = issued + 1
                /\ session_alive' = session_alive \cup {issued + 1}
                /\ master_alive' = master_alive \cup {issued + 1}
             \/ UNCHANGED <<issued, session_alive, master_alive>>
      BY <2>2, AnswerFacts
    <3> HIDE DEF Grows
    <3> QED
      BY <1>0, <1>1, <1>2, <3>1
  <2>3. ASSUME StoreSession(t) \/ StoreMaster(t) PROVE Grows
    BY <1>0, <1>1, <2>3, StoreSessionFacts, StoreMasterFacts
  <2>4. ASSUME Reauthenticates(t) PROVE Grows
    BY <1>0, <1>2, <2>4, LoginFacts
  <2> QED
    BY <1>5, <2>1, <2>2, <2>3, <2>4 DEF Moves
<1> HIDE DEF Grows
<1>6. Grows
  BY <1>0, <1>3, <1>4, <1>5, ThreadMoves DEF Next
<1> HIDE DEF DeadMasters, DeadSessions
<1>7. closing' \in Nat
  <2>1. Typed'
    BY TypedStep
  <2> QED
    BY <2>1 DEF Typed
<1> QED
  BY <1>0, <1>6, <1>7 DEF MasterGone, Grows

(* A thread that does not move keeps what holds of its renewal.             *)
LEMMA SameRenewal ==
    ASSUME Typed, ShapeInv, [Next]_vars, NEW u \in Threads, SameThread(u), RenewalAsked(u)
    PROVE  RenewalAsked(u)'
<1>1. /\ issued' \in Nat /\ issued' >= issued /\ closing' >= closing /\ issued \in Nat
      /\ closing \in Nat /\ (MasterGone => MasterGone') /\ closing' \in Nat
  <2>1. Typed' /\ Typed
    BY TypedStep
  <2>2. issued \in Nat /\ closing \in Nat /\ closing' \in Nat
    BY <2>1 DEF Typed
  <2> QED
    BY <2>2, ServerStep
<1>2. \A i \in 1..Len(stack[u]) : stack[u][i].token \in 0..issued'
  BY <1>1 DEF RenewalAsked
<1> QED
  BY <1>1, <1>2 DEF RenewalAsked, SameThread, Top

(* Where renewals do not nest, only a request is renewed.                   *)
LEMMA RenewsRequest ==
    ASSUME Typed, ShapeInv, SimpleRenewals, NEW t \in Threads, stack[t] # <<>>,
           answer[t] = "SESSION_EXPIRED"
    PROVE  Top(t).fn # "renew"
<1>1. Len(stack[t]) \in Nat /\ Len(stack[t]) >= 1 /\ CallsNested(t)
  BY StackFacts DEF ShapeInv
<1> QED
  BY <1>1 DEF CallsNested, Top, SimpleRenewals, MaxStack

(* A renewal is refused only when its master token is gone.                 *)
LEMMA RefusedForGood ==
    ASSUME Typed, NEW t \in Threads, RenewalAsked(t), Answer(t), Top(t).fn = "renew",
           answer'[t] \in NoMaster
    PROVE  MasterGone
<1>1. stack[t] # <<>> /\ Len(stack[t]) \in Nat /\ Len(stack[t]) >= 1
  BY AnswerFacts, StackFacts
<1>2. /\ Top(t).token \in 0..issued /\ Top(t).is_master /\ (Top(t).token = 0 => closing > 0)
  BY <1>1 DEF RenewalAsked, Top
<1>3. answer'[t] \in Answers(t)
  BY AnswerFacts
<1>4. Top(t).token = 0 \/ Top(t).token \notin master_alive
  BY <1>2, <1>3 DEF Answers, RenewAnswers, NoMaster
<1> QED
  BY <1>2, <1>4 DEF MasterGone, DeadMasters, Typed

(* Every step keeps what holds of the renewals where they do not nest.      *)
LEMMA RefusalStep ==
    Typed /\ ShapeInv /\ SimpleRenewals /\ RefusalInv /\ [Next]_vars => RefusalInv'
<1> SUFFICES ASSUME Typed, ShapeInv, SimpleRenewals, RefusalInv, [Next]_vars
             PROVE  RefusalInv'
  OBVIOUS
<1>0. /\ scenario.threads \subseteq Threads /\ issued \in Nat \ {0} /\ closing \in Nat
      /\ token \in 0..issued /\ master_token \in 0..issued
  BY ScenarioFacts DEF Typed
<1>1. /\ issued' \in Nat /\ issued' >= issued /\ closing' >= closing
      /\ (MasterGone => MasterGone')
  BY ServerStep
<1>2. CASE UNCHANGED vars \/ Close \/ Expire
  <2>1. \A u \in Threads : SameThread(u)
    BY <1>2 DEF vars, Close, Expire, SameThread
  <2>2. \A u \in Threads : RenewalAsked(u)'
    BY <2>1, SameRenewal DEF RefusalInv
  <2>3. (master_token = 0 => closing > 0)'
    BY <1>0, <1>2 DEF vars, tokens, Close, Expire, RefusalInv
  <2> QED
    BY <2>2, <2>3 DEF RefusalInv
<1>3. ASSUME NEW t \in Threads, Moves(t) PROVE RefusalInv'
  <2>1. \A u \in Threads \ {t} : RenewalAsked(u)'
    BY <1>3, OtherThreads, SameRenewal DEF RefusalInv
  <2>2. /\ RenewalAsked(t) /\ Len(stack[t]) \in Nat /\ (stack[t] # <<>> => Len(stack[t]) >= 1)
        /\ CallsNested(t)
    BY StackFacts DEF RefusalInv, ShapeInv
  <2> SUFFICES RenewalAsked(t)' /\ (master_token = 0 => closing > 0)'
    BY <2>1 DEF RefusalInv
  <2>3. ASSUME UNCHANGED <<master_token, closing>> PROVE (master_token = 0 => closing > 0)'
    BY <2>3 DEF RefusalInv
  <2>4. \A i \in 1..Len(stack[t]) : stack[t][i].token \in 0..issued'
    BY <1>0, <1>1, <2>2 DEF RenewalAsked
  <2>5. \A i \in 1..Len(stack[t]) : stack[t][i].fn = "renew" => i = Len(stack[t])
    BY <2>2 DEF RenewalAsked
  <2>6. ASSUME UNCHANGED outcome PROVE outcome'[t] = "reauthentication" => MasterGone'
    BY <1>1, <2>2, <2>6 DEF RenewalAsked
  <2>7. CASE Starts(t)
    <3>1. /\ Len(stack'[t]) = 1 /\ stack'[t] # <<>> /\ stack'[t][1].fn # "renew"
          /\ stack'[t][1].token = token /\ UNCHANGED <<master_token, closing, outcome, issued>>
      BY <2>7, StartsFacts
    <3>2. RenewalAsked(t)'
      BY <1>0, <3>1, <2>6 DEF RenewalAsked, Top
    <3> QED
      BY <2>3, <3>1, <3>2
  <2>8. CASE Ends(t)
    <3>1. /\ stack'[t] = <<>> /\ UNCHANGED <<master_token, closing>>
          /\ outcome'[t] = "reauthentication" => MasterGone
      BY <2>2, <2>8, EndsFacts DEF RenewalAsked
    <3>2. Len(<<>>) = 0
      BY EmptySeq
    <3>3. RenewalAsked(t)'
      BY <1>1, <3>1, <3>2 DEF RenewalAsked
    <3> QED
      BY <2>3, <3>1, <3>3
  <2>9. CASE Answer(t)
    <3>1. /\ UNCHANGED <<stack, master_token, closing, outcome>> /\ stack[t] # <<>>
          /\ answer'[t] \notin {"STORED", "RENEWED"}
          /\ answer'[t] = "OK" /\ Top(t).fn = "renew" => issued' = issued + 1 /\ pair'[t] = issued'
      BY <2>9, AnswerFacts
    <3>2. Top(t).fn = "renew" /\ answer'[t] \in NoMaster => MasterGone
      BY <2>2, <2>9, RefusedForGood
    <3>3. \A i \in 1..Len(stack[t]) :
            stack[t][i].fn = "renew" =>
              stack[t][i].is_master /\ (stack[t][i].token = 0 => closing > 0)
      BY <2>2 DEF RenewalAsked
    <3>4. Top(t)' = Top(t)
      BY <3>1 DEF Top
    <3>5. answer'[t] = "OK" /\ Top(t).fn = "renew" => pair'[t] \in 1..issued'
      BY <1>0, <3>1
    <3>6. RenewalAsked(t)'
      BY <1>1, <2>4, <2>5, <2>6, <3>1, <3>2, <3>3, <3>4, <3>5 DEF RenewalAsked
    <3> QED
      BY <2>3, <3>1, <3>6
  <2>10. CASE Renew(t)
    <3>1. /\ stack[t] # <<>> /\ stack'[t] # <<>> /\ Len(stack'[t]) = Len(stack[t]) + 1
          /\ \A i \in 1..Len(stack[t]) : stack'[t][i] = stack[t][i]
          /\ stack'[t][Len(stack[t]) + 1] = TokenRequest
          /\ answer[t] = "SESSION_EXPIRED" /\ answer'[t] = "reading"
          /\ UNCHANGED <<master_token, closing, outcome, issued>>
      BY <2>10, RenewFacts
    <3>2. \A i \in 1..Len(stack[t]) : stack[t][i].fn # "renew"
      <4>1. Top(t).fn # "renew"
        BY <3>1, RenewsRequest
      <4> QED
        BY <2>5, <4>1 DEF Top
    <3>3. TokenRequest.fn = "renew" /\ TokenRequest.is_master /\ TokenRequest.token = master_token
      BY DEF TokenRequest
    <3>4. master_token = 0 => closing > 0
      BY DEF RefusalInv
    <3>5. \A i \in 1..Len(stack'[t]) :
            /\ stack'[t][i].token \in 0..issued
            /\ stack'[t][i].fn = "renew" => /\ i = Len(stack'[t]) /\ stack'[t][i].is_master
                                            /\ (stack'[t][i].token = 0 => closing > 0)
      <4> SUFFICES ASSUME NEW i \in 1..Len(stack'[t])
                   PROVE  /\ stack'[t][i].token \in 0..issued
                          /\ stack'[t][i].fn = "renew" =>
                               /\ i = Len(stack'[t]) /\ stack'[t][i].is_master
                               /\ (stack'[t][i].token = 0 => closing > 0)
        OBVIOUS
      <4>1. CASE i = Len(stack[t]) + 1
        BY <1>0, <3>1, <3>3, <3>4, <4>1
      <4>2. CASE i # Len(stack[t]) + 1
        <5>1. i \in 1..Len(stack[t])
          BY <2>2, <3>1, <4>2
        <5> QED
          BY <2>4, <3>1, <3>2, <5>1
      <4> QED
        BY <4>1, <4>2
    <3>6. RenewalAsked(t)'
      BY <2>6, <3>1, <3>5 DEF RenewalAsked, NoMaster
    <3> QED
      BY <2>3, <3>1, <3>6
  <2>11. CASE StoreMaster(t)
    <3>1. /\ stack[t] # <<>> /\ stack'[t] # <<>> /\ Top(t).fn = "renew" /\ answer[t] = "STORED"
          /\ Len(stack'[t]) = Len(stack[t]) - 1 /\ Len(stack[t]) >= 2
          /\ \A i \in 1..Len(stack[t]) - 1 : stack'[t][i] = stack[t][i]
          /\ answer'[t] = "RENEWED" /\ master_token' = pair[t] /\ UNCHANGED <<closing, outcome>>
      BY <2>11, StoreMasterFacts
    <3>2. \A i \in 1..Len(stack'[t]) :
            stack'[t][i].token \in 0..issued' /\ stack'[t][i].fn # "renew"
      BY <2>2, <2>4, <2>5, <3>1
    <3>3. stack'[t][Len(stack'[t])].fn # "renew"
      BY <2>2, <3>1, <3>2
    <3>4. RenewalAsked(t)'
      BY <2>6, <3>1, <3>2, <3>3 DEF RenewalAsked, Top, NoMaster
    <3>5. master_token' # 0
      <4>1. pair[t] \in 1..issued
        BY <2>2, <3>1 DEF RenewalAsked
      <4> QED
        BY <1>0, <3>1, <4>1
    <3> QED
      BY <3>4, <3>5
  <2>14. CASE ReadOld(t)
    <3>1. /\ stack[t] # <<>> /\ stack'[t] # <<>> /\ Len(stack'[t]) = Len(stack[t])
          /\ \A i \in 1..Len(stack[t]) - 1 : stack'[t][i] = stack[t][i]
          /\ stack'[t][Len(stack[t])].token = Top(t).token
          /\ stack'[t][Len(stack[t])].is_master = Top(t).is_master
          /\ Top(t).fn = "renew" /\ answer'[t] = "none"
          /\ UNCHANGED <<master_token, closing, outcome, issued>>
      BY <2>14, ReadOldFacts
    <3>2. /\ Top(t).token \in 0..issued /\ Top(t).is_master
          /\ (Top(t).token = 0 => closing > 0)
      BY <2>2, <3>1 DEF RenewalAsked, Top
    <3>3. \A i \in 1..Len(stack[t]) :
            /\ stack'[t][i].token \in 0..issued
            /\ stack'[t][i].fn = "renew" => /\ i = Len(stack[t]) /\ stack'[t][i].is_master
                                            /\ (stack'[t][i].token = 0 => closing > 0)
      <4> SUFFICES ASSUME NEW i \in 1..Len(stack[t])
                   PROVE  /\ stack'[t][i].token \in 0..issued
                          /\ stack'[t][i].fn = "renew" =>
                               /\ i = Len(stack[t]) /\ stack'[t][i].is_master
                               /\ (stack'[t][i].token = 0 => closing > 0)
        OBVIOUS
      <4>1. CASE i = Len(stack[t])
        BY <3>1, <3>2, <4>1
      <4>2. CASE i # Len(stack[t])
        <5>1. i \in 1..Len(stack[t]) - 1
          BY <2>2, <4>2
        <5> QED
          BY <2>4, <2>5, <3>1, <4>2, <5>1
      <4> QED
        BY <4>1, <4>2
    <3>4. RenewalAsked(t)'
      BY <2>6, <3>1, <3>3 DEF RenewalAsked, NoMaster
    <3> QED
      BY <2>3, <3>1, <3>4
  <2>15. CASE StoreSession(t) \/ Reauthenticates(t)
    <3>1. /\ UNCHANGED <<stack, master_token, closing, outcome>> /\ stack[t] # <<>>
          /\ Top(t).fn = "renew" /\ answer'[t] \in {"OK", "STORED"}
      BY <2>15, StoreSessionFacts, LoginFacts DEF Holds
    <3>2. pair'[t] \in 1..issued'
      <4>1. CASE StoreSession(t)
        BY <1>0, <2>2, <4>1, StoreSessionFacts DEF RenewalAsked, Holds
      <4>2. CASE Reauthenticates(t)
        BY <1>0, <4>2, LoginFacts
      <4> QED
        BY <2>15, <4>1, <4>2
    <3>3. \A i \in 1..Len(stack[t]) :
            stack[t][i].fn = "renew" =>
              stack[t][i].is_master /\ (stack[t][i].token = 0 => closing > 0)
      BY <2>2 DEF RenewalAsked
    <3>4. Top(t)' = Top(t)
      BY <3>1 DEF Top
    <3>5. RenewalAsked(t)'
      BY <1>1, <2>4, <2>5, <2>6, <3>1, <3>2, <3>3, <3>4 DEF RenewalAsked, NoMaster
    <3> QED
      BY <2>3, <3>1, <3>5
  <2>12. CASE Resend(t)
    <3>1. /\ stack[t] # <<>> /\ stack'[t] # <<>> /\ Len(stack'[t]) = Len(stack[t])
          /\ \A i \in 1..Len(stack[t]) - 1 : stack'[t][i] = stack[t][i]
          /\ stack'[t][Len(stack[t])].fn = Top(t).fn
          /\ stack'[t][Len(stack[t])].token = token
          /\ answer[t] = "RENEWED" /\ answer'[t] = "none"
          /\ UNCHANGED <<master_token, closing, outcome, issued>>
      BY <2>12, ResendFacts
    <3>2. Top(t).fn # "renew"
      BY <2>2, <3>1 DEF RenewalAsked
    <3>3. \A i \in 1..Len(stack'[t]) :
            stack'[t][i].token \in 0..issued /\ stack'[t][i].fn # "renew"
      <4> SUFFICES ASSUME NEW i \in 1..Len(stack[t])
                   PROVE  stack'[t][i].token \in 0..issued /\ stack'[t][i].fn # "renew"
        BY <3>1
      <4>1. CASE i = Len(stack[t])
        BY <1>0, <3>1, <3>2, <4>1
      <4>2. CASE i # Len(stack[t])
        <5>1. i \in 1..Len(stack[t]) - 1
          BY <2>2, <4>2
        <5> QED
          BY <2>4, <2>5, <3>1, <4>2, <5>1
      <4> QED
        BY <4>1, <4>2
    <3>4. RenewalAsked(t)'
      BY <2>6, <3>1, <3>3 DEF RenewalAsked, NoMaster
    <3> QED
      BY <2>3, <3>1, <3>4
  <2>13. CASE Poll(t)
    <3>1. /\ stack[t] # <<>> /\ stack'[t] # <<>> /\ Len(stack'[t]) = 2
          /\ stack'[t][1] = stack[t][1] /\ stack'[t][2] = Get /\ stack[t][1].fn = "post"
          /\ answer'[t] = "none"
          /\ UNCHANGED <<master_token, closing, outcome, issued>>
      BY <2>13, PollFacts
    <3>2. Get.fn # "renew" /\ Get.token = token
      BY DEF Get
    <3>3. \A i \in 1..Len(stack'[t]) :
            stack'[t][i].token \in 0..issued /\ stack'[t][i].fn # "renew"
      BY <1>0, <2>2, <2>4, <3>1, <3>2
    <3>4. RenewalAsked(t)'
      BY <2>6, <3>1, <3>3 DEF RenewalAsked, NoMaster
    <3> QED
      BY <2>3, <3>1, <3>4
  <2> QED
    BY <1>3, <2>7, <2>8, <2>9, <2>10, <2>11, <2>12, <2>13, <2>14, <2>15 DEF Moves
<1> QED
  BY <1>0, <1>2, <1>3, ThreadMoves DEF Next

-----------------------------------------------------------------------------
\* What a move of thread t does to the tokens that are asked with and to the pairs that
\* are not yet installed: nothing but to ask with the current token, ...
PlainMove(t) ==
    /\ ~Holds(t) /\ ~Holds(t)'
    /\ Asks(t)' => Asked(t)' = token \/ (Asks(t) /\ Asked(t)' = Asked(t))
    /\ Renews(t)' => Asked(t)' \in DeadSessions
    /\ UNCHANGED <<token, issued, session_alive>>

\* ... or it gets a new pair from the server, ...
IssueMove(t) ==
    /\ ~Holds(t) /\ Asks(t) /\ Renews(t) /\ Holds(t)' /\ Asks(t)'
    /\ Asked(t)' = Asked(t)
    /\ issued' = issued + 1 /\ session_alive' = session_alive \cup {issued + 1}
    /\ pair'[t] = issued + 1 /\ UNCHANGED token

\* ... or stores the session token of the pair it holds.
InstallMove(t) ==
    /\ Holds(t) /\ ~Holds(t)' /\ ~Asks(t)'
    /\ Renews(t)' => Asked(t)' \in DeadSessions
    /\ token' = pair[t]
    /\ UNCHANGED <<issued, session_alive>>

(* Every move of a thread is one of these, where renewals do not nest.      *)
LEMMA LedgerMoves ==
    ASSUME Typed, ShapeInv, SimpleRenewals, RefusalInv, MetExpired, NEW t \in Threads, Moves(t)
    PROVE  PlainMove(t) \/ IssueMove(t) \/ InstallMove(t)
<1>0. /\ Len(stack[t]) \in Nat /\ (stack[t] # <<>> => Len(stack[t]) >= 1)
      /\ CallsNested(t) /\ RenewalAsked(t) /\ issued \in Nat
      /\ session_alive \in SUBSET (1..issued)
  BY StackFacts DEF RefusalInv, ShapeInv, Typed
<1>1. CASE Starts(t)
  <2>1. /\ Len(stack'[t]) = 1 /\ stack'[t] # <<>> /\ stack[t] = <<>>
        /\ stack'[t][1].fn # "renew" /\ stack'[t][1].token = token
        /\ answer'[t] = "none" /\ UNCHANGED <<token, issued, session_alive>>
    BY <1>0, <1>1, StartsFacts DEF CallsNested
  <2> QED
    BY <2>1 DEF PlainMove, Holds, Asks, Asked, Renews, Top
<1>2. CASE Ends(t)
  BY <1>2, EndsFacts DEF PlainMove, Holds, Asks, Renews
<1>3. CASE Answer(t)
  <2>1. /\ stack' = stack /\ stack[t] # <<>> /\ answer[t] = "none" /\ UNCHANGED token
        /\ answer'[t] \in Answers(t) /\ answer'[t] \notin {"STORED", "RENEWED"}
        /\ \/ /\ answer'[t] = "OK" /\ Top(t).fn = "renew"
              /\ issued' = issued + 1 /\ session_alive' = session_alive \cup {issued + 1}
              /\ pair'[t] = issued + 1
           \/ /\ ~(answer'[t] = "OK" /\ Top(t).fn = "renew")
              /\ UNCHANGED <<issued, session_alive>>
    BY <1>3, AnswerFacts
  <2>2. Top(t)' = Top(t) /\ Asked(t)' = Asked(t) /\ Asks(t) /\ Asks(t)' /\ ~Holds(t)
    BY <2>1 DEF Top, Asked, Asks, Holds
  <2>3. CASE answer'[t] = "OK" /\ Top(t).fn = "renew"
    BY <2>1, <2>2, <2>3 DEF IssueMove, Renews, Holds
  <2>4. CASE ~(answer'[t] = "OK" /\ Top(t).fn = "renew")
    <3>1. ~Holds(t)'
      BY <2>2, <2>4 DEF Holds
    <3>2. CASE Top(t).fn = "renew"
      BY <2>1, <2>2, <2>4, <3>1, <3>2 DEF PlainMove, Renews, MetExpired
    <3>3. CASE Top(t).fn # "renew"
      <4>1. Top(t).token \in 0..issued /\ Asked(t) = Top(t).token
        BY <1>0, <2>1, <3>3 DEF RenewalAsked, Top, Asked
      <4>2. answer'[t] = "SESSION_EXPIRED" => Top(t).token # 0 /\ Top(t).token \notin session_alive
        BY <2>1, <3>3 DEF Answers, RequestAnswers, InProgress
      <4>3. answer'[t] = "SESSION_EXPIRED" => Asked(t) \in DeadSessions
        BY <1>0, <4>1, <4>2 DEF DeadSessions
      <4> QED
        BY <2>1, <2>2, <2>4, <3>1, <3>3, <4>3 DEF PlainMove, Renews
    <3> QED
      BY <3>2, <3>3
  <2> QED
    BY <2>3, <2>4
<1>4. CASE Renew(t)
  <2>1. /\ stack[t] # <<>> /\ stack'[t] # <<>> /\ Len(stack'[t]) = Len(stack[t]) + 1
        /\ \A i \in 1..Len(stack[t]) : stack'[t][i] = stack[t][i]
        /\ stack'[t][Len(stack[t]) + 1] = TokenRequest
        /\ answer[t] = "SESSION_EXPIRED" /\ answer'[t] = "reading"
        /\ UNCHANGED <<token, issued, session_alive>>
    BY <1>4, RenewFacts
  <2>2. Top(t).fn # "renew"
    BY <2>1, RenewsRequest
  <2>3. TokenRequest.fn = "renew"
    BY DEF TokenRequest
  <2>4. stack'[t][Len(stack'[t]) - 1] = Top(t) /\ Top(t)' = TokenRequest
    <3>1. Len(stack'[t]) - 1 = Len(stack[t]) /\ Len(stack[t]) \in 1..Len(stack[t])
      BY <1>0, <2>1
    <3>2. stack'[t][Len(stack[t])] = stack[t][Len(stack[t])]
      BY <2>1, <3>1
    <3> QED
      BY <2>1, <3>1, <3>2 DEF Top
  <2>5. Asked(t)' = Top(t).token /\ Asked(t) = Top(t).token
    BY <2>2, <2>3, <2>4 DEF Asked
  <2>6. Asks(t) /\ Renews(t) /\ ~Holds(t) /\ ~Holds(t)'
    BY <2>1, <2>2 DEF Asks, Renews, Holds
  <2> QED
    BY <2>1, <2>5, <2>6 DEF PlainMove, MetExpired
<1>5. CASE StoreMaster(t)
  <2>1. /\ stack[t] # <<>> /\ Top(t).fn = "renew" /\ answer[t] = "STORED"
        /\ stack'[t] # <<>> /\ Len(stack'[t]) = Len(stack[t]) - 1 /\ Len(stack[t]) >= 2
        /\ \A i \in 1..Len(stack[t]) - 1 : stack'[t][i] = stack[t][i]
        /\ answer'[t] = "RENEWED" /\ UNCHANGED <<token, issued, session_alive>>
    BY <1>5, StoreMasterFacts
  <2>2. stack'[t][Len(stack'[t])].fn # "renew"
    <3> DEFINE n == Len(stack[t]) - 1
    <3>1. n \in 1..Len(stack[t]) /\ n \in 1..Len(stack[t]) - 1 /\ n # Len(stack[t])
      BY <1>0, <2>1
    <3>2. stack'[t][n] = stack[t][n] /\ Len(stack'[t]) = n
      BY <2>1, <3>1
    <3>3. stack[t][n].fn # "renew"
      BY <1>0, <3>1 DEF RenewalAsked
    <3> QED
      BY <3>2, <3>3
  <2>3. ~Holds(t) /\ ~Holds(t)' /\ ~Asks(t)' /\ ~Renews(t)'
    BY <2>1, <2>2 DEF Holds, Asks, Renews, Top
  <2> QED
    BY <2>1, <2>3 DEF PlainMove
<1>8. CASE StoreSession(t)
  <2>1. /\ Holds(t) /\ stack' = stack /\ answer'[t] = "STORED" /\ token' = pair[t]
        /\ UNCHANGED <<issued, session_alive>>
    BY <1>8, StoreSessionFacts
  <2>2. Renews(t) /\ Asked(t)' = Asked(t) /\ ~Holds(t)' /\ ~Asks(t)'
    BY <2>1 DEF Holds, Renews, Asks, Asked, Top
  <2> QED
    BY <2>1, <2>2 DEF InstallMove, MetExpired
<1>9. CASE Reauthenticates(t)
  <2>1. /\ stack' = stack /\ stack[t] # <<>> /\ Top(t).fn = "renew"
        /\ answer[t] \in NoMaster /\ answer'[t] = "OK" /\ UNCHANGED token
        /\ issued' = issued + 1 /\ pair'[t] = issued + 1
        /\ session_alive' = session_alive \cup {issued + 1}
    BY <1>9, LoginFacts
  <2>2. answer[t] \notin {"OK", "STORED", "RENEWED"}
    BY <2>1 DEF NoMaster
  <2>3. /\ ~Holds(t) /\ Asks(t) /\ Renews(t) /\ Holds(t)' /\ Asks(t)'
        /\ Asked(t)' = Asked(t)
    BY <2>1, <2>2 DEF Holds, Asks, Renews, Asked, Top
  <2> QED
    BY <2>1, <2>3 DEF IssueMove
<1>10. CASE ReadOld(t)
  <2>1. /\ stack[t] # <<>> /\ stack'[t] # <<>> /\ Len(stack'[t]) = Len(stack[t])
        /\ Len(stack[t]) >= 2
        /\ \A i \in 1..Len(stack[t]) - 1 : stack'[t][i] = stack[t][i]
        /\ stack'[t][Len(stack[t])].fn = "renew" /\ Top(t).fn = "renew"
        /\ answer[t] = "reading" /\ answer'[t] = "none"
        /\ UNCHANGED <<token, issued, session_alive>>
    BY <1>10, ReadOldFacts
  <2>2. stack'[t][Len(stack'[t]) - 1] = stack[t][Len(stack[t]) - 1]
    <3>1. Len(stack[t]) - 1 \in 1..Len(stack[t]) - 1
      BY <1>0, <2>1
    <3> QED
      BY <2>1, <3>1
  <2>3. Asked(t)' = Asked(t) /\ Asks(t) /\ Renews(t) /\ ~Holds(t) /\ ~Holds(t)'
    BY <2>1, <2>2 DEF Asked, Asks, Renews, Holds, Top
  <2> QED
    BY <2>1, <2>3 DEF PlainMove, MetExpired
<1>6. CASE Resend(t)
  <2>1. /\ stack[t] # <<>> /\ stack'[t] # <<>> /\ Len(stack'[t]) = Len(stack[t])
        /\ stack'[t][Len(stack[t])].fn = Top(t).fn /\ stack'[t][Len(stack[t])].token = token
        /\ answer[t] = "RENEWED" /\ answer'[t] = "none"
        /\ UNCHANGED <<token, issued, session_alive>>
    BY <1>6, ResendFacts
  <2>2. Top(t).fn # "renew"
    BY <1>0, <2>1 DEF RenewalAsked
  <2>3. Top(t)'.fn # "renew" /\ Top(t)'.token = token
    BY <2>1, <2>2 DEF Top
  <2> QED
    BY <2>1, <2>2, <2>3 DEF PlainMove, Holds, Asked, Renews
<1>7. CASE Poll(t)
  <2>1. /\ stack'[t] # <<>> /\ Len(stack'[t]) = 2 /\ stack'[t][2] = Get
        /\ answer[t] \in InProgress /\ answer'[t] = "none"
        /\ UNCHANGED <<token, issued, session_alive>>
    BY <1>7, PollFacts
  <2>2. Top(t)'.fn # "renew" /\ Top(t)'.token = token
    BY <2>1 DEF Top, Get
  <2> QED
    BY <2>1, <2>2 DEF PlainMove, Holds, Asked, Renews, InProgress
<1> QED
  BY <1>1, <1>2, <1>3, <1>4, <1>5, <1>6, <1>7, <1>8, <1>9, <1>10 DEF Moves

(* A thread that does not move asks and holds what it did.                  *)
LEMMA SameLedger ==
    ASSUME NEW u \in Threads, SameThread(u)
    PROVE  /\ Holds(u)' <=> Holds(u)
           /\ Asks(u)' <=> Asks(u)
           /\ Renews(u)' <=> Renews(u)
           /\ Asked(u)' = Asked(u) /\ pair'[u] = pair[u]
BY DEF SameThread, Holds, Asks, Renews, Asked, Top

(* What is asked with, or held, was issued.                                 *)
LEMMA LedgerBounds ==
    ASSUME Typed, ShapeInv, RefusalInv, NEW u \in Threads
    PROVE  /\ Holds(u) => pair[u] \in 1..issued
           /\ Asks(u) => Asked(u) \in 0..issued
<1>1. /\ RenewalAsked(u) /\ CallsNested(u) /\ Len(stack[u]) \in Nat
      /\ (stack[u] # <<>> => Len(stack[u]) >= 1)
  BY StackFacts DEF RefusalInv, ShapeInv
<1>2. Holds(u) => pair[u] \in 1..issued
  BY <1>1 DEF Holds, RenewalAsked
<1>3. ASSUME Asks(u) PROVE Asked(u) \in 0..issued
  <2>1. stack[u] # <<>> /\ (Top(u).fn = "renew" => Len(stack[u]) # 1)
    BY <1>1, <1>3 DEF Asks, CallsNested, Top
  <2>2. CASE Top(u).fn = "renew"
    <3> DEFINE j == Len(stack[u]) - 1
    <3>0. Len(stack[u]) \in Nat /\ Len(stack[u]) >= 1 /\ Len(stack[u]) # 1
      BY <1>1, <2>1, <2>2
    <3>1. j \in 1..Len(stack[u])
      <4>1. \A n \in Nat : n >= 1 /\ n # 1 => n - 1 \in 1..n
        OBVIOUS
      <4> QED
        BY <3>0, <4>1
    <3>2. Asked(u) = stack[u][j].token
      BY <2>2 DEF Asked
    <3> HIDE DEF j
    <3> QED
      BY <1>1, <3>1, <3>2 DEF RenewalAsked
  <2>3. CASE Top(u).fn # "renew"
    <3>1. Len(stack[u]) \in 1..Len(stack[u])
      BY <1>1, <2>1
    <3> QED
      BY <1>1, <2>3, <3>1 DEF RenewalAsked, Asked, Top
  <2> QED
    BY <2>2, <2>3
<1> QED
  BY <1>2, <1>3

(* A move that issues no pair keeps the ledger.                             *)
LEMMA LedgerKept ==
    ASSUME Typed, ShapeInv, RefusalInv, LedgerInv, NEW t \in Threads,
           \A u \in Threads \ {t} : SameThread(u),
           PlainMove(t) \/ InstallMove(t)
    PROVE  LedgerInv'
<1>1. /\ UNCHANGED <<issued, session_alive>> /\ DeadSessions' = DeadSessions
      /\ issued \in Nat \ {0} /\ ~Holds(t)'
  BY DEF PlainMove, InstallMove, DeadSessions, Typed
<1>2. \A u \in Threads \ {t} : /\ Holds(u)' <=> Holds(u)
                               /\ Asks(u)' <=> Asks(u)
                               /\ Renews(u)' <=> Renews(u)
                               /\ Asked(u)' = Asked(u) /\ pair'[u] = pair[u]
  BY SameLedger
<1>3. PICK w \in [2..issued -> Threads \X DeadSessions] : Ledger(w)
  BY DEF LedgerInv
<1>4. \A i \in 2..issued : w[i][1] \in Threads
  OBVIOUS
<1>5. MetExpired /\ PairsPrivate
  BY DEF LedgerInv
<1>6. MetExpired'
  <2>1. Renews(t)' => Asked(t)' \in DeadSessions
    BY DEF PlainMove, InstallMove
  <2> QED
    BY <1>1, <1>2, <1>5, <2>1 DEF MetExpired
<1>7. CASE PlainMove(t)
  <2>1. /\ ~Holds(t) /\ UNCHANGED token
        /\ Asks(t)' => Asked(t)' = token \/ (Asks(t) /\ Asked(t)' = Asked(t))
    BY <1>7 DEF PlainMove
  <2>2. PairsPrivate'
    BY <1>1, <1>2, <1>5, <2>1 DEF PairsPrivate
  <2>3. Ledger(w)'
    <3>1. \A i, j \in 2..issued : w[i] = w[j] => i = j
      BY <1>3 DEF Ledger
    <3>2. ASSUME NEW i \in 2..issued
          PROVE  LET o == w[i][1]  k == w[i][2] IN
                 /\ \A u \in Threads : Holds(u)' => pair'[u] # k
                 /\ ~(Holds(o)' /\ pair'[o] = i) => token # k /\ (Asks(o)' => Asked(o)' # k)
      <4>1. \A u \in Threads : Holds(u)' => pair'[u] # w[i][2]
        BY <1>1, <1>2, <1>3, <3>2 DEF Ledger
      <4>2. CASE w[i][1] = t
        BY <1>3, <2>1, <3>2, <4>1, <4>2 DEF Ledger
      <4>3. CASE w[i][1] # t
        BY <1>2, <1>3, <1>4, <3>2, <4>1, <4>3 DEF Ledger
      <4> QED
        BY <4>2, <4>3
    <3> QED
      BY <1>1, <2>1, <3>1, <3>2 DEF Ledger
  <2> QED
    BY <1>1, <1>6, <2>2, <2>3 DEF LedgerInv
<1>8. CASE InstallMove(t)
  <2>1. Holds(t) /\ ~Asks(t)' /\ token' = pair[t]
    BY <1>8 DEF InstallMove
  <2>2. PairsPrivate'
    BY <1>1, <1>2, <1>5, <2>1 DEF PairsPrivate
  <2>3. Ledger(w)'
    <3>1. \A i, j \in 2..issued : w[i] = w[j] => i = j
      BY <1>3 DEF Ledger
    <3>2. ASSUME NEW i \in 2..issued
          PROVE  LET o == w[i][1]  k == w[i][2] IN
                 /\ \A u \in Threads : Holds(u)' => pair'[u] # k
                 /\ ~(Holds(o)' /\ pair'[o] = i) => token' # k /\ (Asks(o)' => Asked(o)' # k)
      <4>1. \A u \in Threads : Holds(u)' => pair'[u] # w[i][2]
        BY <1>1, <1>2, <1>3, <3>2 DEF Ledger
      <4>2. token' # w[i][2]
        BY <1>3, <2>1, <3>2 DEF Ledger
      <4>3. CASE w[i][1] = t
        BY <2>1, <4>1, <4>2, <4>3
      <4>4. CASE w[i][1] # t
        BY <1>2, <1>3, <1>4, <3>2, <4>1, <4>2, <4>4 DEF Ledger
      <4> QED
        BY <4>3, <4>4
    <3> QED
      BY <1>1, <3>1, <3>2 DEF Ledger
  <2> QED
    BY <1>1, <1>6, <2>2, <2>3 DEF LedgerInv
<1> QED
  BY <1>7, <1>8

(* A move that issues a pair enters it in the ledger: no thread gets a      *)
(* second pair for the same expired session token.                          *)
LEMMA LedgerGrows ==
    ASSUME Typed, ShapeInv, RefusalInv, LedgerInv, NEW t \in Threads,
           \A u \in Threads \ {t} : SameThread(u),
           IssueMove(t)
    PROVE  LedgerInv'
<1>1. /\ issued' = issued + 1 /\ issued \in Nat \ {0} /\ token \in 0..issued
      /\ session_alive' = session_alive \cup {issued + 1}
      /\ session_alive \in SUBSET (1..issued)
  BY DEF IssueMove, Typed
<1>2. DeadSessions' = DeadSessions /\ DeadSessions \subseteq 1..issued
  BY <1>1 DEF DeadSessions
<1>3. \A u \in Threads \ {t} : /\ Holds(u)' <=> Holds(u)
                               /\ Asks(u)' <=> Asks(u)
                               /\ Renews(u)' <=> Renews(u)
                               /\ Asked(u)' = Asked(u) /\ pair'[u] = pair[u]
  BY SameLedger
<1>4. PICK w \in [2..issued -> Threads \X DeadSessions] : Ledger(w)
  BY DEF LedgerInv
<1>5. MetExpired /\ PairsPrivate
  BY DEF LedgerInv
<1>6. Asks(t) /\ ~Holds(t) /\ Asked(t) \in DeadSessions
  BY <1>5 DEF IssueMove, MetExpired
<1>7. \A u \in Threads : /\ Holds(u) => pair[u] \in 1..issued
                         /\ Asks(u) => Asked(u) \in 0..issued
  BY LedgerBounds
<1>8. /\ \A i \in 2..issued : w[i] \in Threads \X DeadSessions
      /\ \A i \in 2..issued : w[i][1] \in Threads /\ w[i][2] \in DeadSessions
  OBVIOUS
<1>9. PICK v \in [2..issued + 1 -> Threads \X DeadSessions] :
        /\ \A i, j \in 2..issued + 1 : v[i] = v[j] => i = j
        /\ v[issued + 1][1] = t /\ v[issued + 1][2] = Asked(t)
        /\ \A i \in 2..issued : v[i] = w[i]
  <2> DEFINE e == <<t, Asked(t)>>
             S == Threads \X DeadSessions
  <2>1. e \in S /\ e[1] = t /\ e[2] = Asked(t)
    BY <1>6
  <2>2. \A i, j \in 2..issued : w[i] = w[j] => i = j
    BY <1>4 DEF Ledger
  <2>3. \A i \in 2..issued : w[i][1] = t => w[i][2] # Asked(t)
    BY <1>4, <1>6 DEF Ledger
  <2>4. \A i \in 2..issued : w[i] # e
    BY <2>1, <2>3
  <2>5. w \in [2..issued -> S]
    OBVIOUS
  <2> HIDE DEF e, S
  <2> DEFINE v == [i \in 2..issued + 1 |-> IF i = issued + 1 THEN e ELSE w[i]]
  <2>6. /\ \A i \in 2..issued + 1 : i # issued + 1 => i \in 2..issued
        /\ issued + 1 \in 2..issued + 1
        /\ \A i \in 2..issued : i \in 2..issued + 1 /\ i # issued + 1
    BY <1>1
  <2>7. v \in [2..issued + 1 -> S]
    BY <2>1, <2>5, <2>6
  <2>8. v[issued + 1] = e /\ \A i \in 2..issued : v[i] = w[i]
    BY <2>6
  <2> HIDE DEF v
  <2>9. ASSUME NEW i \in 2..issued + 1, NEW j \in 2..issued + 1, v[i] = v[j]
        PROVE  i = j
    BY <2>2, <2>4, <2>6, <2>8, <2>9
  <2>10. /\ v \in [2..issued + 1 -> Threads \X DeadSessions]
         /\ \A i, j \in 2..issued + 1 : v[i] = v[j] => i = j
         /\ v[issued + 1][1] = t /\ v[issued + 1][2] = Asked(t)
         /\ \A i \in 2..issued : v[i] = w[i]
    BY <2>1, <2>7, <2>8, <2>9 DEF S
  <2>11. v \in [2..issued + 1 -> Threads \X DeadSessions]
    BY <2>10
  <2> WITNESS v \in [2..issued + 1 -> Threads \X DeadSessions]
  <2> QED
    BY <2>10
<1>10. \A i \in 2..issued : w[i][1] \in Threads /\ w[i][2] \in 0..issued
  <2>1. 1..issued \subseteq 0..issued
    BY <1>1
  <2> QED
    BY <1>2, <1>8, <2>1
<1>11. /\ ~(issued + 1 \in 0..issued)
       /\ \A i \in 2..issued + 1 : i # issued + 1 => i \in 2..issued
  BY <1>1
<1>12. CASE IssueMove(t)
  <2>1. /\ Asks(t)' /\ Asked(t)' = Asked(t) /\ pair'[t] = issued + 1 /\ token' = token
    BY <1>12 DEF IssueMove
  <2>2. Holds(t)'
    BY <1>12 DEF IssueMove
  <2>3. MetExpired'
    BY <1>2, <1>3, <1>5, <1>6, <2>1 DEF MetExpired
  <2>4. PairsPrivate'
    <3>1. ASSUME NEW h \in Threads, Holds(h)'
          PROVE  /\ pair'[h] # token'
                 /\ \A u \in Threads : u # h /\ Holds(u)' => pair'[u] # pair'[h]
                 /\ \A u \in Threads : Asks(u)' => Asked(u)' # pair'[h]
      <4>1. CASE h = t
        <5>1. \A u \in Threads : Asks(u)' => Asked(u)' \in 0..issued
          BY <1>3, <1>6, <1>7, <2>1
        <5>2. \A u \in Threads : u # t /\ Holds(u)' => pair'[u] \in 0..issued
          BY <1>1, <1>3, <1>7
        <5> QED
          BY <1>1, <1>11, <2>1, <4>1, <5>1, <5>2
      <4>2. CASE h # t
        <5>1. Holds(h) /\ pair'[h] = pair[h] /\ pair[h] \in 0..issued
          BY <1>1, <1>3, <1>7, <3>1, <4>2
        <5>2. \A u \in Threads : Asks(u)' => Asked(u)' # pair[h]
          BY <1>3, <1>5, <1>6, <2>1, <5>1 DEF PairsPrivate
        <5>3. \A u \in Threads : u # h /\ Holds(u)' => pair'[u] # pair[h]
          BY <1>3, <1>5, <1>11, <2>1, <5>1 DEF PairsPrivate
        <5> QED
          BY <1>5, <2>1, <5>1, <5>2, <5>3 DEF PairsPrivate
      <4> QED
        BY <4>1, <4>2
    <3> QED
      BY <3>1 DEF PairsPrivate
  <2>5. ASSUME NEW i \in 2..issued + 1
        PROVE  LET o == v[i][1]  k == v[i][2] IN
               /\ \A u \in Threads : Holds(u)' => pair'[u] # k
               /\ ~(Holds(o)' /\ pair'[o] = i) => token' # k /\ (Asks(o)' => Asked(o)' # k)
    <3>1. CASE i = issued + 1
      <4>1. v[i][1] = t /\ v[i][2] = Asked(t) /\ Asked(t) \in 0..issued
        BY <1>6, <1>7, <1>9, <3>1
      <4>2. \A u \in Threads : Holds(u)' => pair'[u] # Asked(t)
        BY <1>3, <1>5, <1>6, <1>11, <2>1, <4>1 DEF PairsPrivate
      <4> QED
        BY <2>1, <2>2, <3>1, <4>1, <4>2
    <3>2. CASE i # issued + 1
      <4>0. i \in 2..issued
        BY <1>11, <3>2
      <4>1. i \in 2..issued /\ v[i] = w[i] /\ w[i][1] \in Threads /\ w[i][2] \in 0..issued
        BY <1>1, <1>9, <1>10, <4>0
      <4>2. \A u \in Threads : Holds(u)' => pair'[u] # w[i][2]
        BY <1>3, <1>4, <1>11, <2>1, <4>1 DEF Ledger
      <4>3. CASE w[i][1] = t
        BY <1>4, <1>6, <2>1, <4>1, <4>2, <4>3 DEF Ledger
      <4>4. CASE w[i][1] # t
        BY <1>3, <1>4, <2>1, <4>1, <4>2, <4>4 DEF Ledger
      <4> QED
        BY <4>3, <4>4
    <3> QED
      BY <3>1, <3>2
  <2>6. Ledger(v)'
    BY <1>1, <1>9, <2>5 DEF Ledger
  <2> QED
    BY <1>1, <1>2, <1>9, <2>3, <2>4, <2>6 DEF LedgerInv
<1> QED
  BY <1>12

(* A step that moves no thread keeps the ledger: close() and the expiry of  *)
(* tokens.                                                                  *)
LEMMA LedgerQuiet ==
    ASSUME Typed, ShapeInv, RefusalInv, LedgerInv,
           \A u \in Threads : SameThread(u),
           token' \in {token, 0}, issued' = issued, session_alive' \subseteq session_alive
    PROVE  LedgerInv'
<1>1. issued \in Nat \ {0} /\ DeadSessions \subseteq DeadSessions'
      /\ DeadSessions \subseteq 1..issued
  BY DEF Typed, DeadSessions
<1>2. \A u \in Threads : /\ Holds(u)' <=> Holds(u)
                         /\ Asks(u)' <=> Asks(u)
                         /\ Renews(u)' <=> Renews(u)
                         /\ Asked(u)' = Asked(u) /\ pair'[u] = pair[u]
  BY SameLedger
<1>3. \A u \in Threads : Holds(u) => pair[u] # 0
  <2>1. \A u \in Threads : Holds(u) => pair[u] \in 1..issued
    BY LedgerBounds
  <2>2. ~(0 \in 1..issued)
    BY <1>1
  <2> QED
    BY <2>1, <2>2
<1>4. PICK w \in [2..issued -> Threads \X DeadSessions] : Ledger(w)
  BY DEF LedgerInv
<1>5. \A i \in 2..issued : w[i] \in Threads \X DeadSessions
  OBVIOUS
<1>6. \A i \in 2..issued : w[i][1] \in Threads /\ w[i][2] # 0
  <2>1. ~(0 \in DeadSessions)
    BY <1>1
  <2> QED
    BY <1>5, <2>1
<1>7. MetExpired'
  BY <1>1, <1>2 DEF LedgerInv, MetExpired
<1>8. PairsPrivate'
  BY <1>2, <1>3 DEF LedgerInv, PairsPrivate
<1>9. ASSUME NEW i \in 2..issued
      PROVE  LET o == w[i][1]  k == w[i][2] IN
             /\ \A u \in Threads : Holds(u)' => pair'[u] # k
             /\ ~(Holds(o)' /\ pair'[o] = i) => token' # k /\ (Asks(o)' => Asked(o)' # k)
  BY <1>2, <1>4, <1>6, <1>9 DEF Ledger
<1>10. Ledger(w)'
  <2>1. \A i, j \in 2..issued : w[i] = w[j] => i = j
    BY <1>4 DEF Ledger
  <2> QED
    BY <1>9, <2>1 DEF Ledger
<1>11. w \in [2..issued -> Threads \X DeadSessions']
  BY <1>1, <1>5
<1> QED
  BY <1>7, <1>8, <1>10, <1>11 DEF LedgerInv

(* Every step keeps the ledger, where renewals do not nest.                 *)
LEMMA LedgerStep ==
    Typed /\ ShapeInv /\ SimpleRenewals /\ RefusalInv /\ LedgerInv /\ [Next]_vars => LedgerInv'
<1> SUFFICES ASSUME Typed, ShapeInv, SimpleRenewals, RefusalInv, LedgerInv, [Next]_vars
             PROVE  LedgerInv'
  OBVIOUS
<1>1. scenario.threads \subseteq Threads
  BY ScenarioFacts DEF Typed
<1>2. CASE UNCHANGED vars \/ Close \/ Expire
  <2>1. \A u \in Threads : SameThread(u)
    BY <1>2 DEF vars, Close, Expire, SameThread
  <2>2. token' \in {token, 0} /\ issued' = issued /\ session_alive' \subseteq session_alive
    BY <1>2 DEF vars, tokens, server, Close, Expire, ExpireSession, ExpireMaster
  <2> QED
    BY <2>1, <2>2, LedgerQuiet
<1>3. ASSUME NEW t \in Threads, Moves(t) PROVE LedgerInv'
  <2>1. \A u \in Threads \ {t} : SameThread(u)
    BY <1>3, OtherThreads
  <2>2. PlainMove(t) \/ InstallMove(t) \/ IssueMove(t)
    BY <1>3, LedgerMoves DEF LedgerInv
  <2> QED
    BY <2>1, <2>2, LedgerKept, LedgerGrows
<1> QED
  BY <1>1, <1>2, <1>3, ThreadMoves DEF Next

-----------------------------------------------------------------------------
(* The first state satisfies the invariant.                                 *)
LEMMA InvInit == Init => Inv
<1> SUFFICES ASSUME Init PROVE Inv
  OBVIOUS
<1>1. Typed
  <2>1. MaxPolls \in Nat /\ MaxRequests \in Nat
    BY ScenarioFacts DEF Init
  <2>2. <<>> \in Seq(Frame)
    BY EmptySeq
  <2>3. /\ scenario \in Scenarios /\ issued = 1 /\ token = 1 /\ master_token = 1
        /\ session_alive = {1} /\ master_alive = {1} /\ closing = 0
        /\ lock = {} /\ token_at = 1 /\ master_at = 1
        /\ 0 \in 0..MaxPolls /\ 0 \in 0..MaxRequests
    BY <2>1 DEF Init
  <2>4. expired \in BOOLEAN /\ no_results \in [Threads -> BOOLEAN]
    BY Zenon DEF Init
  <2>5. /\ stack \in [Threads -> Seq(Frame)] /\ answer \in [Threads -> Answered]
        /\ outcome \in [Threads -> Outcomes]
    BY <2>2 DEF Init, Answered, Outcomes
  <2>6. /\ pair \in [Threads -> 0..issued] /\ polls \in [Threads -> 0..MaxPolls]
        /\ begun \in [Threads -> 0..MaxRequests]
    BY <2>3 DEF Init
  <2> QED
    BY <2>3, <2>4, <2>5, <2>6 DEF Typed
<1>2. \A t \in Threads : stack[t] = <<>> /\ answer[t] = "none" /\ outcome[t] = "none"
  BY DEF Init
<1>3. ShapeInv
  <2>1. Len(<<>>) = 0 /\ MaxStack \in Nat /\ 0 <= MaxStack + 1
    BY ScenarioFacts, EmptySeq DEF Init
  <2>2. 2..0 = {}
    OBVIOUS
  <2>3. ASSUME NEW t \in Threads PROVE CallsNested(t)
    <3>1. stack[t] = <<>> /\ answer[t] = "none" /\ Len(stack[t]) = 0
      BY <1>2, <2>1
    <3>2. Len(stack[t]) <= MaxStack + 1 /\ 2..Len(stack[t]) = {}
      BY <2>1, <2>2, <3>1
    <3> QED
      BY <3>1, <3>2 DEF CallsNested
  <2> QED
    BY <2>3 DEF ShapeInv
<1>4. LockInv /\ StampInv
  BY DEF Init, LockInv, StampInv, TokensPaired
<1>5. RefusalInv
  <2>1. \A t \in Threads : RenewalAsked(t)
    BY <1>2, EmptySeq DEF RenewalAsked
  <2> QED
    BY <2>1 DEF RefusalInv, Init
<1>6. LedgerInv
  <2>1. \A t \in Threads : ~Holds(t) /\ ~Renews(t)
    BY <1>2 DEF Holds, Renews
  <2>2. 2..issued = {}
    BY DEF Init
  <2> DEFINE w == [i \in 2..issued |-> <<>>]
  <2>3. w \in [2..issued -> Threads \X DeadSessions] /\ Ledger(w)
    BY <2>2 DEF Ledger
  <2> QED
    BY <2>1, <2>3 DEF LedgerInv, MetExpired, PairsPrivate
<1> QED
  BY <1>1, <1>3, <1>4, <1>5, <1>6 DEF Inv

(* The invariant holds of every reachable state.                            *)
LEMMA InvHolds == Spec => []Inv
<1>1. Inv /\ [Next]_vars => Inv'
  <2> SUFFICES ASSUME Inv, [Next]_vars PROVE Inv'
    OBVIOUS
  <2>1. Typed' /\ ShapeInv' /\ LockInv' /\ StampInv'
    BY TypedStep, ShapeStep, LockStep, StampStep DEF Inv
  <2>2. scenario' = scenario
    BY DEF Next, vars
  <2>3. SimpleRenewals' => RefusalInv' /\ LedgerInv'
    BY <2>2, RefusalStep, LedgerStep DEF Inv, SimpleRenewals
  <2> QED
    BY <2>1, <2>3 DEF Inv
<1> QED
  BY <1>1, InvInit, PTL DEF Spec

(* The calls of every thread stay nested as the code nests them and every   *)
(* value is of its type.                                                    *)
LEMMA TypeFromInv == Typed /\ ShapeInv => TypeOK
<1> SUFFICES ASSUME Typed, ShapeInv PROVE TypeOK
  OBVIOUS
<1>1. ASSUME NEW t \in Threads
      PROVE  /\ stack[t] \in Seq(Frame) /\ Len(stack[t]) <= MaxStack + 1
             /\ \A i \in 2..Len(stack[t]) :
                  stack[t][i].fn = "get" => i = 2 /\ stack[t][1].fn = "post"
             /\ answer[t] \in Codes \cup {"none", "reading", "STORED", "RENEWED"}
             /\ pair[t] \in 0..issued
             /\ polls[t] \in 0..MaxPolls /\ begun[t] \in 0..MaxRequests
             /\ no_results[t] \in BOOLEAN
             /\ outcome[t] \in {"none", "answered", "raised", "closed", "reauthentication"}
  <2>1. CallsNested(t) /\ stack[t] \in Seq(Frame)
    BY DEF ShapeInv, Typed
  <2>2. /\ Len(stack[t]) <= MaxStack + 1
        /\ \A i \in 2..Len(stack[t]) :
             stack[t][i].fn = "get" => i = 2 /\ stack[t][1].fn = "post"
    BY <2>1 DEF CallsNested
  <2>3. /\ answer[t] \in Codes \cup {"none", "reading", "STORED", "RENEWED"}
        /\ outcome[t] \in {"none", "answered", "raised", "closed", "reauthentication"}
    BY DEF Typed, Answered, Outcomes
  <2>4. /\ pair[t] \in 0..issued /\ polls[t] \in 0..MaxPolls /\ begun[t] \in 0..MaxRequests
        /\ no_results[t] \in BOOLEAN
    BY DEF Typed
  <2> QED
    BY <2>1, <2>2, <2>3, <2>4
<1>2. /\ issued \in Nat \ {0} /\ {token, master_token} \subseteq 0..issued
      /\ session_alive \subseteq 1..issued /\ master_alive \subseteq 1..issued
      /\ expired \in BOOLEAN /\ closing \in 0..2
      /\ lock \subseteq Threads /\ {token_at, master_at} \subseteq Nat
  BY DEF Typed
<1> QED
  BY <1>1, <1>2 DEF TypeOK

(* A ledger of the pairs bounds how many were issued.                       *)
LEMMA LedgerCounts ==
    ASSUME Typed, LedgerInv
    PROVE  issued <= 1 + Cardinality(Threads) * Cardinality(DeadSessions)
<1> DEFINE S == Threads \X DeadSessions
<1>1. issued \in Nat \ {0}
  BY DEF Typed
<1>2. IsFiniteSet(DeadSessions)
  <2>1. IsFiniteSet(1..issued)
    BY <1>1, FS_Interval
  <2> QED
    BY <2>1, FS_Subset DEF DeadSessions
<1>3. IsFiniteSet(Threads)
  BY ParametersAssumption
<1>4. IsFiniteSet(S) /\ Cardinality(S) = Cardinality(Threads) * Cardinality(DeadSessions)
  BY <1>2, <1>3, FS_Product
<1>5. PICK w \in [2..issued -> S] : Ledger(w)
  BY DEF LedgerInv
<1>6. w \in Injection(2..issued, S)
  BY <1>5 DEF Ledger, Injection, IsInjective
<1>7. Cardinality(2..issued) <= Cardinality(S)
  <2> DEFINE D == 2..issued
  <2>1. w \in Injection(D, S) /\ IsFiniteSet(S)
    BY <1>4, <1>6
  <2> HIDE DEF S, D
  <2>2. Cardinality(D) <= Cardinality(S)
    BY <2>1, FS_Injection
  <2> QED
    BY <2>2 DEF D
<1>8. Cardinality(2..issued) = issued - 1
  BY <1>1, FS_Interval
<1>9. Cardinality(S) \in Nat
  BY <1>4, FS_CardinalityType
<1> HIDE DEF S
<1>10. issued <= 1 + Cardinality(S)
  BY <1>1, <1>7, <1>8, <1>9
<1> QED
  BY <1>4, <1>10

-----------------------------------------------------------------------------
(* For any number of threads, requests, polls, expired tokens and nested    *)
(* renewals: although update_tokens() stores its two tokens one by one and  *)
(* nobody reads them under its lock, no interleaving of renewals, logins    *)
(* and close() leaves the session token of one renewal with the master      *)
(* token of another, nor lets a renewal give up a session token older than  *)
(* the master token it shows; and the nested calls of _post_request,        *)
(* _get_request and _token_request stay balanced.                           *)
THEOREM TokensAreConsistent == Spec => []TokensConsistent
<1>1. Inv => TokensConsistent
  <2> SUFFICES ASSUME Inv PROVE TokensConsistent
    OBVIOUS
  <2>1. TypeOK /\ TokensPaired
    BY TypeFromInv DEF Inv, LockInv
  <2>2. ASSUME NEW t \in Threads, answer[t] = "reading" PROVE token_at >= Top(t).at
    <3>1. Top(t) \in Frame
      BY <2>2, StackFacts DEF Inv, ShapeInv, CallsNested
    <3>2. /\ Top(t).at \in Nat /\ token_at \in Nat /\ master_at \in Nat
          /\ Top(t).at <= master_at /\ master_at <= token_at
      BY <2>2, <3>1 DEF Frame, Inv, Typed, StampInv
    <3> QED
      BY <3>2
  <2> QED
    BY <2>1, <2>2 DEF TokensConsistent, OldNotOlder
<1> QED
  BY <1>1, InvHolds, PTL

(* For any number of threads that meet expired sessions together, where a   *)
(* renewal is not itself answered SESSION_EXPIRED: nobody is told to        *)
(* authenticate again unless a master token expired or close() ran, and     *)
(* each thread renews at most once for each session token that expired.     *)
THEOREM RenewalsAreIndependent == Spec => []RenewalsIndependent
<1>1. Inv => RenewalsIndependent
  <2> SUFFICES ASSUME Inv PROVE RenewalsIndependent
    OBVIOUS
  <2>1. RefusedOnlyWhenDead
    BY DEF Inv, SimpleRenewals, RefusalInv, RenewalAsked, MasterGone, RefusedOnlyWhenDead
  <2>2. RenewalsBounded
    BY LedgerCounts DEF Inv, SimpleRenewals, RenewalsBounded
  <2> QED
    BY <2>1, <2>2 DEF RenewalsIndependent
<1> QED
  BY <1>1, InvHolds, PTL
=============================================================================
