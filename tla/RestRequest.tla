---------------------------- MODULE RestRequest ----------------------------
(***************************************************************************)
(* SnowflakeRestful (network.py): requests of several threads over one     *)
(* session: _post_request, _get_request and _token_request, which call     *)
(* each other to renew an expired session and to poll ("ping pong") for a  *)
(* query that is still running; update_tokens; close().                    *)
(*                                                                         *)
(* Each thread has the stack of its active calls.  One fetch() is one      *)
(* answer of the server (external), which is handled in a later step, so   *)
(* answers are as late as they like.  The server issues token pairs        *)
(* 1, 2, ...; the number of a pair stands for both its tokens, 0 for None. *)
(* A _post_request made by _token_request is one frame with it, "renew".   *)
(* update_tokens stores the tokens one after the other under _lock_token,  *)
(* which no reader takes: _token_request reads the master token for its    *)
(* header and then, in a step of its own, the session token for its body.  *)
(***************************************************************************)
EXTENDS Integers, Sequences, FiniteSets

CONSTANTS
    Threads,
    Scenarios      \* settings and bounds, one of which a behaviour has

(* authenticator: "DEFAULT", "EXTERNALBROWSER" or "PAT_WITH_EXTERNAL_SESSION".  *)
(* threads: the ones that send requests.  Bounds: requests begun by one     *)
(* thread, answers that a query is in progress per request, session tokens *)
(* and master tokens that expire; and below depth stack a renewal gets no  *)
(* SESSION_EXPIRED.  closes: may close() run?                              *)
ASSUME ParametersAssumption ==
    /\ IsFiniteSet(Threads)
    /\ \A s \in Scenarios :
         /\ s.authenticator \in {"DEFAULT", "EXTERNALBROWSER", "PAT_WITH_EXTERNAL_SESSION"}
         /\ s.threads \subseteq Threads /\ s.threads # {}
         /\ s.closes \in BOOLEAN
         /\ s.requests \in Nat \ {0} /\ s.stack \in Nat \ {0, 1}
         /\ {s.polls, s.expiries, s.masterExpiries} \subseteq Nat

VARIABLES
    scenario,       \* never changes
    token, master_token, expired,  \* SnowflakeRestful and Connection.expired
    lock,           \* _lock_token: the threads that hold it
    token_at, master_at,           \* history: by which update_tokens, counted from the
                    \* first login, each of the two tokens was stored
    closing,        \* statements of close() done: 0, 1 (_token), 2
    stack,          \* per thread, its calls, innermost last
    answer,         \* per thread, the code its innermost call has to handle
    pair,           \* per thread, the pair a renewal's answer carries
    polls, begun,   \* per thread, the bounded counters: of the current request,
                    \* and of all its requests
    no_results,     \* per thread, history: the flag the caller passed
    outcome,        \* per thread, how its last request ended
    issued, session_alive, master_alive   \* the server

tokens == <<token, master_token, lock, token_at, master_at>>
server == <<issued, session_alive, master_alive>>
vars == <<scenario, tokens, expired, closing, stack, answer, pair, polls, begun,
          no_results, outcome, server>>

InProgress == {"QUERY_IN_PROGRESS", "QUERY_IN_PROGRESS_ASYNC"}
NoMaster == {"MASTER_TOKEN_EXPIRED", "MASTER_TOKEN_NOTFOUND", "MASTER_TOKEN_INVALID"}
Codes == InProgress \cup NoMaster \cup {"OK", "ERROR", "SESSION_EXPIRED"}
Frame == [fn : {"post", "get", "renew"}, token : Nat, is_master : BOOLEAN,
          no_results : BOOLEAN, at : Nat]

Authenticator == scenario.authenticator
MaxRequests == scenario.requests
MaxPolls == scenario.polls
MaxExpiries == scenario.expiries
MaxMasterExpiries == scenario.masterExpiries
MaxStack == scenario.stack

Top(t) == stack[t][Len(stack[t])]
Caller(t) == SubSeq(stack[t], 1, Len(stack[t]) - 1)
Post(nr) == [fn |-> "post", token |-> token, is_master |-> FALSE, no_results |-> nr, at |-> 0]
Get == [fn |-> "get", token |-> token, is_master |-> FALSE, no_results |-> FALSE, at |-> 0]
Bug_TokenRequest == [fn |-> "renew", token |-> token, is_master |-> FALSE,
                     no_results |-> FALSE, at |-> token_at]
TokenRequest == [fn |-> "renew", token |-> master_token, is_master |-> TRUE,
                 no_results |-> FALSE, at |-> master_at]

-----------------------------------------------------------------------------
Init ==
    /\ scenario \in Scenarios
    /\ token = 1 /\ master_token = 1 /\ expired = FALSE /\ closing = 0
    /\ lock = {} /\ token_at = 1 /\ master_at = 1
    /\ stack = [t \in Threads |-> <<>>]
    /\ answer = [t \in Threads |-> "none"]
    /\ pair = [t \in Threads |-> 0]
    /\ polls = [t \in Threads |-> 0]
    /\ begun = [t \in Threads |-> 0]
    /\ no_results = [t \in Threads |-> FALSE]
    /\ outcome = [t \in Threads |-> "none"]
    /\ issued = 1 /\ session_alive = {1} /\ master_alive = {1}

(* What the server answers to a call; external.                            *)
RenewAnswers(f) ==
    IF ~f.is_master THEN {"MASTER_TOKEN_INVALID"}
    ELSE IF f.token = 0 THEN {"MASTER_TOKEN_NOTFOUND"}
    ELSE IF f.token \in master_alive THEN {"OK", "ERROR"}
    ELSE {"MASTER_TOKEN_EXPIRED"}

RequestAnswers(f) ==
    IF f.token = 0 THEN {"ERROR"}
    ELSE IF f.token \in session_alive THEN {"OK", "ERROR"}
    ELSE {"SESSION_EXPIRED"} \cup
            (IF f.token \in master_alive THEN {} ELSE {"MASTER_TOKEN_EXPIRED"})

Answers(t) ==
    IF Top(t).fn = "renew"
    THEN RenewAnswers(Top(t)) \cup
            (IF Top(t).is_master /\ Len(stack[t]) < MaxStack
             THEN {"SESSION_EXPIRED"} ELSE {})
    ELSE RequestAnswers(Top(t)) \cup
            (IF Top(t).token \in session_alive /\ polls[t] < MaxPolls
             THEN InProgress ELSE {})

(* fetch() returns.                                                        *)
Answer(t) ==
    /\ stack[t] # <<>> /\ answer[t] = "none"
    /\ \E c \in Answers(t) :
         /\ answer' = [answer EXCEPT ![t] = c]
         /\ polls' = [polls EXCEPT ![t] = IF c \in InProgress THEN @ + 1 ELSE @]
         /\ IF c = "OK" /\ Top(t).fn = "renew"
            THEN /\ issued' = issued + 1
                 /\ session_alive' = session_alive \cup {issued'}
                 /\ master_alive' = master_alive \cup {issued'}
                 /\ pair' = [pair EXCEPT ![t] = issued']
            ELSE UNCHANGED <<server, pair>>
    /\ UNCHANGED <<tokens, expired, closing, stack, begun, no_results, outcome>>

(* The request is over: its stack is unwound.                              *)
End(t, how) ==
    /\ stack' = [stack EXCEPT ![t] = <<>>]
    /\ answer' = [answer EXCEPT ![t] = "none"]
    /\ outcome' = [outcome EXCEPT ![t] = how]
    /\ pair' = [pair EXCEPT ![t] = 0]
    /\ polls' = [polls EXCEPT ![t] = 0]
    /\ no_results' = [no_results EXCEPT ![t] = FALSE]

Continue(t, calls, code) ==
    /\ stack' = [stack EXCEPT ![t] = calls]
    /\ answer' = [answer EXCEPT ![t] = code]
    /\ UNCHANGED <<outcome, pair, polls, no_results>>

(* fetch() raises: out of retries, a timeout, an HTTP error.               *)
FetchRaises(t) ==
    /\ stack[t] # <<>> /\ answer[t] = "none"
    /\ End(t, "raised")
    /\ UNCHANGED <<tokens, expired, closing, begun, server>>

Call(t, f) ==
    /\ begun[t] < MaxRequests
    /\ begun' = [begun EXCEPT ![t] = @ + 1]
    /\ stack' = [stack EXCEPT ![t] = <<f>>]
    /\ no_results' = [no_results EXCEPT ![t] = f.no_results]
    /\ UNCHANGED <<tokens, expired, closing, answer, pair, polls, outcome, server>>

(* request(): refuses when neither token is there.                         *)
Request(t, f) ==
    /\ stack[t] = <<>>
    /\ IF token = 0 /\ master_token = 0
       THEN End(t, "closed") /\ UNCHANGED <<tokens, expired, closing, begun, server>>
       ELSE Call(t, f)

(* _heartbeat(): no such test.                                             *)
Heartbeat(t) == stack[t] = <<>> /\ Call(t, Post(FALSE))

-----------------------------------------------------------------------------
(* _post_request and _get_request: an expired session is renewed.  The     *)
(* renewal reads the master token, ...                                     *)
Renew(t) ==
    /\ answer[t] = "SESSION_EXPIRED"
    /\ Authenticator # "PAT_WITH_EXTERNAL_SESSION"
    /\ Continue(t, Append(stack[t], TokenRequest), "reading")
    /\ UNCHANGED <<tokens, expired, closing, begun, server>>

(* ... and then the session token, which it names as oldSessionToken.      *)
ReadOld(t) ==
    /\ answer[t] = "reading"
    /\ Continue(t, Append(Caller(t), [Top(t) EXCEPT !.at = 0]), "none")
    /\ UNCHANGED <<tokens, expired, closing, begun, server>>

Bug_StoreSession(t) ==
    /\ stack[t] # <<>> /\ Top(t).fn = "renew" /\ answer[t] = "OK"
    /\ lock' = {t}
    /\ token' = pair[t] /\ token_at' = token_at + 1
    /\ Continue(t, stack[t], "STORED")
    /\ UNCHANGED <<master_token, master_at, expired, closing, begun, server>>

(* update_tokens, when _token_request or a new login got a pair: it takes  *)
(* the lock and stores the session token, ...                              *)
StoreSession(t) ==
    /\ stack[t] # <<>> /\ Top(t).fn = "renew" /\ answer[t] = "OK"
    /\ lock = {} /\ lock' = {t}
    /\ token' = pair[t] /\ token_at' = token_at + 1
    /\ Continue(t, stack[t], "STORED")
    /\ UNCHANGED <<master_token, master_at, expired, closing, begun, server>>

(* ... then the master token; the caller goes on with "RENEWED".           *)
StoreMaster(t) ==
    /\ stack[t] # <<>> /\ answer[t] = "STORED"
    /\ lock' = {}
    /\ master_token' = pair[t] /\ master_at' = token_at
    /\ Continue(t, Caller(t), "RENEWED")
    /\ UNCHANGED <<token, token_at, expired, closing, begun, server>>

(* _token_request raises a ReauthenticationRequest.  The caller logs in    *)
(* again, which opens a new session, or raises the cause.                  *)
Reauthenticate(t) ==
    /\ issued' = issued + 1
    /\ session_alive' = session_alive \cup {issued'}
    /\ master_alive' = master_alive \cup {issued'}
    /\ pair' = [pair EXCEPT ![t] = issued']
    /\ answer' = [answer EXCEPT ![t] = "OK"]
    /\ UNCHANGED <<stack, outcome, polls, no_results>>

RenewalRefused(t) ==
    /\ stack[t] # <<>> /\ Top(t).fn = "renew" /\ answer[t] \in NoMaster
    /\ expired' = (expired \/ answer[t] = "MASTER_TOKEN_EXPIRED")
    /\ \/ Authenticator = "EXTERNALBROWSER" /\ Reauthenticate(t)
       \/ End(t, "reauthentication") /\ UNCHANGED server
    /\ UNCHANGED <<tokens, closing, begun>>

Bug_RenewalFails(t) ==
    /\ stack[t] # <<>> /\ Top(t).fn = "renew" /\ answer[t] = "ERROR"
    /\ Continue(t, stack[t], "none")
    /\ UNCHANGED <<tokens, expired, closing, begun, server>>

RenewalFails(t) ==
    /\ stack[t] # <<>> /\ Top(t).fn = "renew" /\ answer[t] = "ERROR"
    /\ End(t, "raised")
    /\ UNCHANGED <<tokens, expired, closing, begun, server>>

(* After a renewal the call is made again in its own place, with the token *)
(* now in force and without _no_results.                                   *)
Resend(t) ==
    /\ answer[t] = "RENEWED"
    /\ Continue(t, Append(Caller(t), [Top(t) EXCEPT !.token = token,
                                                    !.is_master = FALSE,
                                                    !.no_results = FALSE]), "none")
    /\ UNCHANGED <<tokens, expired, closing, begun, server>>

(* The loop at the end of _post_request.                                   *)
Waits(t) ==
    /\ stack[t] # <<>> /\ stack[t][1].fn = "post" /\ answer[t] \in InProgress
    /\ ~ /\ Len(stack[t]) = 1 /\ Top(t).no_results
         /\ answer[t] = "QUERY_IN_PROGRESS_ASYNC"

Poll(t) ==
    /\ Waits(t)
    /\ Continue(t, <<stack[t][1], Get>>, "none")
    /\ UNCHANGED <<tokens, expired, closing, begun, server>>

(* _post_request (or _get_request) returns; only _post_request itself      *)
(* looks for an expired master token.                                      *)
Return(t) ==
    /\ stack[t] # <<>> /\ Top(t).fn # "renew"
    /\ answer[t] \in Codes /\ ~Waits(t)
    /\ answer[t] = "SESSION_EXPIRED" => Authenticator = "PAT_WITH_EXTERNAL_SESSION"
    /\ expired' = (expired \/ (Top(t).fn = "post" /\ answer[t] = "MASTER_TOKEN_EXPIRED"))
    /\ End(t, "answered")
    /\ UNCHANGED <<tokens, closing, begun, server>>

-----------------------------------------------------------------------------
(* close() deletes the tokens without the lock.                            *)
Close ==
    /\ scenario.closes /\ closing < 2
    /\ closing' = closing + 1
    /\ IF closing = 0 THEN token' = 0 /\ UNCHANGED master_token
       ELSE master_token' = 0 /\ UNCHANGED token
    /\ UNCHANGED <<lock, token_at, master_at, expired, stack, answer, pair, polls,
                   begun, no_results, outcome, server>>

DeadSessions == 1..issued \ session_alive
DeadMasters == 1..issued \ master_alive

ExpireSession(i) ==
    /\ Cardinality(DeadSessions) < MaxExpiries
    /\ session_alive' = session_alive \ {i}
    /\ UNCHANGED <<issued, master_alive>>

ExpireMaster(i) ==
    /\ Cardinality(DeadMasters) < MaxMasterExpiries
    /\ master_alive' = master_alive \ {i}
    /\ UNCHANGED <<issued, session_alive>>

Expire ==
    /\ \/ \E i \in session_alive : ExpireSession(i)
       \/ \E i \in master_alive : ExpireMaster(i)
    /\ UNCHANGED <<tokens, expired, closing, stack, answer, pair, polls, begun,
                   no_results, outcome>>

Begin(t) ==
    \/ \E nr \in BOOLEAN : Request(t, Post(nr))
    \/ Request(t, Get)
    \/ Heartbeat(t)

Run(t) ==
    \/ Answer(t) \/ FetchRaises(t)
    \/ Renew(t) \/ ReadOld(t) \/ StoreSession(t) \/ StoreMaster(t)
    \/ RenewalRefused(t) \/ RenewalFails(t)
    \/ Resend(t) \/ Poll(t) \/ Return(t)

Next ==
    /\ Close \/ Expire \/ \E t \in scenario.threads : Begin(t) \/ Run(t)
    /\ UNCHANGED scenario

(* A thread inside a call keeps running, and its fetch() is answered or    *)
(* raises: the network_timeout ends its retries or, where none is set, the *)
(* network recovers at some time.                                          *)
Spec == Init /\ [][Next]_vars /\ \A t \in Threads : WF_vars(Run(t) /\ UNCHANGED scenario)

-----------------------------------------------------------------------------
(* The tokens are issued ones, the call stacks are well formed: a renewal  *)
(* only on top of the call that needs it, a poll only on top of a post,    *)
(* and no deeper than the nesting of renewals makes them.                  *)
TypeOK ==
    /\ issued \in Nat \ {0}
    /\ {token, master_token} \subseteq 0..issued
    /\ session_alive \subseteq 1..issued /\ master_alive \subseteq 1..issued
    /\ expired \in BOOLEAN /\ closing \in 0..2
    /\ lock \subseteq Threads /\ {token_at, master_at} \subseteq Nat
    /\ \A t \in Threads :
         /\ stack[t] \in Seq(Frame) /\ Len(stack[t]) <= MaxStack + 1
         /\ \A i \in 2..Len(stack[t]) :
              stack[t][i].fn = "get" => i = 2 /\ stack[t][1].fn = "post"
         /\ answer[t] \in Codes \cup {"none", "reading", "STORED", "RENEWED"}
         /\ pair[t] \in 0..issued
         /\ polls[t] \in 0..MaxPolls /\ begun[t] \in 0..MaxRequests
         /\ no_results[t] \in BOOLEAN
         /\ outcome[t] \in {"none", "answered", "raised", "closed", "reauthentication"}

(* However renewals, new logins and close() interleave, the connection is  *)
(* never left with the session token of one renewal and the master token   *)
(* of another: while nobody is inside update_tokens they are of one pair.  *)
TokensPaired == lock = {} /\ token # 0 /\ master_token # 0 => token = master_token

(* Both tokens that a renewal shows the server are read without the lock,  *)
(* so they may be of two pairs (OldOfPair is violated).  But as the master *)
(* token is read first and stored last, the session token a renewal gives  *)
(* up is never an older one than the master token it shows belongs to.     *)
OldNotOlder ==
    \A t \in Threads :
        answer[t] = "reading" /\ token # 0 /\ Top(t).token # 0 => token_at >= Top(t).at

OldOfPair ==
    \A t \in Threads :
        answer[t] = "reading" /\ token # 0 /\ Top(t).token # 0 => token = Top(t).token

(* A caller is told to authenticate again only when a master token really  *)
(* expired or the connection is being closed: two threads that renew at    *)
(* the same time never spoil each other's renewal.  (A renewal that is     *)
(* itself answered SESSION_EXPIRED is sent again with the session token,   *)
(* which the server refuses.)                                              *)
RefusedOnlyWhenDead ==
    scenario.stack = 2 => \A t \in Threads :
        outcome[t] = "reauthentication" => DeadMasters # {} \/ closing > 0

(* Expired sessions cause no storm of renewals: each thread renews at most *)
(* once for every session token that expired, when renewals do not nest.   *)
RenewalsBounded ==
    scenario.stack = 2 => issued <= 1 + Cardinality(Threads) * Cardinality(DeadSessions)

(* Every request ends, with an answer or an exception, although renewals,  *)
(* polls and calls made again after a renewal are nested in it.            *)
EveryRequestEnds == \A t \in Threads : stack[t] # <<>> ~> stack[t] = <<>>

(* A query started with _no_results returns without waiting for it.        *)
AsyncReturnsAtOnce ==
    \A t \in Threads : no_results[t] => \A i \in DOMAIN stack[t] : stack[t][i].fn # "get"

(* The tokens are left a pair of one renewal, and read in an order that    *)
(* never gives up the wrong session, while threads renew, log in again and *)
(* close at once; and the frames of nested calls stay balanced.            *)
TokensConsistent == TypeOK /\ TokensPaired /\ OldNotOlder

(* Threads that meet an expired session together do not disturb each       *)
(* other's renewals: none is refused for another's, none is repeated.      *)
RenewalsIndependent == RefusedOnlyWhenDead /\ RenewalsBounded
=============================================================================
