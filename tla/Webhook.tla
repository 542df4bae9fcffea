------------------------------- MODULE Webhook -------------------------------
(***************************************************************************)
(* POST /webhook, where Hasura reports changes of the tables, with what    *)
(* its events lead to: the first update of a cup's row (CupStandings), the *)
(* entry of an exchange key in Redis, and a push notification.  (The       *)
(* copies for a new follower are in NewFollower.)                          *)
(*                                                                         *)
(* An event is delivered at least once, in no order, and answered 200 once *)
(* its Redis command was issued.  RedisCacheHelper opens a connection for  *)
(* each command and waits for none, so commands are executed in any order; *)
(* those that wait when the process stops are gone.                        *)
(*                                                                         *)
(* The value behind push-notification is stored by a worker that is not in *)
(* the repository, which takes it from a queue this handler adds to.       *)
(***************************************************************************)
EXTENDS CupStandings

CONSTANTS
  KeyRow,     \* rows of user_exchanges_keys
  ApiKey,     \* their column key, by which the cache is indexed
  Send,       \* as many as requests for push-notification can be in progress
  NoEntry     \* what Redis answers when there is no entry

ASSUME EntryAssumption == NoEntry \notin KeyRow \X Nat

VARIABLES
  keys,       \* the version of each row, 0 when there is none
  changes,    \* the changes Hasura reports
  handled,    \* those it has delivered
  commands,   \* the commands issued and not yet executed
  cache,      \* the entries
  newest,     \* history: the newest change of an API key that reached the cache
  crooked,    \* history: API keys whose changes did not reach the cache in order
  slot,       \* the number of the message stored for push-notification, 0 for none
  send,       \* the requests in progress
  stored,     \* how many messages were stored
  sent,       \* those that were sent
  excused     \* history: those overwritten before they were sent, or stored during a send

keyVars  == <<keys, changes, handled, commands, cache, newest, crooked>>
pushVars == <<slot, send, stored, sent, excused>>
allVars  == <<vars, keyVars, pushVars>>

Api    == {ApiKey[k] : k \in KeyRow}
Change == [n : Nat, op : {"INSERT", "UPDATE", "DELETE"}, row : KeyRow]

Idle == [at |-> "idle", message |-> 0]

WebhookInit ==
  /\ Init
  /\ keys = [k \in KeyRow |-> 0]
  /\ changes = {} /\ handled = {} /\ commands = {}
  /\ cache = [a \in Api |-> NoEntry]
  /\ newest = [a \in Api |-> 0]
  /\ crooked = {}
  /\ slot = 0 /\ stored = 0 /\ sent = {} /\ excused = {}
  /\ send = [p \in Send |-> Idle]

Live(a) == {k \in KeyRow : ApiKey[k] = a /\ keys[k] # 0}

-----------------------------------------------------------------------------
(***************************************************************************)
(* Exchange keys.                                                          *)
(***************************************************************************)

\* A client changes the table.  Two rows may have the same API key, and then they
\* share an entry.
ChangeKey(op, k) ==
  LET n == Cardinality(changes) + 1
      a == ApiKey[k]
  IN /\ Begin
     /\ (op = "INSERT") <=> (keys[k] = 0)
     /\ keys' = [keys EXCEPT ![k] = IF op = "DELETE" THEN 0 ELSE n]
     /\ changes' = changes \cup {[n |-> n, op |-> op, row |-> k]}
     /\ crooked' = IF op = "UPDATE" \/ (Live(a) \ {k}) # {} THEN crooked \cup {a} ELSE crooked
     /\ UNCHANGED <<standing, period, call, event, ranking, history,
                    handled, commands, cache, newest, pushVars>>

\* Mutant: only insertions are acted upon.
ActedUponInserts == {"INSERT"}

\* An UPDATE is passed over.
ActedUpon == {"INSERT", "DELETE"}

DeliverChange(x) ==
  /\ handled' = handled \cup {x}
  /\ commands' = IF x.op \in ActedUpon THEN commands \cup {x} ELSE commands
  /\ UNCHANGED <<vars, keys, changes, cache, newest, crooked, pushVars>>

Entry(x) == IF x.op = "INSERT" THEN <<x.row, x.n>> ELSE NoEntry

Execute(x) ==
  LET a == ApiKey[x.row]
  IN /\ commands' = commands \ {x}
     /\ cache' = [cache EXCEPT ![a] = Entry(x)]
     /\ newest' = [newest EXCEPT ![a] = IF x.n > @ THEN x.n ELSE @]
     /\ crooked' = IF x.n < newest[a] THEN crooked \cup {a} ELSE crooked
     /\ UNCHANGED <<vars, keys, changes, handled, pushVars>>

-----------------------------------------------------------------------------
(***************************************************************************)
(* sendPushNotification.                                                   *)
(***************************************************************************)

\* The worker stores a message over the one that is there.
Store ==
  /\ Begin
  /\ stored' = stored + 1
  /\ slot' = stored + 1
  /\ excused' = excused
       \cup (IF slot = 0 THEN {} ELSE {slot})
       \cup (IF \E p \in Send : send[p].at # "idle" THEN {stored + 1} ELSE {})
  /\ UNCHANGED <<standing, period, call, event, ranking, history, keyVars, send, sent>>

\* No message, or one for nobody: the answer is 500 and the message stays.
ReadMessage(p) ==
  /\ send[p].at = "idle" /\ slot # 0
  /\ send' = [send EXCEPT ![p] = [at |-> "sending", message |-> slot]]
  /\ UNCHANGED <<vars, keyVars, slot, stored, sent, excused>>

SendOk(p) ==
  /\ send[p].at = "sending"
  /\ sent' = sent \cup {send[p].message}
  /\ send' = [send EXCEPT ![p].at = "deleting"]
  /\ UNCHANGED <<vars, keyVars, slot, stored, excused>>

\* Mutant: the message is deleted although it was not sent.
SendErrorDeletes(p) ==
  /\ send[p].at = "sending"
  /\ send' = [send EXCEPT ![p].at = "deleting"]
  /\ UNCHANGED <<vars, keyVars, slot, stored, sent, excused>>

\* An error, perhaps after the message went out, leaves it to be sent again.
SendError(p) ==
  /\ send[p].at = "sending"
  /\ sent' \in {sent, sent \cup {send[p].message}}
  /\ send' = [send EXCEPT ![p] = Idle]
  /\ UNCHANGED <<vars, keyVars, slot, stored, excused>>

\* Whatever is stored by now is deleted.
DeleteMessage(p) ==
  /\ send[p].at = "deleting"
  /\ slot' = 0
  /\ send' = [send EXCEPT ![p] = Idle]
  /\ UNCHANGED <<vars, keyVars, stored, sent, excused>>

-----------------------------------------------------------------------------
\* The process stops: handlers and waiting commands are gone.
Restart ==
  /\ StandingsRestart
  /\ commands' = {}
  /\ crooked' = crooked \cup {ApiKey[x.row] : x \in commands}
  /\ send' = [p \in Send |-> Idle]
  /\ UNCHANGED <<keys, changes, handled, cache, newest, slot, stored, sent, excused>>

KeyNext ==
  \/ \E k \in KeyRow : \E op \in {"INSERT", "UPDATE", "DELETE"} : ChangeKey(op, k)
  \/ \E x \in changes : DeliverChange(x)
  \/ \E x \in commands : Execute(x)

PushNext ==
  \/ Store
  \/ \E p \in Send : ReadMessage(p) \/ SendOk(p) \/ SendError(p) \/ DeleteMessage(p)

WebhookNext ==
  \/ StandingsNext /\ UNCHANGED <<keyVars, pushVars>>
  \/ KeyNext
  \/ PushNext
  \/ Restart

WebhookSpec == WebhookInit /\ [][WebhookNext]_allVars

-----------------------------------------------------------------------------
WebhookTypeOK ==
  /\ TypeOK
  /\ keys \in [KeyRow -> Nat]
  /\ changes \subseteq Change /\ handled \subseteq changes /\ commands \subseteq handled
  /\ cache \in [Api -> {NoEntry} \cup (KeyRow \X Nat)]
  /\ newest \in [Api -> Nat]
  /\ crooked \subseteq Api
  /\ slot \in Nat /\ stored \in Nat
  /\ send \in [Send -> [at : {"idle", "sending", "deleting"}, message : Nat]]
  /\ sent \subseteq Nat /\ excused \subseteq Nat

\* All changes of an API key were delivered, and their commands executed.
Settled(a) ==
  \A x \in changes : ApiKey[x.row] = a => x \in handled \ commands

\* When Hasura and Redis have caught up, the cache holds the keys that exist, with
\* what their rows hold, and no others: unless a command was executed after one of a
\* later change, or lost with the process, a row was updated, or two rows had the
\* same API key.
CacheFollowsKeys ==
  \A a \in Api \ crooked : Settled(a) =>
    IF Live(a) = {} THEN cache[a] = NoEntry
    ELSE cache[a] \in {<<k, keys[k]>> : k \in Live(a)}

\* A message that is gone was sent, or another one was stored over it, or it was
\* itself stored while a request was about to delete the one before.
NoMessageLost ==
  \A n \in 1..stored : n \in sent \cup excused \cup {slot}
=============================================================================
