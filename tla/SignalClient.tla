----------------------------- MODULE SignalClient -----------------------------
(***************************************************************************)
(* The Signal platform (backends_bot/signal.py): one JSON-RPC connection   *)
(* to a signal-cli daemon that requests and the receive subscription       *)
(* share, its loss and renewal, sends that must not be repeated, and the   *)
(* provenance journal by which the bot knows its own messages.             *)
(*                                                                         *)
(* The daemon is external: it answers, posts, notifies a message more than *)
(* once, and closes the connection, at any time.  A coroutine that an      *)
(* answer wakes runs before the reader sees the end of the stream, as      *)
(* asyncio's selector loop orders them, unless LateWake.                   *)
(***************************************************************************)
EXTENDS Naturals

CONSTANTS Texts, Files,  \* what the bot sends: messages with text, attachments without
          Inbound,       \* messages of people
          Calls,         \* requests that may be repeated (remoteDelete, getAttachment)
          NoOne,
          LateWake,      \* may the end of the stream be seen before an answer's waiter runs?
          MaxTries,      \* _SIGNAL_SEND_MAX_ATTEMPTS
          MaxFaults,     \* bound on losses, timeouts and refusals
          MaxCopies,     \* bound on notifications
          MaxStarts

Out == Texts \cup Files
Main == "main"     \* start() or stop(), of which one is running
Recon == "recon"   \* the reconnect task
Callers == {Main, Recon} \cup Out \cup Calls
Messages == Out \cup Inbound

\* A send, another request and the two tasks of the platform are coroutines of
\* their own; what the bot sends is no message of a person.
ASSUME SignalAssumption ==
  /\ NoOne \notin Callers /\ LateWake \in BOOLEAN
  /\ {Main, Recon} \cap (Out \cup Calls) = {} /\ Out \cap Calls = {} /\ Out \cap Inbound = {}
  /\ MaxTries \in Nat \ {0} /\ {MaxFaults, MaxCopies, MaxStarts} \subseteq Nat

VARIABLES
  life,       \* where start() or stop() is
  pc, again,  \* each caller, and who is on its second attempt
  tries,      \* throttled attempts of a send
  lock, sending,         \* holders of _jsonrpc_reconnect_lock, _send_lock
  link,       \* is there a connection (_jsonrpc_writer)?
  sub, started, subscribed, ready,
  account,    \* is the account known, so that notifications are told apart?
  jdisk, jmem, acks,     \* the journal, and timestamps on their way into it
  own,        \* _own_sent_timestamps
  seen,       \* _recent_incoming_keys
  tasks,      \* _notification_tasks
  answer, offered, dsubs, wire,   \* daemon: answers, subscriptions, sends to act on
  posted, copies,        \* daemon: posts of each message, notifications
  taken,      \* history: dispatches of each message
  faults, starts

rpc == <<pc, again, tries, lock, sending>>
receiving == <<sub, started, subscribed, ready>>
journal == <<jdisk, jmem, acks, own>>
daemon == <<answer, offered, dsubs, wire, posted, copies>>
inbox == <<seen, tasks, taken>>
vars == <<life, rpc, link, receiving, account, journal, inbox, daemon, faults, starts>>

Stopping == life \in {"down", "halt", "unsub", "close"}
DaemonReady == life = "up"

Init ==
  /\ life = "down" /\ pc = [c \in Callers |-> "idle"] /\ again = {}
  /\ tries = [m \in Out |-> 0] /\ lock = NoOne /\ sending = NoOne
  /\ link = FALSE /\ sub = 0 /\ started = FALSE /\ subscribed = FALSE /\ ready = FALSE
  /\ account \in BOOLEAN
  /\ jdisk = {} /\ jmem = {} /\ acks = {} /\ own = {}
  /\ seen = {} /\ tasks = {} /\ taken = [m \in Messages |-> 0]
  /\ answer = [c \in Callers |-> "none"] /\ offered = 0 /\ dsubs = {} /\ wire = {}
  /\ posted = [m \in Out |-> 0] /\ copies = 0
  /\ faults = 0 /\ starts = 0

Fault == faults < MaxFaults /\ faults' = faults + 1
-------------------------------------------------------------------------------
(* Errors.  A send is never tried again on another connection; other        *)
(* requests are, once; the reconnect task sleeps and tries again.           *)

Retries(c) == pc[c] = "wait" /\ c \in Calls \cup {Main} /\ c \notin again
Ended(c) == IF c \in {Main, Recon} THEN "idle" ELSE "done"
\* (mutant) The reconnect task gives up.
AfterErrorGivesUp(c) == IF Retries(c) THEN "connect" ELSE Ended(c)
AfterError(c) == IF Retries(c) \/ c = Recon THEN "connect" ELSE Ended(c)

\* What the loss of a connection, or an error of its own, does to callers S.
Raises(S, drop) ==
  /\ pc' = [c \in Callers |->
              IF c \in S THEN AfterError(c)
              ELSE IF c = Recon /\ drop /\ started /\ ~Stopping /\ pc[c] = "idle" THEN "connect"
              ELSE pc[c]]
  /\ again' = (again \ S) \cup {c \in S : Retries(c)}
  /\ answer' = [c \in Callers |-> IF c \in S THEN "none" ELSE answer[c]]
  /\ lock' = IF lock \in S THEN NoOne ELSE lock
  /\ sending' = IF sending \in {c \in S : ~Retries(c)} THEN NoOne ELSE sending
  /\ life' = IF Main \in {c \in S : ~Retries(c)}
             THEN IF life = "unsub" THEN "close" ELSE "halt" ELSE life
  /\ UNCHANGED <<tries, started, account, journal, seen, taken, wire, posted, copies, starts>>

Pending == {c \in Callers : pc[c] \in {"wait", "sub"}}
Quiet == LateWake \/ \A c \in Callers : pc[c] \notin {"woken", "subwoken"}
Disconnects(S) ==
  /\ Quiet /\ Raises(S \cup Pending, TRUE)
  /\ link' = FALSE /\ sub' = 0 /\ subscribed' = FALSE /\ ready' = FALSE
  /\ offered' = 0 /\ dsubs' = {}
  /\ tasks' = {[t EXCEPT !.current = FALSE] : t \in tasks}   \* of a transport that is gone

\* The reader sees the end of the stream.
StreamEnds == link /\ Fault /\ Disconnects({})

\* A request that times out closes the connection for all, unless it is on its
\* second attempt; a subscription that times out leaves it open.
TimesOut(c) ==
  /\ Fault
  /\ \/ pc[c] = "wait" /\ c \notin again /\ Disconnects({c})
     \/ /\ pc[c] = "sub" \/ (pc[c] = "wait" /\ c \in again)
        /\ Raises({c}, FALSE) /\ UNCHANGED <<link, sub, subscribed, ready, offered, dsubs, tasks>>

OpenFails(c) ==
  /\ pc[c] = "open" /\ Fault
  /\ Raises({c}, FALSE) /\ UNCHANGED <<link, sub, subscribed, ready, offered, dsubs, tasks>>
-------------------------------------------------------------------------------
(* Connecting, and requests.                                                *)

Resubscribes == started /\ ~subscribed
Free(c) == lock' = IF lock = c THEN NoOne ELSE lock

\* The request is written; the reconnect task has none.
Requests(c) ==
  /\ pc' = [pc EXCEPT ![c] = IF c = Recon THEN "idle" ELSE "wait"]
  /\ wire' = IF c \in Out THEN wire \cup {c} ELSE wire
  /\ Free(c)
Subscribing(c) == pc' = [pc EXCEPT ![c] = "sub"] /\ lock' = c /\ UNCHANGED wire

ConnectRest == UNCHANGED <<life, again, tries, sending, receiving, account, journal, inbox,
                           answer, offered, dsubs, posted, copies, faults, starts>>
Connects(c) ==
  /\ pc[c] = "connect" /\ lock = NoOne
  /\ \/ ~link /\ pc' = [pc EXCEPT ![c] = "open"] /\ lock' = c /\ UNCHANGED wire
     \/ link /\ Resubscribes /\ Subscribing(c)
     \/ link /\ ~Resubscribes /\ Requests(c)
  /\ UNCHANGED link /\ ConnectRest

Opened(c) ==
  /\ pc[c] = "open" /\ link' = TRUE
  /\ IF Resubscribes THEN Subscribing(c) ELSE Requests(c)
  /\ ConnectRest

\* The daemon answers.  A subscription counts from then on.
Answers(c) ==
  /\ pc[c] \in {"wait", "sub"} /\ answer[c] = "none"
  /\ IF pc[c] = "sub" \/ (c = Main /\ life = "subscribe")
     THEN offered' = offered + 1 /\ dsubs' = dsubs \cup {offered'} ELSE UNCHANGED <<offered, dsubs>>
  /\ pc[c] = "wait" => c \notin Out
  /\ answer' = [answer EXCEPT ![c] = "ok"]
  /\ UNCHANGED <<life, rpc, link, receiving, account, journal, inbox, wire, posted, copies, faults, starts>>
Refuses(c) ==
  /\ pc[c] = "wait" /\ answer[c] = "none" /\ Fault
  /\ \E why \in {"throttled", "error"} : answer' = [answer EXCEPT ![c] = why]
  /\ c \in wire /\ wire' = wire \ {c}
  /\ UNCHANGED <<life, rpc, link, receiving, account, journal, inbox, offered, dsubs, posted, copies, starts>>
\* A send that was written is posted whether or not the bot still waits.
Posts(m) ==
  /\ m \in wire /\ wire' = wire \ {m} /\ posted' = [posted EXCEPT ![m] = @ + 1]
  /\ answer' = [answer EXCEPT ![m] = IF pc[m] = "wait" THEN "ok" ELSE @]
  /\ UNCHANGED <<life, rpc, link, receiving, account, journal, inbox, offered, dsubs, copies, faults, starts>>

\* The reader hands the answer over.
Reads(c) ==
  /\ pc[c] \in {"wait", "sub"} /\ answer[c] # "none"
  /\ pc' = [pc EXCEPT ![c] = IF @ = "wait" THEN "woken" ELSE "subwoken"]
  /\ UNCHANGED <<life, again, tries, lock, sending, link, receiving, account, journal, inbox,
                 daemon, faults, starts>>

\* A new subscription, in _connect_jsonrpc: the caller goes on with its request.
Resubscribed(c) ==
  /\ pc[c] = "subwoken" /\ answer' = [answer EXCEPT ![c] = "none"]
  /\ sub' = offered /\ subscribed' = TRUE /\ ready' = (ready \/ DaemonReady) /\ UNCHANGED started
  /\ IF life = "repair" /\ c = Main
     THEN life' = "services" /\ pc' = [pc EXCEPT ![c] = "idle"] /\ Free(c) /\ UNCHANGED wire
     ELSE Requests(c) /\ UNCHANGED life
  /\ UNCHANGED <<again, tries, sending, link, account, journal, inbox, offered, dsubs, posted,
                 copies, faults, starts>>
-------------------------------------------------------------------------------
(* Start and stop.                                                          *)

Starts ==
  /\ life = "down" /\ starts < MaxStarts /\ starts' = starts + 1
  /\ life' = "list" /\ pc' = [pc EXCEPT ![Main] = "connect"] /\ jmem' = jdisk
  /\ UNCHANGED <<again, tries, lock, sending, link, receiving, account, jdisk, acks, own,
                 inbox, daemon, faults>>

\* listGroups, subscribeReceive and unsubscribeReceive return.
MainReturns ==
  /\ pc[Main] = "woken" /\ answer' = [answer EXCEPT ![Main] = "none"] /\ again' = again \ {Main}
  /\ \/ /\ life = "list" /\ life' = "subscribe" /\ pc' = [pc EXCEPT ![Main] = "connect"]
        /\ UNCHANGED receiving
     \/ /\ life = "subscribe" /\ started' = TRUE /\ UNCHANGED ready
        /\ subscribed' = link /\ sub' = IF link THEN offered ELSE 0
        /\ life' = IF link THEN "services" ELSE "repair"
        /\ pc' = [pc EXCEPT ![Main] = IF link THEN "idle" ELSE "connect"]
     \/ /\ life = "unsub" /\ life' = "close" /\ pc' = [pc EXCEPT ![Main] = "idle"]
        /\ UNCHANGED receiving
  /\ UNCHANGED <<tries, lock, sending, link, account, journal, inbox, offered, dsubs, wire,
                 posted, copies, faults, starts>>

ServicesUp ==
  /\ life = "services" /\ life' = "up" /\ ready' = (link /\ subscribed)
  /\ UNCHANGED <<rpc, link, sub, started, subscribed, account, journal, inbox, daemon, faults, starts>>

Stop ==
  /\ life \in {"services", "up"} /\ life' = "halt" /\ ready' = FALSE
  /\ UNCHANGED <<rpc, link, sub, started, subscribed, account, journal, inbox, daemon, faults, starts>>
Halted ==
  /\ life = "halt"
  /\ IF sub = 0 THEN life' = "close" /\ UNCHANGED pc
     ELSE life' = "unsub" /\ pc' = [pc EXCEPT ![Main] = "connect"]
  /\ sub' = 0 /\ started' = FALSE /\ subscribed' = FALSE /\ ready' = FALSE
  /\ UNCHANGED <<again, tries, lock, sending, link, account, journal, inbox, daemon, faults, starts>>

\* Notifications are given up, timestamps are saved, the rest is cancelled.
Gone(saved) ==
  /\ life' = "down" /\ tasks' = {} /\ acks' = {} /\ again' = {}
  /\ pc' = [c \in Callers |-> IF c \in {Main, Recon} THEN "idle" ELSE IF pc[c] = "idle" THEN "idle" ELSE "done"]
  /\ answer' = [c \in Callers |-> "none"] /\ lock' = NoOne /\ sending' = NoOne
  /\ link' = FALSE /\ sub' = 0 /\ started' = FALSE /\ subscribed' = FALSE /\ ready' = FALSE /\ dsubs' = {}
  /\ jdisk' = jdisk \cup saved
  /\ offered' = 0 /\ UNCHANGED <<tries, account, wire, posted, copies, starts>>
Stamps(S) == {<<"timestamp", m>> : m \in S}
Closes ==
  /\ life = "close" /\ Gone(Stamps(acks))
  /\ jmem' = jdisk' /\ UNCHANGED <<own, seen, taken, faults>>
Crashes ==
  /\ life # "down" /\ Fault /\ Gone({})
  /\ jmem' = {} /\ own' = {} /\ seen' = {}
  /\ taken' = [m \in Messages |-> IF m \in Inbound THEN 0 ELSE taken[m]]
-------------------------------------------------------------------------------
(* Sending.                                                                 *)

Unstarted == UNCHANGED <<life, link, receiving, account, inbox, offered, dsubs, posted, copies, starts>>
Sends(c) ==
  /\ c \in Out \cup Calls /\ life = "up" /\ pc[c] = "idle"
  /\ pc' = [pc EXCEPT ![c] = IF c \in Texts THEN "journal" ELSE IF c \in Files THEN "slot" ELSE "connect"]
  /\ UNCHANGED <<again, tries, lock, sending, journal, answer, wire, faults>> /\ Unstarted

\* What is sent is known as the bot's own before it is sent.
Remembers(entry) == jdisk' = jdisk \cup {entry} /\ jmem' = jdisk' /\ UNCHANGED own
\* (mutant) It is sent while the journal is being written.
JournalLater(m) ==
  /\ pc[m] = "journal" /\ pc' = [pc EXCEPT ![m] = "slot"]
  /\ UNCHANGED <<again, tries, lock, sending, journal, answer, wire, faults>> /\ Unstarted
Journalled(m) ==
  /\ pc[m] = "journal" /\ pc' = [pc EXCEPT ![m] = "slot"]
  /\ Remembers(<<"text", m>>)
  /\ UNCHANGED <<again, tries, lock, sending, acks, answer, wire, faults>> /\ Unstarted
JournalFails(m) ==
  /\ pc[m] = "journal" /\ Fault /\ pc' = [pc EXCEPT ![m] = "done"]
  /\ UNCHANGED <<again, tries, lock, sending, journal, answer, wire>> /\ Unstarted

TakesSlot(m) ==
  /\ pc[m] = "slot" /\ sending = NoOne /\ sending' = m /\ pc' = [pc EXCEPT ![m] = "connect"]
  /\ UNCHANGED <<again, tries, lock, journal, answer, wire, faults>> /\ Unstarted

\* The daemon has acknowledged the send, throttled it or refused it.
SendReturns(m) ==
  /\ pc[m] = "woken" /\ sending' = NoOne /\ answer' = [answer EXCEPT ![m] = "none"]
  /\ IF answer[m] = "throttled" /\ tries[m] + 1 < MaxTries
     THEN pc' = [pc EXCEPT ![m] = "slot"] /\ tries' = [tries EXCEPT ![m] = @ + 1]
     ELSE pc' = [pc EXCEPT ![m] = "done"] /\ UNCHANGED tries
  /\ IF answer[m] = "ok" THEN own' = own \cup {m} /\ acks' = acks \cup {m} ELSE UNCHANGED <<own, acks>>
  /\ UNCHANGED <<again, lock, jdisk, jmem, wire, faults>> /\ Unstarted
AckSaved(m) ==
  /\ m \in acks /\ acks' = acks \ {m} /\ Remembers(<<"timestamp", m>>)
  /\ UNCHANGED <<rpc, answer, wire, faults>> /\ Unstarted
CallReturns(c) ==
  /\ pc[c] = "woken" /\ pc' = [pc EXCEPT ![c] = "done"] /\ again' = again \ {c}
  /\ answer' = [answer EXCEPT ![c] = "none"]
  /\ UNCHANGED <<tries, lock, sending, journal, wire, faults>> /\ Unstarted

\* /stop or shutdown cancels the turn that is sending; the journal's writer is
\* waited for, and nothing is sent after it.
Cancelled(m) ==
  /\ pc[m] \notin {"idle", "done"} /\ Fault /\ pc' = [pc EXCEPT ![m] = "done"]
  /\ Free(m) /\ sending' = (IF sending = m THEN NoOne ELSE sending)
  /\ answer' = [answer EXCEPT ![m] = "none"]
  /\ IF pc[m] = "journal" THEN Remembers(<<"text", m>>) ELSE UNCHANGED <<jdisk, jmem, own>>
  /\ UNCHANGED <<again, tries, acks, wire>> /\ Unstarted
-------------------------------------------------------------------------------
(* Receiving.                                                               *)

\* The daemon notifies a subscription; the reader starts a task.
Notifies(x) ==
  /\ link /\ ~Stopping /\ x \in Inbound \cup {m \in Out : posted[m] > 0}
  /\ copies < MaxCopies /\ copies' = copies + 1
  /\ \E s \in dsubs : tasks' = tasks \cup {[msg |-> x, current |-> TRUE, sub |-> s]}
  /\ UNCHANGED <<life, rpc, link, receiving, account, journal, seen, taken, answer, offered,
                 dsubs, wire, posted, faults, starts>>

\* _is_own_sent_echo, _is_duplicate_incoming
Echo(x) == x \in own \/ <<"timestamp", x>> \in jmem \/ <<"text", x>> \in jmem
Current(t) == t.current /\ (account => t.sub = sub)
Handles(t) ==
  /\ t \in tasks /\ ready /\ tasks' = tasks \ {t}
  /\ IF Current(t) /\ ~Echo(t.msg) /\ t.msg \notin seen
     THEN seen' = seen \cup {t.msg} /\ taken' = [taken EXCEPT ![t.msg] = @ + 1]
     ELSE UNCHANGED <<seen, taken>>
  /\ UNCHANGED <<life, rpc, link, receiving, account, journal, daemon, faults, starts>>
-------------------------------------------------------------------------------
Runs(c) == Connects(c) \/ Opened(c) \/ Reads(c) \/ Resubscribed(c)
Client ==
  \/ \E c \in Callers : Runs(c)
  \/ MainReturns \/ ServicesUp \/ Halted \/ Closes
  \/ \E m \in Out : Journalled(m) \/ TakesSlot(m) \/ SendReturns(m) \/ AckSaved(m)
  \/ \E c \in Calls : CallReturns(c)
  \/ \E t \in tasks : Handles(t)
Trouble ==
  \/ StreamEnds \/ Crashes
  \/ \E c \in Callers : TimesOut(c) \/ OpenFails(c) \/ Refuses(c)
  \/ \E m \in Out : JournalFails(m) \/ Cancelled(m)
Next ==
  \/ Client \/ Trouble \/ Starts \/ Stop
  \/ \E c \in Callers : Sends(c) \/ Answers(c)
  \/ \E m \in Out : Posts(m)
  \/ \E x \in Messages : Notifies(x)
Spec == Init /\ [][Next]_vars

\* The event loop runs what can run; the daemon answers what is asked.
Fairness ==
  /\ WF_vars(Client)
  /\ \A c \in Callers : WF_vars(Runs(c)) /\ WF_vars(Answers(c))
  /\ \A m \in Out : WF_vars(Posts(m)) /\ WF_vars(SendReturns(m))
  /\ WF_vars(MainReturns) /\ WF_vars(ServicesUp) /\ WF_vars(Halted) /\ WF_vars(Closes)
FairSpec == Spec /\ Fairness
-------------------------------------------------------------------------------
(* Properties.                                                              *)

Lives == {"down", "list", "subscribe", "repair", "services", "up", "halt", "unsub", "close"}
Places == {"idle", "journal", "slot", "connect", "open", "sub", "subwoken", "wait", "woken", "done"}
TypeOK ==
  /\ life \in Lives /\ pc \in [Callers -> Places] /\ again \subseteq Callers
  /\ tries \in [Out -> Nat] /\ lock \in Callers \cup {NoOne} /\ sending \in Out \cup {NoOne}
  /\ link \in BOOLEAN /\ sub \in Nat /\ started \in BOOLEAN /\ subscribed \in BOOLEAN
  /\ ready \in BOOLEAN /\ account \in BOOLEAN
  /\ jdisk \subseteq {"text", "timestamp"} \X Out /\ jmem \subseteq jdisk
  /\ acks \subseteq Out /\ own \subseteq Out /\ seen \subseteq Messages
  /\ tasks \subseteq [msg : Messages, current : BOOLEAN, sub : Nat]
  /\ answer \in [Callers -> {"none", "ok", "throttled", "error"}]
  /\ offered \in Nat /\ dsubs \subseteq Nat /\ wire \subseteq Out
  /\ posted \in [Out -> Nat] /\ copies \in 0..MaxCopies
  /\ taken \in [Messages -> Nat] /\ faults \in 0..MaxFaults /\ starts \in 0..MaxStarts

\* One caller at a time opens or renews the connection (_jsonrpc_reconnect_lock),
\* one send is under way (_send_lock), an answer has a caller that waits, and start()
\* or stop() asks for something only where it does.
CallerInv ==
  /\ \A c \in Callers : pc[c] \in {"open", "sub", "subwoken"} =>
       lock = c /\ answer[c] \in {"none", "ok"}
  /\ \A m \in Out : pc[m] \notin {"idle", "journal", "slot", "done"} => sending = m
  /\ \A c \in Callers : pc[c] \notin {"sub", "subwoken", "wait", "woken"} => answer[c] = "none"
  /\ life \in {"down", "services", "up", "halt", "close"} => pc[Main] = "idle"

\* A send that may still be written, again or at first, is not with the daemon;
\* and what the daemon may post is in the journal.
SendInv ==
  /\ \A m \in Out : pc[m] \notin {"wait", "woken", "done"} \/ answer[m] = "throttled" =>
       m \notin wire /\ posted[m] = 0
  /\ \A m \in wire : posted[m] = 0
  /\ \A m \in Texts : pc[m] \notin {"idle", "journal", "done"} \/ m \in wire \/ posted[m] > 0 =>
       <<"text", m>> \in jdisk

\* A process that runs has read the journal; what it is notified of was posted,
\* and what it took it remembers.
InboxInv ==
  /\ life # "down" => jmem = jdisk
  /\ ready => life # "down"
  /\ \A t \in tasks : t.msg \in Inbound \/ posted[t.msg] > 0
  /\ \A x \in Inbound : taken[x] > 0 => x \in seen

\* The bot that has started receives, or the reconnect task is at work on it; a
\* subscription belongs to an open connection, and notifications are let in
\* exactly while there is one (signal.py _start_receive_subscription,
\* _schedule_jsonrpc_reconnect, _close_jsonrpc_transport).
LinkInv ==
  /\ subscribed => link /\ sub \in dsubs
  /\ life = "up" => (ready <=> subscribed)
  /\ started /\ ~Stopping /\ ~subscribed => pc[Recon] # "idle"

\* With what it takes to keep it: who waits has a connection, a subscription the
\* daemon answered is its last one, and start() ends with one.
WakeInv ==
  /\ \A c \in Callers : pc[c] \in {"sub", "subwoken", "wait", "woken"} => link
  /\ offered > 0 => offered \in dsubs
  /\ \A c \in Callers :
       pc[c] = "subwoken" \/ (answer[c] = "ok" /\ (pc[c] = "sub" \/ (c = Main /\ life = "subscribe")))
         => offered > 0
  /\ answer[Main] \in {"none", "ok"} /\ (pc[Main] = "woken" => answer[Main] = "ok")
  /\ life # "repair" /\ (life \in {"down", "list", "subscribe", "unsub", "close"} => ~started)
  /\ LinkInv

\* A send is posted once; the bot never takes a text of its own for a request,
\* whenever the daemon repeats it, restarts included; and a message of a person
\* is taken once by a process (README: "This catches duplicate or delayed
\* own-message syncs after a restart or a lost send response").
MessagesOnce ==
  /\ \A m \in Out : posted[m] <= 1
  /\ \A m \in Texts : taken[m] = 0
  /\ \A x \in Inbound : taken[x] <= 1

\* The connection is accounted for, and no message counts twice.
StoreInv == TypeOK /\ CallerInv /\ SendInv /\ InboxInv /\ MessagesOnce
SignalInv == StoreInv /\ (LateWake \/ WakeInv)

\* After a lost connection the bot hears again.
HearsAgain == life = "up" ~> ready \/ life # "up"
===============================================================================
