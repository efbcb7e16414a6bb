-------------------------- MODULE DirectRootExchange --------------------------
(* The direct exchange of announcements between a profile's devices, without *)
(* relays: every device repeats what it has to say - its drive root and the  *)
(* roster operations it knows - and a native device also the roots of others *)
(* that it holds signed events of. What has been seen is not applied again,  *)
(* and what has been said lately is not said again. The two programs differ  *)
(* (direct_root_transport.rs, publish/direct_root.rs) and talk to each other.*)
EXTENDS RootRef, FiniteSets

CONSTANTS
    Native,     \* devices that run the app core
    Cli,        \* devices that run the CLI daemon
    Owners,     \* devices that publish a drive root
    Joiners,    \* devices that are admitted during the behaviour
    Admin,      \* the device that admits them
    MaxSeq,     \* bound on the roots of one owner
    MaxBreaks   \* bound on lost connections and restarts

Devices == Native \cup Cli

ASSUME DevicesAssumption ==
    /\ Native \cap Cli = {} /\ Owners \subseteq Devices /\ Joiners \subseteq Devices
    /\ Admin \in Devices \ Joiners
ASSUME ExchangeBoundsAssumption == MaxSeq \in Nat /\ MaxBreaks \in Nat

VARIABLES
    knows,     \* knows[d]: the devices of the profile, as d's roster has it
    rec,       \* rec[d][o]: d's record of o's root
    has,       \* has[d]: the roots <<o, seq>> whose blocks d holds
    cache,     \* cache[d]: the root events of others among cached_events
    seen,      \* seen[d]: their keys among seen_keys
    inbox,     \* inbox[d]: frames that arrived at d
    on,        \* the devices that are connected
    breaks     \* bound: connections lost and restarts so far

persisted == <<knows, rec, has>>
exchangeVars == <<knows, rec, has, cache, seen, inbox, on, breaks>>

(* The key of a root event names its sequence number and its recipients.     *)
RootKeys == {[owner |-> o, seq |-> n, to |-> ds] :
                o \in Owners, n \in 1..MaxSeq, ds \in SUBSET Devices}
OpKeys == [op : Joiners]
IsRoot(key) == "owner" \in DOMAIN key

Frames == [full : RootKeys \cup OpKeys] \cup [hint : RootKeys]

Full(seq) == [NoRef EXCEPT !.cid = seq, !.seq = seq, !.gen = 1]
Refs == {NoRef} \cup {Full(n) : n \in 1..MaxSeq} \cup {Placeholder(n, n, 0) : n \in 1..MaxSeq}

Init ==
    /\ knows = [d \in Devices |-> IF d \in Joiners THEN {d} ELSE Devices \ Joiners]
    /\ rec = [d \in Devices |-> [o \in Owners |-> NoRef]]
    /\ has = [d \in Devices |-> {}]
    /\ cache = [d \in Devices |-> {}]
    /\ seen = [d \in Devices |-> {}]
    /\ inbox = [d \in Devices |-> {}]
    /\ on = Devices
    /\ breaks = 0

Authorized(d) == knows[d] \ {d}
Connected(d) == IF d \in on THEN Authorized(d) \cap on ELSE {}

-----------------------------------------------------------------------------
(* direct_root_slot_is_newer, for events of one family                       *)
SlotIsNewer(a, b) ==
    /\ a.owner = b.owner
    /\ a.seq > b.seq \/ (a.seq = b.seq /\ Cardinality(a.to) > Cardinality(b.to))

(* should_cache_event_as_latest *)
Latest(cached, key) == ~\E k \in cached : SlotIsNewer(k, key)

(* superseded_cached_event_keys *)
Superseded(cached, key) ==
    {k \in cached \ {key} : k.owner = key.owner /\ ~SlotIsNewer(k, key)}

(* cache_event: the cached events after that of `key' has been offered      *)
CacheEvents(cached, key) ==
    IF Latest(cached, key) THEN (cached \ Superseded(cached, key)) \cup {key} ELSE cached

(* build_current_direct_root_events, build_current_sync_events *)
LocalEvents(d) ==
    {[owner |-> o, seq |-> rec[d][o].seq, to |-> knows[d]] :
        o \in {x \in Owners : x = d /\ Known(rec[d][x])}}
      \cup {[op |-> x] : x \in knows[d] \cap Joiners}

(* Mutant: only what is its own is repeated, as in the CLI. *)
ForwardedNone(d) == {}

(* events_for_publish: what a native device holds of the others' roots       *)
Forwarded(d) == IF d \in Native THEN cache[d] ELSE {}

-----------------------------------------------------------------------------
(* coalesce_direct_root_app_messages: of the frames of a family that wait    *)
(* together only the newest is handled, the full one if there is a hint too. *)
Key(frame) == IF "full" \in DOMAIN frame THEN frame.full ELSE frame.hint

Replaces(new, old) ==
    \/ SlotIsNewer(Key(new), Key(old))
    \/ /\ "full" \in DOMAIN new /\ "hint" \in DOMAIN old
       /\ Key(new).owner = Key(old).owner /\ Key(new).seq = Key(old).seq
       /\ Cardinality(Key(new).to) = Cardinality(Key(old).to)

Coalesced(waiting, frame) ==
    IF ~IsRoot(Key(frame)) THEN waiting \cup {frame}
    ELSE LET others == {f \in waiting : IsRoot(Key(f)) /\ Key(f).owner = Key(frame).owner}
         IN  IF \A f \in others : Replaces(frame, f)
             THEN (waiting \ others) \cup {frame} ELSE waiting

(* Frames that change nothing where they arrive are left out: an operation   *)
(* that the roster has, an event of one's own root, which is seen or stale.  *)
Idle(x, key) == IF IsRoot(key) THEN key.owner = x ELSE key.op \in knows[x]

Send(d, frame) ==
    LET to == {x \in Connected(d) : ~Idle(x, Key(frame))}
    IN  inbox' = [x \in Devices |-> IF x \in to THEN Coalesced(inbox[x], frame) ELSE inbox[x]]

Remember(d, key) ==
    /\ seen' = [seen EXCEPT ![d] = @ \cup {key}]
    /\ cache' = [cache EXCEPT ![d] = CacheEvents(@, key)]

Forget == UNCHANGED <<cache, seen>>

(* announce_current_state, publish_event: the hint and the event of a root   *)
(* are sent to whoever is connected, again and again; which of the events an *)
(* announcement leaves out because it was said lately is left open here.     *)
Say(d, frame) ==
    /\ Connected(d) # {}
    /\ Send(d, frame)
    /\ UNCHANGED <<persisted, cache, seen, on, breaks>>

SayRoot(d) == \E key \in LocalEvents(d) : IsRoot(key) /\ Say(d, [full |-> key])
SayHint(d) == \E key \in LocalEvents(d) : IsRoot(key) /\ Say(d, [hint |-> key])
SayOp(d, j) == [op |-> j] \in LocalEvents(d) /\ Say(d, [full |-> [op |-> j]])
SayForwarded(d, o) ==
    \E key \in Forwarded(d) : key.owner = o /\ Say(d, [full |-> key])

-----------------------------------------------------------------------------
Take(d, frame) == inbox' = [inbox EXCEPT ![d] = @ \ {frame}]

(* A download succeeds if somebody is there who has the blocks.              *)
CanGet(d, o, seq) == <<o, seq>> \in has[d] \/ \E x \in Connected(d) : <<o, seq>> \in has[x]

Got(d, o, seq) == has' = [has EXCEPT ![d] = @ \cup {<<o, seq>>}]

Record(d, o, ref) == rec' = [rec EXCEPT ![d][o] = ref]

(* drive_root_apply_outcome_is_retryable: UnauthorizedAppKey, KeyUnavailable *)
Retryable(d, key) == key.owner \notin knows[d] \/ d \notin key.to

(* Mutant: the key stays seen when the download fails. *)
NativeRootSeen(d, key) ==
    /\ UNCHANGED knows
    /\ IF key \in seen[d] \/ Retryable(d, key)
       THEN UNCHANGED <<rec, has>> /\ Forget
       ELSE /\ Record(d, key.owner, ApplyFull(rec[d][key.owner], Full(key.seq), TRUE))
            /\ IF CanGet(d, key.owner, key.seq) THEN Got(d, key.owner, key.seq) ELSE UNCHANGED has
            /\ Remember(d, key)

(* apply_frame: the event counts as seen, and is cached, only if it changed  *)
(* the record or the merged view and the blocks are here.                    *)
NativeRoot(d, key) ==
    LET o == key.owner
        before == rec[d][o]
        after  == ApplyFull(before, Full(key.seq), TRUE)
    IN  /\ UNCHANGED knows
        /\ IF key \in seen[d] \/ Retryable(d, key)
           THEN UNCHANGED <<rec, has>> /\ Forget
           ELSE /\ Record(d, o, after)
                /\ IF ~CanGet(d, o, key.seq) THEN UNCHANGED has /\ Forget
                   ELSE /\ Got(d, o, key.seq)
                        /\ \E materialized \in BOOLEAN :
                             /\ materialized => after.seq = key.seq
                             /\ IF after # before \/ materialized THEN Remember(d, key)
                                                                 ELSE Forget

(* Mutant: a root that cannot be applied yet is done with. *)
CliRootOnce(d, key) ==
    /\ UNCHANGED <<knows, has>>
    /\ IF Latest(cache[d], key) /\ key \notin seen[d]
       THEN /\ IF Retryable(d, key) THEN UNCHANGED rec
               ELSE Record(d, key.owner, ApplyFull(rec[d][key.owner], Full(key.seq), TRUE))
            /\ Remember(d, key)
       ELSE UNCHANGED rec /\ Forget

(* apply_direct_root_frame: the blocks follow (Pull).                        *)
CliRoot(d, key) ==
    /\ UNCHANGED <<knows, has>>
    /\ IF /\ Latest(cache[d], key)
          /\ key \notin seen[d] \/ <<key.owner, key.seq>> \notin has[d]
          /\ ~Retryable(d, key)
       THEN /\ Record(d, key.owner, ApplyFull(rec[d][key.owner], Full(key.seq), TRUE))
            /\ Remember(d, key)
       ELSE UNCHANGED rec /\ Forget

(* apply_remote_nostr_identity_roster_op_event, in either program: a known   *)
(* operation changes nothing, seen or not.                                   *)
RosterOp(d, key) ==
    /\ knows' = [knows EXCEPT ![d] = @ \cup {key.op}]
    /\ UNCHANGED <<rec, has>> /\ Forget

ReceiveFull(d, frame) ==
    /\ frame \in inbox[d] /\ "full" \in DOMAIN frame
    /\ IF ~IsRoot(frame.full) THEN RosterOp(d, frame.full)
       ELSE IF d \in Native THEN NativeRoot(d, frame.full) ELSE CliRoot(d, frame.full)
    /\ Take(d, frame)
    /\ UNCHANGED <<on, breaks>>

(* apply_hint_frame, apply_direct_root_hint_frame: a placeholder is recorded *)
(* until the event arrives.                                                  *)
ReceiveHint(d, frame) ==
    /\ frame \in inbox[d] /\ "hint" \in DOMAIN frame
    /\ LET key == frame.hint
           o   == key.owner
           old == rec[d][o].seq > key.seq
       IN  IF ~Latest(cache[d], key) \/ o \notin knows[d] THEN UNCHANGED <<rec, has>>
           ELSE /\ Record(d, o, ApplyHint(rec[d][o], key.seq, key.seq, 0))
                /\ IF d \in Native /\ ~old /\ CanGet(d, o, key.seq)
                   THEN Got(d, o, key.seq) ELSE UNCHANGED has
    /\ Take(d, frame)
    /\ UNCHANGED <<knows, cache, seen, on, breaks>>

(* spawn_root_apply_followup, and the repair that looks for pending roots    *)
Pull(d, o) ==
    /\ d \in Cli
    /\ Known(rec[d][o]) /\ <<o, rec[d][o].seq>> \notin has[d]
    /\ CanGet(d, o, rec[d][o].seq)
    /\ Got(d, o, rec[d][o].seq)
    /\ UNCHANGED <<knows, rec, cache, seen, inbox, on, breaks>>

-----------------------------------------------------------------------------
(* An import, or whatever else makes a root of one's own.                    *)
Edit(d) ==
    /\ d \in Owners /\ Authorized(d) # {}
    /\ rec[d][d].seq < MaxSeq
    /\ Record(d, d, Full(rec[d][d].seq + 1))
    /\ Got(d, d, rec[d][d].seq + 1)
    /\ UNCHANGED <<knows, cache, seen, inbox, on, breaks>>

(* A device is approved: the admin signs the operation and hands the new     *)
(* device its roster.                                                        *)
Admit(j) ==
    /\ j \notin knows[Admin]
    /\ knows' = [knows EXCEPT ![Admin] = @ \cup {j}, ![j] = knows[Admin] \cup {j}]
    /\ UNCHANGED <<rec, has, cache, seen, inbox, on, breaks>>

(* A device loses its connections and some of what was on its way, ...       *)
Disconnect(d) ==
    /\ d \in on /\ breaks < MaxBreaks
    /\ on' = on \ {d}
    /\ \E lost \in SUBSET inbox[d] : inbox' = [inbox EXCEPT ![d] = @ \ lost]
    /\ breaks' = breaks + 1
    /\ UNCHANGED <<persisted, cache, seen>>

Connect(d) ==
    /\ d \notin on
    /\ on' = on \cup {d}
    /\ UNCHANGED <<persisted, cache, seen, inbox, breaks>>

(* ... or the program restarts: only the config and the blocks are kept.     *)
Restart(d) ==
    /\ breaks < MaxBreaks
    /\ cache' = [cache EXCEPT ![d] = {}]
    /\ seen' = [seen EXCEPT ![d] = {}]
    /\ inbox' = [inbox EXCEPT ![d] = {}]
    /\ breaks' = breaks + 1
    /\ UNCHANGED <<persisted, on>>

ReceiveRoot(d, o) ==
    \E frame \in inbox[d] :
        /\ IsRoot(Key(frame)) /\ Key(frame).owner = o
        /\ ReceiveFull(d, frame) \/ ReceiveHint(d, frame)

ReceiveOp(d) == \E frame \in inbox[d] : ~IsRoot(Key(frame)) /\ ReceiveFull(d, frame)

DeviceStep(d) ==
    \/ SayRoot(d) \/ SayHint(d) \/ \E j \in Joiners : SayOp(d, j)
    \/ \E o \in Owners : SayForwarded(d, o) \/ ReceiveRoot(d, o) \/ Pull(d, o)
    \/ ReceiveOp(d) \/ Edit(d) \/ Disconnect(d) \/ Connect(d) \/ Restart(d)

Next == (\E d \in Devices : DeviceStep(d)) \/ \E j \in Joiners : Admit(j)

(* Every device announces from a timer when the intervals have elapsed,      *)
(* handles all that arrived and pulls missing blocks again.                  *)
Fairness ==
    /\ \A d \in Devices : /\ \A j \in Joiners : WF_exchangeVars(SayOp(d, j))
                         /\ WF_exchangeVars(ReceiveOp(d))
    /\ \A o \in Owners :
        /\ WF_exchangeVars(SayRoot(o))
        /\ \A d \in Devices \ {o} : WF_exchangeVars(ReceiveRoot(d, o))
        /\ \A d \in Native \ {o} : WF_exchangeVars(SayForwarded(d, o))
        /\ \A d \in Cli \ {o} : WF_exchangeVars(Pull(d, o))

Spec == Init /\ [][Next]_exchangeVars /\ Fairness

-----------------------------------------------------------------------------
TypeOK ==
    /\ knows \in [Devices -> SUBSET Devices]
    /\ rec \in [Devices -> [Owners -> Refs]]
    /\ has \in [Devices -> SUBSET (Owners \X (1..MaxSeq))]
    /\ cache \in [Devices -> SUBSET RootKeys]
    /\ \A d \in Devices : \A a, b \in cache[d] : a.owner = b.owner => a = b
    /\ seen \in [Devices -> SUBSET RootKeys]
    /\ inbox \in [Devices -> SUBSET Frames]
    /\ on \subseteq Devices /\ breaks \in 0..MaxBreaks

(* What a device ignores because it has seen it, it has: the root on record  *)
(* is this one, with its causal metadata, or a later one, and a native       *)
(* device has its blocks.                                                    *)
SeenIsHad ==
    \A d \in Devices : \A key \in seen[d] :
        /\ \/ rec[d][key.owner].seq > key.seq
           \/ rec[d][key.owner] = Full(key.seq)
        /\ d \in Native => <<key.owner, key.seq>> \in has[d]

Current(d, o) == rec[d][o] = rec[o][o] /\ <<o, rec[o][o].seq>> \in has[d]

(* Once everybody stays connected, every device of the profile ends up with  *)
(* everybody's latest root and its blocks, whatever was lost, throttled,     *)
(* received too early or forgotten in a restart before.                      *)
EventuallyCurrent ==
    <>[](on = Devices) =>
        <>[](\A o \in Owners : \A d \in knows[o] :
                /\ knows[d] = knows[o]
                /\ Known(rec[o][o]) => Current(d, o))

(* A root whose owner has gone reaches those it was made for from any native *)
(* device that holds its event.                                              *)
Awaited(c, o) ==
    /\ on = Devices \ {o} /\ o \in knows[c]
    /\ \E n \in Native \ {o} :
        /\ c \in knows[n] /\ n \in knows[c]
        /\ \E key \in cache[n] :
             key.owner = o /\ c \in key.to /\ key.seq > rec[c][o].seq

Forwards == \A o \in Owners : \A c \in Devices : Awaited(c, o) ~> ~Awaited(c, o)
=============================================================================
