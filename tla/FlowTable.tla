------------------------------ MODULE FlowTable ------------------------------
(***************************************************************************)
(* One flow table of the OpenFlow switch (udatapath/flow_table.c and       *)
(* flow_entry.c) and the meters its entries refer to (meter_table.c and    *)
(* meter_entry.c).                                                         *)
(*                                                                         *)
(* An entry is in up to three lists: match_entries, searched by lookups    *)
(* and kept in the order of priorities; hard_entries, in the order of      *)
(* expiry; and idle_entries.  A match is the set of packets it accepts.    *)
(* Entries are numbered in the order of creation, and the fields of an     *)
(* entry are remembered after it is gone.  Cookies, output ports and       *)
(* groups of flow-mods have the values that match everything, as in every  *)
(* message of the ATLAS controller.                                        *)
(***************************************************************************)
EXTENDS EntryLists, FiniteSets, Functions

CONSTANTS
  Packet,
  Match,       \* matches used by flow-mods, sets of packets
  Priority,
  Meter,       \* meter ids
  NoMeter,     \* an entry without a meter instruction
  FlowMods,    \* <<idle_timeout, hard_timeout, meter>> of flow-mods, 0 for no timeout
  max_entries,
  MaxMods,     \* bound: flow-mods that create an entry
  MaxTime      \* bound: the clock

ASSUME FlowTableAssumption ==
  /\ Match \subseteq SUBSET Packet
  /\ Priority \subseteq Nat
  /\ NoMeter \notin Meter
  /\ FlowMods \subseteq Nat \X Nat \X (Meter \cup {NoMeter})
  /\ max_entries \in Nat /\ MaxMods \in Nat /\ MaxTime \in Nat

VARIABLES
  now,            \* time_msec, in units of the timeouts
  entry,          \* all entries ever created, by number
  match_entries, idle_entries, hard_entries,
  active_count,
  flow_refs,      \* the entries each existing meter refers to
  notices         \* flow-removed messages sent, in order

lists == <<match_entries, idle_entries, hard_entries>>
vars == <<now, entry, lists, active_count, flow_refs, notices>>

-----------------------------------------------------------------------------
NewId == Len(entry) + 1
Live == Range(match_entries)

(* The entries of a list that are not in ids. *)
Without(s, ids) == Keep(s, Range(s) \ ids)

(* flow_entry_create: the meter of an entry that does not exist is          *)
(* remembered in meter_refs all the same.                                   *)
flow_entry_create(m, p, t) ==
  [match |-> m, priority |-> p, idle_timeout |-> t[1],
   remove_at |-> IF t[2] = 0 THEN 0 ELSE now + t[2], last_used |-> now,
   meter |-> t[3], meter_refs |-> {t[3]} \ {NoMeter}]

add_flow_ref(refs, id, e) ==
  [x \in DOMAIN refs |-> IF x \in e.meter_refs THEN refs[x] \cup {id} ELSE refs[x]]

(* Mutant: the meters keep their references. *)
del_meter_refs_not(refs, ids) == refs

(* del_meter_refs for the entries ids: an entry is taken out of the meters  *)
(* its own list names.                                                      *)
del_meter_refs(refs, ids) ==
  [x \in DOMAIN refs |-> refs[x] \ {i \in ids : x \in entry[i].meter_refs}]

(* Mutant: entries with a hard timeout are simply appended. *)
add_to_hard_last(s, id, e) == IF e.remove_at = 0 THEN s ELSE Append(s, id)

(* add_to_timeout_lists. *)
add_to_idle(s, id, e) == IF e.idle_timeout > 0 THEN Append(s, id) ELSE s
add_to_hard(s, id, e) ==
  IF e.remove_at = 0 THEN s
  ELSE InsertAt(s, FirstIn(s, {i \in Live : entry[i].remove_at > e.remove_at}), id)

(* Mutant: the entry stays in the list of idle timeouts. *)
remove_not_idle(gone) ==
  LET ids == {gone[i].id : i \in DOMAIN gone}
  IN /\ notices' = notices \o gone
     /\ match_entries' = Without(match_entries, ids)
     /\ hard_entries' = Without(hard_entries, ids)
     /\ UNCHANGED idle_entries
     /\ active_count' = active_count - Cardinality(ids)
     /\ flow_refs' = del_meter_refs(flow_refs, ids)

(* flow_entry_remove for the entries of the sequence gone, in its order. *)
remove(gone) ==
  LET ids == {gone[i].id : i \in DOMAIN gone}
  IN /\ notices' = notices \o gone
     /\ match_entries' = Without(match_entries, ids)
     /\ hard_entries' = Without(hard_entries, ids)
     /\ idle_entries' = Without(idle_entries, ids)
     /\ active_count' = active_count - Cardinality(ids)
     /\ flow_refs' = del_meter_refs(flow_refs, ids)

Removal(reason, s) == [i \in DOMAIN s |-> [id |-> s[i], reason |-> reason]]

-----------------------------------------------------------------------------
Init ==
  /\ now = 1
  /\ entry = <<>>
  /\ match_entries = <<>> /\ idle_entries = <<>> /\ hard_entries = <<>>
  /\ active_count = 0
  /\ flow_refs = [x \in {} |-> {}]
  /\ notices = <<>>

(* flow_table_add.  The entry of the same match and priority is replaced,   *)
(* in its place and without a notice; another one goes behind those of its  *)
(* priority, unless the table is full.                                      *)
same(m, p) == {i \in Live : entry[i].match = m /\ entry[i].priority = p}

flow_table_replace(m, p, t) ==
  LET e == flow_entry_create(m, p, t)
  IN /\ Len(entry) < MaxMods
     /\ entry' = Append(entry, e)
     /\ \E old \in same(m, p) :
          /\ match_entries' = [i \in DOMAIN match_entries |->
                                 IF match_entries[i] = old THEN NewId ELSE match_entries[i]]
          /\ idle_entries' = add_to_idle(Without(idle_entries, {old}), NewId, e)
          /\ hard_entries' = add_to_hard(Without(hard_entries, {old}), NewId, e)
          /\ flow_refs' = add_flow_ref(del_meter_refs(flow_refs, {old}), NewId, e)
     /\ UNCHANGED <<now, active_count, notices>>

(* Mutant: the new entry goes in front of the list. *)
flow_table_insert_front(m, p, t) ==
  LET e == flow_entry_create(m, p, t)
  IN /\ Len(entry) < MaxMods
     /\ same(m, p) = {}
     /\ active_count # max_entries
     /\ active_count' = active_count + 1
     /\ entry' = Append(entry, e)
     /\ match_entries' = <<NewId>> \o match_entries
     /\ idle_entries' = add_to_idle(idle_entries, NewId, e)
     /\ hard_entries' = add_to_hard(hard_entries, NewId, e)
     /\ flow_refs' = add_flow_ref(flow_refs, NewId, e)
     /\ UNCHANGED <<now, notices>>

flow_table_insert(m, p, t) ==
  LET e == flow_entry_create(m, p, t)
  IN /\ Len(entry) < MaxMods
     /\ same(m, p) = {}
     /\ active_count # max_entries
     /\ active_count' = active_count + 1
     /\ entry' = Append(entry, e)
     /\ match_entries' =
          InsertAt(match_entries, FirstIn(match_entries, {i \in Live : p > entry[i].priority}), NewId)
     /\ idle_entries' = add_to_idle(idle_entries, NewId, e)
     /\ hard_entries' = add_to_hard(hard_entries, NewId, e)
     /\ flow_refs' = add_flow_ref(flow_refs, NewId, e)
     /\ UNCHANGED <<now, notices>>

flow_table_add ==
  \E m \in Match, p \in Priority, t \in FlowMods :
    flow_table_replace(m, p, t) \/ flow_table_insert(m, p, t)

(* flow_table_modify (not strict): the instructions change, timeouts and    *)
(* lists do not, and neither does the list of meters the entry refers to.   *)
flow_table_modify ==
  \E m \in Match, meter \in {NoMeter} \cup Meter :
    /\ \E i \in Live : entry[i].match \subseteq m
    /\ entry' = [i \in DOMAIN entry |->
                   IF i \in Live /\ entry[i].match \subseteq m
                   THEN [entry[i] EXCEPT !.meter = meter] ELSE entry[i]]
    /\ UNCHANGED <<now, lists, active_count, flow_refs, notices>>

(* flow_table_delete, strict for one priority or not. *)
flow_table_delete ==
  \E m \in Match :
    LET chosen == Keep(match_entries, {i \in Live : entry[i].match \subseteq m})
    IN /\ chosen # <<>>
       /\ remove(Removal("DELETE", chosen))
       /\ UNCHANGED <<now, entry>>

flow_table_delete_strict ==
  \E m \in Match, p \in Priority :
    LET chosen == Keep(match_entries, same(m, p))
    IN /\ chosen # <<>>
       /\ remove(Removal("DELETE", chosen))
       /\ UNCHANGED <<now, entry>>

(* flow_table_lookup: the first entry that accepts the packet. *)
hits(p) == Keep(match_entries, {i \in Live : p \in entry[i].match})

flow_table_lookup ==
  \E p \in Packet :
    /\ hits(p) # <<>>
    /\ entry' = [entry EXCEPT ![Head(hits(p))].last_used = now]
    /\ UNCHANGED <<now, lists, active_count, flow_refs, notices>>

(* flow_table_timeout: expired entries from the front of hard_entries up    *)
(* to the first that has not expired, then the idle ones.                   *)
hard_over(i) == entry[i].remove_at # 0 /\ now > entry[i].remove_at
idle_over(i) == entry[i].idle_timeout # 0 /\ now > entry[i].last_used + entry[i].idle_timeout

expired == SubSeq(hard_entries, 1, FirstIn(hard_entries, {i \in Live : ~hard_over(i)}) - 1)

(* Mutant: the idle list is searched with the entries just removed in it. *)
flow_table_timeout_twice ==
  LET hard == expired
      idle == Keep(idle_entries, {i \in Live : idle_over(i)})
  IN /\ remove(Removal("HARD_TIMEOUT", hard) \o Removal("IDLE_TIMEOUT", idle))
     /\ UNCHANGED <<now, entry>>

flow_table_timeout ==
  LET hard == expired
      idle == Keep(Without(idle_entries, Range(hard)), {i \in Live : idle_over(i)})
  IN /\ remove(Removal("HARD_TIMEOUT", hard) \o Removal("IDLE_TIMEOUT", idle))
     /\ UNCHANGED <<now, entry>>

(* meter_table_add refuses an id that exists.  meter_table_modify keeps the *)
(* references.  meter_table_delete removes the entries the meter refers to, *)
(* which are in its list in the order of creation.                          *)
meter_table_add ==
  \E x \in Meter \ DOMAIN flow_refs :
    /\ flow_refs' = [y \in DOMAIN flow_refs \cup {x} |-> IF y = x THEN {} ELSE flow_refs[y]]
    /\ UNCHANGED <<now, entry, lists, active_count, notices>>

meter_table_delete(x) ==
  LET ids == Keep([i \in DOMAIN entry |-> i], flow_refs[x])
      gone == Removal("METER_DELETE", ids)
      rest == [y \in DOMAIN flow_refs \ {x} |-> flow_refs[y]]
  IN /\ notices' = notices \o gone
     /\ match_entries' = Without(match_entries, flow_refs[x])
     /\ hard_entries' = Without(hard_entries, flow_refs[x])
     /\ idle_entries' = Without(idle_entries, flow_refs[x])
     /\ active_count' = active_count - Cardinality(flow_refs[x])
     /\ flow_refs' = del_meter_refs(rest, flow_refs[x])
     /\ UNCHANGED <<now, entry>>

Tick == now < MaxTime /\ now' = now + 1 /\ UNCHANGED <<entry, lists, active_count, flow_refs, notices>>

Next ==
  \/ flow_table_add \/ flow_table_modify
  \/ flow_table_delete \/ flow_table_delete_strict
  \/ flow_table_lookup \/ flow_table_timeout
  \/ meter_table_add \/ \E x \in DOMAIN flow_refs : meter_table_delete(x)
  \/ Tick

Spec == Init /\ [][Next]_vars

-----------------------------------------------------------------------------
Entry == [match : Match, priority : Priority, idle_timeout : Nat, remove_at : Nat,
          last_used : Nat, meter : Meter \cup {NoMeter}, meter_refs : SUBSET Meter]

(* The lists hold numbers of entries, the fields what flow-mods carry. *)
TypeOK ==
  /\ now \in Nat /\ active_count \in Nat
  /\ entry \in Seq(Entry)
  /\ match_entries \in Seq(DOMAIN entry)
  /\ idle_entries \in Seq(DOMAIN entry)
  /\ hard_entries \in Seq(DOMAIN entry)
  /\ DOMAIN flow_refs \subseteq Meter
  /\ \A x \in DOMAIN flow_refs : flow_refs[x] \subseteq DOMAIN entry
  /\ notices \in Seq([id : DOMAIN entry,
                      reason : {"DELETE", "HARD_TIMEOUT", "IDLE_TIMEOUT", "METER_DELETE"}])

(* An entry is in the list of each timeout it has and in no other, once;    *)
(* active_count, which decides whether the table is full, counts the        *)
(* entries.                                                                 *)
ListsAgree ==
  /\ \A s \in {match_entries, idle_entries, hard_entries} : IsInjective(s)
  /\ Range(idle_entries) = {i \in Live : entry[i].idle_timeout > 0}
  /\ Range(hard_entries) = {i \in Live : entry[i].remove_at > 0}
  /\ active_count = Cardinality(Live)
  /\ active_count <= max_entries

(* The first match that flow_table_lookup finds is of the highest priority  *)
(* of all that accept the packet.                                           *)
HighestPriorityWins ==
  \A p \in Packet : hits(p) # <<>> =>
    \A i \in Range(hits(p)) : entry[i].priority <= entry[Head(hits(p))].priority

(* "so if one is not removed, the rest will not be either": stopping at the *)
(* first entry that is not over leaves no expired entry in the table.       *)
SweptClean ==
  [][flow_table_timeout => \A i \in Live' : ~hard_over(i) /\ ~idle_over(i)]_vars

(* An entry is reported removed once, after it has left the table; one that *)
(* left without a report was replaced by one of the same match and          *)
(* priority.                                                                *)
NoticedOnce ==
  LET noticed == {notices[k].id : k \in DOMAIN notices}
  IN /\ \A k, l \in DOMAIN notices : notices[k].id = notices[l].id => k = l
     /\ noticed \cap Live = {}
     /\ \A i \in DOMAIN entry \ (noticed \cup Live) :
          \E j \in DOMAIN entry : /\ j > i
                                  /\ entry[j].match = entry[i].match
                                  /\ entry[j].priority = entry[i].priority

(* A meter refers to entries of the table only: none that was freed by a    *)
(* timeout, a deletion, a replacement, or another meter.                    *)
NoDanglingRefs == \A x \in DOMAIN flow_refs : flow_refs[x] \subseteq Live
=============================================================================
