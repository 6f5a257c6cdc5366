------------------------------ MODULE SettingsCache ------------------------------
(***************************************************************************)
(* The settings of the mail and the three caches in front of them: the     *)
(* value of each key (ConfigurationJdbcDao), the configuration made of     *)
(* those values (AdminServiceImpl) and the sender made of the              *)
(* configuration (MailServiceImpl).  The settings of LDAP and its provider *)
(* (DefaultLDAPProviderFactory) are kept the same way.  A save writes its  *)
(* keys one by one in a READ COMMITTED transaction and evicts entries on   *)
(* the way; a get fills the caches with what it has read, whatever was     *)
(* saved and evicted meanwhile.                                            *)
(***************************************************************************)
EXTENDS Naturals, Sequences

CONSTANTS
  Key,           \* the keys of the configuration
  GetOrder,      \* the order in which a get reads them
  SetOrder,      \* the order in which a save writes them
  Value, NoValue,
  Saved,         \* the configurations that administrators save
  NotCached,     \* the cache has no entry
  Handler        \* the threads that serve requests

ASSUME SettingsAssumption ==
  /\ \A order \in {GetOrder, SetOrder} :
       /\ order \in Seq(Key)
       /\ \A k \in Key : \E i \in DOMAIN order : order[i] = k
  /\ NoValue \notin Value
  /\ Saved \subseteq [Key -> Value]    \* the form sends an empty text for what is left out
  /\ NotCached \notin Value \cup {NoValue} \cup [Key -> Value \cup {NoValue}]

Stored   == Value \cup {NoValue}
Settings == [Key -> Stored]

VARIABLES
  db,             \* the table CONFIGURATION, as committed
  keys,           \* the cache ConfigurationKey
  configuration,  \* the entry 'mail' of the cache Configuration
  sender,         \* the entry of the cache Mail: the settings it was made of
  handlers,       \* what each handler does
  stored,         \* history: the values each key has had
  settled         \* history: no get overlapped a save since the caches last were empty

settingsVars == <<db, keys, configuration, sender, handlers, stored, settled>>

-----------------------------------------------------------------------------
(***************************************************************************)
(* What a handler does: "keys" reads the next key, "put" has read it from  *)
(* the table, "sender" makes the sender; "set" writes the next key, "end"  *)
(* has the todo list of a save: its commit and its evictions.              *)
(***************************************************************************)
Steps == {"commit", "configuration", "sender"}

\* Mutant: the cache Mail is left out of the evictions.
EndingsWithoutMail == {<<"commit", "configuration">>, <<"configuration", "commit">>}

\* The evictions follow the commit or precede it: both advices have the same order.
Endings == {<<"commit", "configuration", "sender">>, <<"configuration", "sender", "commit">>}

Work ==
  [op : {"idle", "keys", "put", "sender", "set", "end"},
   next : Nat,              \* index of the next key
   map : Settings,          \* what was read, or is saved
   read : Stored,           \* "put": the value of the next key
   forSender : BOOLEAN,     \* a get of the sender
   todo : Seq(Steps),
   alone : BOOLEAN]         \* history: a save no get has overlapped

NoSettings == [k \in Key |-> NoValue]
Begun(op, map, forSender, alone) ==
  [op |-> op, next |-> 1, map |-> map, read |-> NoValue,
   forSender |-> forSender, todo |-> <<>>, alone |-> alone]
Idle == Begun("idle", NoSettings, FALSE, FALSE)

Getting(w) == w.op \in {"keys", "put", "sender"}
Saving(w)  == w.op \in {"set", "end"}
NoGet  == \A h \in Handler : ~Getting(handlers[h])
NoSave == \A h \in Handler : ~Saving(handlers[h])

NextGet(w) == GetOrder[w.next]
NextSet(w) == SetOrder[w.next]
Pending(w, step) == \E i \in DOMAIN w.todo : w.todo[i] = step

\* A save holds the rows it has written until its transaction ends.
Locked(k) ==
  \E h \in Handler :
    \/ /\ handlers[h].op = "set"
       /\ \E i \in 1 .. handlers[h].next - 1 : i \in DOMAIN SetOrder /\ SetOrder[i] = k
    \/ handlers[h].op = "end" /\ Pending(handlers[h], "commit")

NoKeys == [k \in Key |-> NotCached]

SettingsTypeOK ==
  /\ db \in Settings
  /\ keys \in [Key -> Stored \cup {NotCached}]
  /\ {configuration, sender} \subseteq Settings \cup {NotCached}
  /\ handlers \in [Handler -> Work]
  /\ stored \in [Key -> SUBSET Stored]
  /\ settled \in BOOLEAN

SettingsInit ==
  /\ db = NoSettings /\ keys = NoKeys
  /\ configuration = NotCached /\ sender = NotCached
  /\ handlers = [h \in Handler |-> Idle]
  /\ stored = [k \in Key |-> {NoValue}]
  /\ settled = TRUE

-----------------------------------------------------------------------------
\* A get that finds no entry starts with w; the saves under way are not alone any more.
BeginGet(h, w) ==
  /\ handlers[h].op = "idle"
  /\ handlers' = [g \in Handler |->
       IF g = h THEN w ELSE [handlers[g] EXCEPT !.alone = FALSE]]
  /\ settled' = (settled /\ NoSave)
  /\ UNCHANGED <<db, keys, configuration, sender, stored>>

GetConfiguration(h) ==
  /\ configuration = NotCached
  /\ BeginGet(h, Begun("keys", NoSettings, FALSE, FALSE))

GetSender(h) ==
  /\ sender = NotCached
  /\ IF configuration = NotCached
     THEN BeginGet(h, Begun("keys", NoSettings, TRUE, FALSE))
     ELSE BeginGet(h, Begun("sender", configuration, TRUE, FALSE))

\* The next key, from its cache or from the table.
Took(w, v) ==
  [op |-> "keys", next |-> w.next + 1, map |-> [w.map EXCEPT ![NextGet(w)] = v],
   read |-> NoValue, forSender |-> w.forSender, todo |-> <<>>, alone |-> FALSE]

Reading(w, v) ==
  [op |-> "put", next |-> w.next, map |-> w.map, read |-> v,
   forSender |-> w.forSender, todo |-> <<>>, alone |-> FALSE]

GetValue(h) ==
  LET w == handlers[h] IN
  /\ w.op = "keys" /\ w.next \in DOMAIN GetOrder
  /\ handlers' = [handlers EXCEPT ![h] =
       IF keys[NextGet(w)] # NotCached THEN Took(w, keys[NextGet(w)])
       ELSE Reading(w, db[NextGet(w)])]
  /\ UNCHANGED <<db, keys, configuration, sender, stored, settled>>

PutValue(h) ==
  LET w == handlers[h] IN
  /\ w.op = "put"
  /\ keys' = [keys EXCEPT ![NextGet(w)] = w.read]
  /\ handlers' = [handlers EXCEPT ![h] = Took(w, w.read)]
  /\ UNCHANGED <<db, configuration, sender, stored, settled>>

PutConfiguration(h) ==
  LET w == handlers[h] IN
  /\ w.op = "keys" /\ w.next \notin DOMAIN GetOrder
  /\ configuration' = w.map
  /\ handlers' = [handlers EXCEPT ![h] =
       IF w.forSender THEN Begun("sender", w.map, TRUE, FALSE) ELSE Idle]
  /\ UNCHANGED <<db, keys, sender, stored, settled>>

PutSender(h) ==
  /\ handlers[h].op = "sender"
  /\ sender' = handlers[h].map
  /\ handlers' = [handlers EXCEPT ![h] = Idle]
  /\ UNCHANGED <<db, keys, configuration, stored, settled>>

\* An exception: of the table, of a value that is required, or of the provider.
GetFails(h) ==
  /\ Getting(handlers[h])
  /\ handlers' = [handlers EXCEPT ![h] = Idle]
  /\ UNCHANGED <<db, keys, configuration, sender, stored, settled>>

-----------------------------------------------------------------------------
BeginSave(h, settings) ==
  /\ handlers[h].op = "idle"
  /\ handlers' = [handlers EXCEPT ![h] =
       Begun("set", settings, FALSE, NoGet)]
  /\ settled' = (settled /\ NoGet)
  /\ UNCHANGED <<db, keys, configuration, sender, stored>>

\* Mutant: the cache keeps the value a transaction writes (@CachePut).
EvictedPut(k, v) == [keys EXCEPT ![k] = v]

\* The cache of the keys when the value v of k was written.
Evicted(k, v) == [keys EXCEPT ![k] = NotCached]

\* setValue: written, not committed, and evicted.
SetValue(h) ==
  LET w == handlers[h] IN
  /\ w.op = "set" /\ w.next \in DOMAIN SetOrder
  /\ ~Locked(NextSet(w))
  /\ keys' = Evicted(NextSet(w), w.map[NextSet(w)])
  /\ handlers' = [handlers EXCEPT ![h].next = w.next + 1]
  /\ UNCHANGED <<db, configuration, sender, stored, settled>>

Ending(w, ending) ==
  [op |-> "end", next |-> w.next, map |-> w.map, read |-> NoValue,
   forSender |-> FALSE, todo |-> ending, alone |-> w.alone]

AllSet(h) ==
  LET w == handlers[h] IN
  /\ w.op = "set" /\ w.next \notin DOMAIN SetOrder
  /\ \E ending \in Endings :
       handlers' = [handlers EXCEPT ![h] = Ending(w, ending)]
  /\ UNCHANGED <<db, keys, configuration, sender, stored, settled>>

\* The handler goes on with its todo list, after the last step of which it is idle.
\* The caches are empty when a save ends that no get has overlapped.
GoOn(h) ==
  LET w == handlers[h] IN
  /\ handlers' = [handlers EXCEPT ![h] =
       IF Len(w.todo) = 1 THEN Idle ELSE Ending(w, Tail(w.todo))]
  /\ settled' = (settled \/ (w.alone /\ Len(w.todo) = 1))

CommitSave(h) ==
  LET w == handlers[h] IN
  /\ w.op = "end" /\ Head(w.todo) = "commit"
  /\ db' = w.map
  /\ stored' = [k \in Key |-> stored[k] \cup {w.map[k]}]
  /\ GoOn(h)
  /\ UNCHANGED <<keys, configuration, sender>>

EvictConfiguration(h) ==
  /\ handlers[h].op = "end" /\ Head(handlers[h].todo) = "configuration"
  /\ configuration' = NotCached
  /\ GoOn(h)
  /\ UNCHANGED <<db, keys, sender, stored>>

EvictSender(h) ==
  /\ handlers[h].op = "end" /\ Head(handlers[h].todo) = "sender"
  /\ sender' = NotCached
  /\ GoOn(h)
  /\ UNCHANGED <<db, keys, configuration, stored>>

\* An exception before the commit: what was evicted stays evicted.
SaveFails(h) ==
  /\ \/ handlers[h].op = "set"
     \/ handlers[h].op = "end" /\ Pending(handlers[h], "commit")
  /\ handlers' = [handlers EXCEPT ![h] = Idle]
  /\ UNCHANGED <<db, keys, configuration, sender, stored, settled>>

-----------------------------------------------------------------------------
\* ehcache.xml: an entry lives for an hour at most, and leaves earlier when it is the
\* least recently used of too many.
ExpireKey(k) ==
  /\ keys[k] # NotCached
  /\ keys' = [keys EXCEPT ![k] = NotCached]
  /\ UNCHANGED <<db, configuration, sender, handlers, stored, settled>>

ExpireConfiguration ==
  /\ configuration # NotCached /\ configuration' = NotCached
  /\ UNCHANGED <<db, keys, sender, handlers, stored, settled>>

\* Mutant: the entries of the cache Mail are eternal.
ExpireSenderNever == FALSE /\ UNCHANGED settingsVars

ExpireSender ==
  /\ sender # NotCached /\ sender' = NotCached
  /\ UNCHANGED <<db, keys, configuration, handlers, stored, settled>>

\* The server crashes and restarts: the caches are in memory, the table is not.
Restart ==
  /\ keys' = NoKeys /\ configuration' = NotCached /\ sender' = NotCached
  /\ handlers' = [h \in Handler |-> Idle]
  /\ settled' = TRUE
  /\ UNCHANGED <<db, stored>>

GetStep(h) ==
  GetValue(h) \/ PutValue(h) \/ PutConfiguration(h) \/ PutSender(h) \/ GetFails(h)

SaveStep(h) ==
  \/ SetValue(h) \/ AllSet(h) \/ CommitSave(h) \/ EvictConfiguration(h) \/ EvictSender(h)
  \/ SaveFails(h)

SettingsNext ==
  \/ \E h \in Handler :
       \/ GetConfiguration(h) \/ GetSender(h) \/ GetStep(h) \/ SaveStep(h)
       \/ \E settings \in Saved : BeginSave(h, settings)
  \/ \E k \in Key : ExpireKey(k)
  \/ ExpireConfiguration \/ ExpireSender \/ Restart

\* Handlers end, and entries expire whether or not they are used.
SettingsFairness ==
  /\ \A h \in Handler : WF_settingsVars(GetStep(h)) /\ WF_settingsVars(SaveStep(h))
  /\ \A k \in Key : WF_settingsVars(ExpireKey(k))
  /\ WF_settingsVars(ExpireConfiguration) /\ WF_settingsVars(ExpireSender)

SettingsSpec == SettingsInit /\ [][SettingsNext]_settingsVars /\ SettingsFairness

-----------------------------------------------------------------------------
Fresh ==
  /\ \A k \in Key : keys[k] \in {NotCached, db[k]}
  /\ configuration \in {NotCached, db}
  /\ sender \in {NotCached, db}

\* Once the saves have ended, every cache tells what the table holds, unless a get
\* overlapped a save: the evictions of a save leave nothing that was made of former
\* values, whatever order the saves take and whichever of them fail.
QuietSettingsAreFresh == settled /\ NoSave => Fresh

\* A cached value is one its key has had: no value of a save that was rolled back, and
\* none of another key, is used, whatever gets and saves overlap.
CachedWereStored ==
  /\ \A k \in Key : keys[k] \in stored[k] \cup {NotCached}
  /\ \A settings \in {configuration, sender} \ {NotCached} :
       \A k \in Key : settings[k] \in stored[k]

\* When nobody saves any more, the entries that a race left behind expire for good.
StaleEntriesExpire == <>[]NoSave => <>[]Fresh
==================================================================================
