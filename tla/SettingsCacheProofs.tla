--------------------------- MODULE SettingsCacheProofs ---------------------------
(***************************************************************************)
(* What holds of the caches of the settings for every number of keys,      *)
(* values and handlers: a value that is cached was once stored, and when   *)
(* no get overlapped a save the caches agree with the table.               *)
(***************************************************************************)
EXTENDS SettingsCache, TLAPS

\* What may be left to do of an ending.
TodoLists ==
  {<<"commit", "configuration", "sender">>, <<"configuration", "sender">>, <<"sender">>,
   <<"configuration", "sender", "commit">>, <<"sender", "commit">>, <<"commit">>}

\* The handlers' indices and lists are those their operation needs.
Shape(w) ==
  /\ w.next >= 1
  /\ w.op = "put" => w.next \in DOMAIN GetOrder
  /\ w.op = "end" => w.todo \in TodoLists

SettingsType == SettingsTypeOK /\ \A h \in Handler : Shape(handlers[h])

-----------------------------------------------------------------------------
LEMMA KeysInOrder ==
  /\ DOMAIN GetOrder = 1 .. Len(GetOrder) /\ Len(GetOrder) \in Nat
  /\ \A i \in DOMAIN GetOrder : GetOrder[i] \in Key
  /\ DOMAIN SetOrder = 1 .. Len(SetOrder) /\ Len(SetOrder) \in Nat
  /\ \A i \in DOMAIN SetOrder : SetOrder[i] \in Key
  BY SettingsAssumption

LEMMA BegunWork ==
  ASSUME NEW op \in {"idle", "keys", "sender", "set"}, NEW m \in Settings,
         NEW s \in BOOLEAN, NEW a \in BOOLEAN
  PROVE  Begun(op, m, s, a) \in Work /\ Shape(Begun(op, m, s, a))
  BY KeysInOrder DEF Begun, Work, Shape, Stored, Steps

LEMMA BegunFields ==
  ASSUME NEW op, NEW m, NEW s, NEW a
  PROVE  /\ Begun(op, m, s, a).op = op /\ Begun(op, m, s, a).map = m
         /\ Begun(op, m, s, a).next = 1 /\ Begun(op, m, s, a).alone = a
  BY DEF Begun

LEMMA IdleWork ==
  /\ Idle \in Work /\ Shape(Idle) /\ Idle.op = "idle" /\ Idle.alone = FALSE
  /\ NoSettings \in Settings
<1>1. NoSettings \in Settings
  BY DEF NoSettings, Settings, Stored
<1> QED
  BY <1>1, BegunWork DEF Idle, Begun

LEMMA TookWork ==
  ASSUME NEW w \in Work, NEW v \in Stored, w.next \in DOMAIN GetOrder
  PROVE  /\ Took(w, v) \in Work /\ Shape(Took(w, v))
         /\ Took(w, v).op = "keys" /\ Took(w, v).next = w.next + 1
         /\ Took(w, v).map = [w.map EXCEPT ![NextGet(w)] = v]
         /\ Took(w, v).alone = FALSE
<1>1. w.next \in Nat /\ w.map \in Settings /\ w.forSender \in BOOLEAN /\ NoValue \in Stored
  BY DEF Work, Stored
<1>2. [w.map EXCEPT ![NextGet(w)] = v] \in Settings
  BY <1>1, KeysInOrder DEF Settings
<1>3. <<>> \in Seq(Steps)
  OBVIOUS
<1> QED
  BY <1>1, <1>2, <1>3, KeysInOrder DEF Took, Work, Shape

LEMMA ReadingWork ==
  ASSUME NEW w \in Work, NEW v \in Stored, w.next \in DOMAIN GetOrder
  PROVE  /\ Reading(w, v) \in Work /\ Shape(Reading(w, v))
         /\ Reading(w, v).op = "put" /\ Reading(w, v).next = w.next
         /\ Reading(w, v).map = w.map /\ Reading(w, v).read = v
         /\ Reading(w, v).alone = FALSE
<1>1. <<>> \in Seq(Steps)
  OBVIOUS
<1> QED
  BY <1>1, KeysInOrder DEF Reading, Work, Shape

\* What a todo list starts with, and the rest of it.
LEMMA TodoFacts ==
  ASSUME NEW todo \in TodoLists
  PROVE  /\ todo \in Seq(Steps)
         /\ Len(todo) # 1 => Tail(todo) \in TodoLists
<1>1. todo \in TodoLists
  OBVIOUS
<1>2. CASE todo = <<"commit", "configuration", "sender">>
  BY <1>2 DEF Steps, TodoLists
<1>3. CASE todo = <<"configuration", "sender">>
  BY <1>3 DEF Steps, TodoLists
<1>4. CASE todo = <<"sender">>
  BY <1>4 DEF Steps, TodoLists
<1>5. CASE todo = <<"configuration", "sender", "commit">>
  BY <1>5 DEF Steps, TodoLists
<1>6. CASE todo = <<"sender", "commit">>
  BY <1>6 DEF Steps, TodoLists
<1>7. CASE todo = <<"commit">>
  BY <1>7 DEF Steps, TodoLists
<1> QED
  BY <1>1, <1>2, <1>3, <1>4, <1>5, <1>6, <1>7 DEF TodoLists

LEMMA GetValueWork ==
  ASSUME NEW w \in Work, w.next \in DOMAIN GetOrder, NEW v \in Stored,
         NEW c, c # NotCached => c \in Stored
  PROVE  LET u == IF c # NotCached THEN Took(w, c) ELSE Reading(w, v)
         IN  u \in Work /\ Shape(u)
<1>1. CASE c # NotCached
  BY <1>1, TookWork
<1>2. CASE c = NotCached
  BY <1>2, ReadingWork
<1> QED
  BY <1>1, <1>2

LEMMA SetWork ==
  ASSUME NEW w \in Work, Shape(w), w.op = "set"
  PROVE  LET u == [w EXCEPT !.next = w.next + 1]
         IN  /\ u \in Work /\ Shape(u) /\ u.op = "set" /\ u.next = w.next + 1
             /\ u.map = w.map /\ u.alone = w.alone
<1>1. w.next \in Nat /\ w.next >= 1
  BY DEF Work, Shape
<1> QED
  BY <1>1 DEF Work, Shape

LEMMA EndingWork ==
  ASSUME NEW w \in Work, NEW todo \in TodoLists, w.next >= 1
  PROVE  /\ Ending(w, todo) \in Work /\ Shape(Ending(w, todo))
         /\ Ending(w, todo).op = "end" /\ Ending(w, todo).next = w.next
         /\ Ending(w, todo).map = w.map /\ Ending(w, todo).todo = todo
         /\ Ending(w, todo).alone = w.alone
<1>1. todo \in Seq(Steps)
  BY TodoFacts
<1>2. w.next \in Nat /\ w.map \in Settings /\ w.alone \in BOOLEAN /\ NoValue \in Stored
  BY DEF Work, Stored
<1>3. Ending(w, todo) \in Work
  BY <1>1, <1>2 DEF Ending, Work
<1> QED
  BY <1>3 DEF Ending, Shape

LEMMA EndingsAreTodoLists == Endings \subseteq TodoLists
  BY DEF Endings, TodoLists

\* The conditions of Pending, by list.
LEMMA PendingSteps ==
  ASSUME NEW w, w.todo \in TodoLists
  PROVE  /\ Pending(w, "commit") <=>
              w.todo \notin {<<"configuration", "sender">>, <<"sender">>}
         /\ Pending(w, "configuration") <=>
              w.todo \in {<<"commit", "configuration", "sender">>, <<"configuration", "sender">>,
                          <<"configuration", "sender", "commit">>}
         /\ Pending(w, "sender") <=> w.todo # <<"commit">>
<1> DEFINE t == w.todo
<1>1. t \in TodoLists
  OBVIOUS
<1>2. CASE t = <<"commit", "configuration", "sender">>
  BY <1>2 DEF Pending
<1>3. CASE t = <<"configuration", "sender">>
  BY <1>3 DEF Pending
<1>4. CASE t = <<"sender">>
  BY <1>4 DEF Pending
<1>5. CASE t = <<"configuration", "sender", "commit">>
  BY <1>5 DEF Pending
<1>6. CASE t = <<"sender", "commit">>
  BY <1>6 DEF Pending
<1>7. CASE t = <<"commit">>
  BY <1>7 DEF Pending
<1> QED
  BY <1>1, <1>2, <1>3, <1>4, <1>5, <1>6, <1>7 DEF TodoLists


-----------------------------------------------------------------------------
LEMMA TypeInit == SettingsInit => SettingsType
<1> SUFFICES ASSUME SettingsInit PROVE SettingsType
  OBVIOUS
<1>1. NoValue \in Stored /\ \A k \in Key : NoKeys[k] = NotCached
  BY DEF Stored, NoKeys
<1>2. keys \in [Key -> Stored \cup {NotCached}] /\ stored \in [Key -> SUBSET Stored]
  BY <1>1 DEF SettingsInit, NoKeys
<1>3. handlers \in [Handler -> Work] /\ \A h \in Handler : Shape(handlers[h])
  BY IdleWork DEF SettingsInit
<1> QED
  BY <1>2, <1>3, IdleWork DEF SettingsInit, SettingsType, SettingsTypeOK

\* One handler goes on to w, the others stay.
LEMMA HandlersType ==
  ASSUME SettingsType, NEW h \in Handler, NEW w \in Work, Shape(w),
         handlers' = [handlers EXCEPT ![h] = w]
  PROVE  /\ handlers' \in [Handler -> Work]
         /\ \A g \in Handler : Shape(handlers'[g])
         /\ handlers'[h] = w /\ \A g \in Handler \ {h} : handlers'[g] = handlers[g]
  BY DEF SettingsType, SettingsTypeOK

\* A get that starts leaves the others what they were, but for their being alone.
LEMMA BegunGet ==
  ASSUME SettingsType, NEW h \in Handler, NEW w \in Work, Shape(w), BeginGet(h, w)
  PROVE  /\ handlers' \in [Handler -> Work]
         /\ \A g \in Handler : Shape(handlers'[g])
         /\ handlers'[h] = w
         /\ \A g \in Handler \ {h} :
              /\ handlers'[g].op = handlers[g].op /\ handlers'[g].next = handlers[g].next
              /\ handlers'[g].map = handlers[g].map /\ handlers'[g].read = handlers[g].read
              /\ handlers'[g].todo = handlers[g].todo /\ handlers'[g].alone = FALSE
<1>1. ASSUME NEW g \in Handler \ {h}
      PROVE  /\ handlers'[g] \in Work
             /\ handlers'[g].op = handlers[g].op /\ handlers'[g].next = handlers[g].next
             /\ handlers'[g].map = handlers[g].map /\ handlers'[g].read = handlers[g].read
             /\ handlers'[g].todo = handlers[g].todo /\ handlers'[g].alone = FALSE
  <2>1. handlers'[g] = [handlers[g] EXCEPT !.alone = FALSE] /\ handlers[g] \in Work
    BY <1>1 DEF BeginGet, SettingsType, SettingsTypeOK
  <2> QED
    BY <2>1 DEF Work
<1>2. handlers'[h] = w
  BY DEF BeginGet
<1>3. \A g \in Handler \ {h} : Shape(handlers'[g])
  BY <1>1 DEF Shape, SettingsType
<1>4. handlers' \in [Handler -> Work]
  BY <1>1, <1>2 DEF BeginGet
<1> QED
  BY <1>1, <1>2, <1>3, <1>4

\* What GoOn makes of a handler.
LEMMA WentOn ==
  ASSUME SettingsType, NEW h \in Handler, handlers[h].op = "end", GoOn(h)
  PROVE  /\ handlers' \in [Handler -> Work]
         /\ \A g \in Handler : Shape(handlers'[g])
         /\ \A g \in Handler \ {h} : handlers'[g] = handlers[g]
         /\ settled' \in BOOLEAN
         /\ Len(handlers[h].todo) = 1 => handlers'[h] = Idle
         /\ Len(handlers[h].todo) # 1 =>
              /\ handlers'[h].op = "end" /\ handlers'[h].todo = Tail(handlers[h].todo)
              /\ handlers'[h].next = handlers[h].next /\ handlers'[h].alone = handlers[h].alone
<1> DEFINE w == handlers[h]
           u == IF Len(w.todo) = 1 THEN Idle ELSE Ending(w, Tail(w.todo))
<1>1. w \in Work /\ w.todo \in TodoLists /\ w.next >= 1
  BY DEF SettingsType, SettingsTypeOK, Shape
<1>2. u \in Work /\ Shape(u)
  BY <1>1, IdleWork, TodoFacts, EndingWork
<1>3. handlers' = [handlers EXCEPT ![h] = u]
  BY DEF GoOn
<1>4. /\ Len(w.todo) # 1 =>
           /\ u.op = "end" /\ u.todo = Tail(w.todo)
           /\ u.next = w.next /\ u.alone = w.alone
      /\ Len(w.todo) = 1 => u = Idle
  BY <1>1, TodoFacts, EndingWork
<1>5. settled' \in BOOLEAN
  BY <1>1 DEF GoOn, SettingsType, SettingsTypeOK
<1> HIDE DEF u
<1> QED
  BY <1>2, <1>3, <1>4, <1>5, HandlersType

\* The tables, caches and histories that no step of a handler spoils.
LEMMA TypeGet ==
  ASSUME SettingsType, NEW h \in Handler,
         GetConfiguration(h) \/ GetSender(h) \/ GetStep(h)
  PROVE  SettingsType'
<1> USE DEF SettingsType, SettingsTypeOK
<1>1. ASSUME NEW w \in Work, Shape(w), BeginGet(h, w)
      PROVE  SettingsType'
  <2>1. handlers' \in [Handler -> Work] /\ \A g \in Handler : Shape(handlers'[g])
    BY <1>1, BegunGet
  <2> QED
    BY <1>1, <2>1 DEF BeginGet
<1>2. CASE GetConfiguration(h)
  BY <1>1, <1>2, IdleWork, BegunWork DEF GetConfiguration
<1>3. CASE GetSender(h)
  BY <1>1, <1>3, IdleWork, BegunWork DEF GetSender
<1> DEFINE w == handlers[h]
<1>4. w \in Work /\ Shape(w)
  OBVIOUS
<1>5. CASE GetValue(h)
  <2>1. w.next \in DOMAIN GetOrder /\ NextGet(w) \in Key
    BY <1>5, KeysInOrder DEF GetValue, NextGet
  <2>2. /\ db[NextGet(w)] \in Stored
        /\ keys[NextGet(w)] # NotCached => keys[NextGet(w)] \in Stored
    BY <2>1 DEF Settings
  <2> DEFINE c == keys[NextGet(w)]
             v == db[NextGet(w)]
             u == IF c # NotCached THEN Took(w, c) ELSE Reading(w, v)
  <2>3. u \in Work /\ Shape(u)
    <3>1. v \in Stored /\ (c # NotCached => c \in Stored) /\ w \in Work
      BY <1>4, <2>2
    <3> HIDE DEF w, c, v
    <3> QED
      BY <2>1, <3>1, GetValueWork
  <2>4. handlers' = [handlers EXCEPT ![h] = u]
    BY <1>5 DEF GetValue
  <2> HIDE DEF u
  <2> QED
    BY <1>5, <2>3, <2>4, HandlersType DEF GetValue
<1>6. CASE PutValue(h)
  <2>1. w.next \in DOMAIN GetOrder /\ NextGet(w) \in Key /\ w.read \in Stored
    BY <1>4, <1>6, KeysInOrder DEF PutValue, NextGet, Shape, Work
  <2>2. Took(w, w.read) \in Work /\ Shape(Took(w, w.read))
    BY <1>4, <2>1, TookWork
  <2>3. keys' \in [Key -> Stored \cup {NotCached}]
    BY <1>6, <2>1 DEF PutValue
  <2> QED
    BY <1>6, <2>2, <2>3, HandlersType DEF PutValue
<1>7. CASE PutConfiguration(h)
  <2>1. w.map \in Settings
    BY <1>4 DEF Work
  <2> DEFINE u == IF w.forSender THEN Begun("sender", w.map, TRUE, FALSE) ELSE Idle
  <2>2. u \in Work /\ Shape(u)
    BY <2>1, IdleWork, BegunWork
  <2>3. handlers' = [handlers EXCEPT ![h] = u]
    BY <1>7 DEF PutConfiguration
  <2> HIDE DEF u
  <2> QED
    BY <1>7, <2>1, <2>2, <2>3, HandlersType DEF PutConfiguration
<1>8. CASE PutSender(h)
  <2>1. w.map \in Settings
    BY <1>4 DEF Work
  <2> QED
    BY <1>8, <2>1, IdleWork, HandlersType DEF PutSender
<1>9. CASE GetFails(h)
  BY <1>9, IdleWork, HandlersType DEF GetFails
<1> QED
  BY <1>2, <1>3, <1>5, <1>6, <1>7, <1>8, <1>9 DEF GetStep

LEMMA TypeSave ==
  ASSUME SettingsType, NEW h \in Handler,
         SaveStep(h) \/ \E settings \in Saved : BeginSave(h, settings)
  PROVE  SettingsType'
<1> USE DEF SettingsType, SettingsTypeOK
<1> DEFINE w == handlers[h]
<1>1. w \in Work /\ Shape(w)
  OBVIOUS
<1>2. ASSUME NEW settings \in Saved, BeginSave(h, settings)
      PROVE  SettingsType'
  <2>1. settings \in Settings /\ NoGet \in BOOLEAN
    BY SettingsAssumption DEF Settings, Stored, NoGet
  <2>2. LET u == Begun("set", settings, FALSE, NoGet) IN u \in Work /\ Shape(u)
    BY <2>1, BegunWork
  <2>3. settled' \in BOOLEAN
    BY <1>2, <2>1 DEF BeginSave
  <2> QED
    BY <1>2, <2>2, <2>3, HandlersType DEF BeginSave
<1>3. CASE SetValue(h)
  <2>1. NextSet(w) \in Key
    BY <1>3, KeysInOrder DEF SetValue, NextSet
  <2>2. keys' \in [Key -> Stored \cup {NotCached}]
    BY <1>3, <2>1 DEF SetValue, Evicted
  <2> DEFINE u == [w EXCEPT !.next = w.next + 1]
  <2>3. u \in Work /\ Shape(u)
    <3>1. w.op = "set"
      BY <1>3 DEF SetValue
    <3> HIDE DEF w
    <3> QED
      BY <1>1, <3>1, SetWork
  <2>4. handlers' = [handlers EXCEPT ![h] = [w EXCEPT !.next = w.next + 1]]
    BY <1>3 DEF SetValue
  <2> QED
    BY <1>3, <2>2, <2>3, <2>4, HandlersType DEF SetValue
<1>4. CASE AllSet(h)
  <2>1. PICK ending \in Endings : handlers' = [handlers EXCEPT ![h] = Ending(w, ending)]
    BY <1>4 DEF AllSet
  <2>2. Ending(w, ending) \in Work /\ Shape(Ending(w, ending))
    BY <1>1, EndingWork, EndingsAreTodoLists DEF Shape
  <2> QED
    BY <1>4, <2>1, <2>2, HandlersType DEF AllSet
<1>5. CASE CommitSave(h)
  <2>1. w.map \in Settings
    BY <1>1 DEF Work
  <2>2. stored' \in [Key -> SUBSET Stored]
    BY <1>5, <2>1 DEF CommitSave, Settings
  <2>3. db' \in Settings
    BY <1>5, <2>1 DEF CommitSave
  <2> QED
    BY <1>5, <2>2, <2>3, WentOn DEF CommitSave
<1>6. CASE EvictConfiguration(h)
  BY <1>6, WentOn DEF EvictConfiguration
<1>7. CASE EvictSender(h)
  BY <1>7, WentOn DEF EvictSender
<1>8. CASE SaveFails(h)
  BY <1>8, IdleWork, HandlersType DEF SaveFails
<1> QED
  BY <1>2, <1>3, <1>4, <1>5, <1>6, <1>7, <1>8 DEF SaveStep

LEMMA TypeStep == SettingsType /\ [SettingsNext]_settingsVars => SettingsType'
<1> SUFFICES ASSUME SettingsType, [SettingsNext]_settingsVars PROVE SettingsType'
  OBVIOUS
<1>1. ASSUME NEW h \in Handler,
             \/ GetConfiguration(h) \/ GetSender(h) \/ GetStep(h) \/ SaveStep(h)
             \/ \E settings \in Saved : BeginSave(h, settings)
      PROVE  SettingsType'
  BY <1>1, TypeGet, TypeSave
<1>2. CASE \E k \in Key : ExpireKey(k)
  BY <1>2 DEF ExpireKey, SettingsType, SettingsTypeOK
<1>3. CASE ExpireConfiguration \/ ExpireSender
  BY <1>3 DEF ExpireConfiguration, ExpireSender, SettingsType, SettingsTypeOK
<1>4. CASE Restart
  <2>1. keys' \in [Key -> Stored \cup {NotCached}]
    BY <1>4 DEF Restart, NoKeys
  <2>2. handlers' \in [Handler -> Work] /\ \A h \in Handler : Shape(handlers'[h])
    BY <1>4, IdleWork DEF Restart
  <2> QED
    BY <1>4, <2>1, <2>2 DEF Restart, SettingsType, SettingsTypeOK
<1>5. CASE UNCHANGED settingsVars
  BY <1>5 DEF settingsVars, SettingsType, SettingsTypeOK
<1> QED
  BY <1>1, <1>2, <1>3, <1>4, <1>5 DEF SettingsNext

\* The table, the caches and the handlers keep their types.
THEOREM SettingsTypeCorrect == SettingsSpec => []SettingsType
  BY TypeInit, TypeStep, PTL DEF SettingsSpec

-----------------------------------------------------------------------------
\* What a get has read so far was stored, as what it found in the caches was.
MapStored(m) == \A k \in Key : m[k] \in stored[k]

WorkStored(w) ==
  /\ Getting(w) => MapStored(w.map)
  /\ w.op = "put" => w.read \in stored[NextGet(w)]

StoredInv ==
  /\ \A k \in Key : NoValue \in stored[k]
  /\ MapStored(db)
  /\ \A k \in Key : keys[k] \in stored[k] \cup {NotCached}
  /\ configuration # NotCached => MapStored(configuration)
  /\ sender # NotCached => MapStored(sender)
  /\ \A h \in Handler : WorkStored(handlers[h])

LEMMA StoredInit == SettingsInit => StoredInv
<1> SUFFICES ASSUME SettingsInit PROVE StoredInv
  OBVIOUS
<1>1. \A h \in Handler : WorkStored(handlers[h])
  BY IdleWork DEF SettingsInit, WorkStored, Getting
<1> QED
  BY <1>1 DEF SettingsInit, StoredInv, MapStored, NoSettings, NoKeys

\* A step of one handler that leaves the histories alone.
LEMMA StoredWork ==
  ASSUME SettingsType, StoredInv, NEW h \in Handler, UNCHANGED <<db, stored>>,
         \A g \in Handler \ {h} :
           /\ handlers'[g].op = handlers[g].op /\ handlers'[g].next = handlers[g].next
           /\ handlers'[g].map = handlers[g].map /\ handlers'[g].read = handlers[g].read,
         WorkStored(handlers[h])',
         \A k \in Key : keys'[k] \in stored[k] \cup {NotCached},
         configuration' # NotCached => MapStored(configuration'),
         sender' # NotCached => MapStored(sender')
  PROVE  StoredInv'
<1>1. ASSUME NEW g \in Handler \ {h} PROVE WorkStored(handlers[g])'
  BY <1>1 DEF StoredInv, WorkStored, Getting, MapStored, NextGet
<1> QED
  BY <1>1 DEF StoredInv, MapStored

LEMMA StoredGet ==
  ASSUME SettingsType, StoredInv, NEW h \in Handler,
         GetConfiguration(h) \/ GetSender(h) \/ GetStep(h)
  PROVE  StoredInv'
<1> DEFINE w == handlers[h]
<1>0. w \in Work /\ Shape(w) /\ WorkStored(w)
  BY DEF SettingsType, SettingsTypeOK, StoredInv
<1>1. MapStored(NoSettings)
  BY DEF MapStored, NoSettings, StoredInv
<1>2. ASSUME NEW m \in Settings, MapStored(m), NEW s \in BOOLEAN, NEW op \in {"keys", "sender"},
             BeginGet(h, Begun(op, m, s, FALSE))
      PROVE  StoredInv'
  <2> DEFINE u == Begun(op, m, s, FALSE)
  <2>1. /\ u \in Work /\ Shape(u)
        /\ u.op = op /\ u.map = m
    <3>1. u \in Work /\ Shape(u)
      BY <1>2, BegunWork
    <3>2. u.op = op /\ u.map = m
      BY DEF Begun
    <3> QED
      BY <3>1, <3>2
  <2> HIDE DEF u
  <2>2. /\ handlers'[h] = u
        /\ \A g \in Handler \ {h} :
             /\ handlers'[g].op = handlers[g].op /\ handlers'[g].next = handlers[g].next
             /\ handlers'[g].map = handlers[g].map /\ handlers'[g].read = handlers[g].read
    BY <1>2, <2>1, BegunGet DEF u
  <2>3. UNCHANGED <<db, keys, configuration, sender, stored>>
    BY <1>2 DEF BeginGet
  <2>4. WorkStored(handlers[h])'
    BY <1>2, <2>1, <2>2, <2>3 DEF WorkStored, MapStored
  <2> QED
    BY <2>2, <2>3, <2>4, StoredWork DEF StoredInv
<1>3. ASSUME NEW u \in Work, Shape(u), handlers' = [handlers EXCEPT ![h] = u],
             WorkStored(u), UNCHANGED <<db, stored>>,
             \A k \in Key : keys'[k] \in stored[k] \cup {NotCached},
             configuration' # NotCached => MapStored(configuration'),
             sender' # NotCached => MapStored(sender')
      PROVE  StoredInv'
  <2>1. handlers'[h] = u /\ \A g \in Handler \ {h} : handlers'[g] = handlers[g]
    BY <1>3, HandlersType
  <2>2. WorkStored(handlers[h])'
    BY <1>3, <2>1 DEF WorkStored, MapStored
  <2> QED
    BY <1>3, <2>1, <2>2, StoredWork
<1>4. WorkStored(Idle)
  BY IdleWork DEF WorkStored, Getting
<1>5. CASE GetConfiguration(h)
  BY <1>1, <1>2, <1>5, IdleWork DEF GetConfiguration
<1>6. CASE GetSender(h)
  <2>1. CASE configuration = NotCached
    BY <1>1, <1>2, <1>6, <2>1, IdleWork DEF GetSender
  <2>2. CASE configuration # NotCached
    <3>1. configuration \in Settings /\ MapStored(configuration)
      BY <2>2 DEF SettingsType, SettingsTypeOK, StoredInv
    <3> QED
      BY <1>2, <1>6, <2>2, <3>1 DEF GetSender
  <2> QED
    BY <2>1, <2>2
<1>7. CASE GetValue(h)
  <2> DEFINE k == NextGet(w)
             c == keys[k]
             v == db[k]
             u == IF c # NotCached THEN Took(w, c) ELSE Reading(w, v)
  <2>1. w.op = "keys" /\ w.next \in DOMAIN GetOrder /\ k \in Key
    BY <1>7, KeysInOrder DEF GetValue, NextGet
  <2>2. /\ v \in Stored /\ v \in stored[k]
        /\ c # NotCached => c \in Stored /\ c \in stored[k]
    BY <2>1 DEF SettingsType, SettingsTypeOK, Settings, StoredInv, MapStored
  <2>3. handlers' = [handlers EXCEPT ![h] = u]
        /\ UNCHANGED <<db, keys, configuration, sender, stored>>
    BY <1>7 DEF GetValue
  <2>4. MapStored(w.map) /\ w.map \in Settings
    BY <1>0, <2>1 DEF WorkStored, Getting, Work
  <2>5. u \in Work /\ Shape(u) /\ WorkStored(u)
    <3> HIDE DEF w, c, v
    <3>1. CASE c # NotCached
      <4>1. Took(w, c).op = "keys" /\ Took(w, c).map = [w.map EXCEPT ![k] = c]
            /\ Took(w, c) \in Work /\ Shape(Took(w, c))
        BY <1>0, <2>1, <2>2, <3>1, TookWork
      <4>2. MapStored([w.map EXCEPT ![k] = c])
        BY <2>1, <2>2, <2>4, <3>1 DEF MapStored, Settings
      <4> QED
        BY <3>1, <4>1, <4>2 DEF WorkStored
    <3>2. CASE c = NotCached
      <4>1. /\ Reading(w, v) \in Work /\ Shape(Reading(w, v))
            /\ Reading(w, v).op = "put" /\ Reading(w, v).next = w.next
            /\ Reading(w, v).map = w.map /\ Reading(w, v).read = v
        BY <1>0, <2>1, <2>2, ReadingWork
      <4>2. NextGet(Reading(w, v)) = k
        BY <4>1 DEF NextGet
      <4> QED
        BY <2>2, <2>4, <3>2, <4>1, <4>2 DEF WorkStored
    <3> QED
      BY <3>1, <3>2
  <2> HIDE DEF u
  <2> QED
    BY <1>3, <2>3, <2>5 DEF StoredInv
<1>8. CASE PutValue(h)
  <2> DEFINE k == NextGet(w)
             v == w.read
             u == Took(w, v)
  <2>1. w.op = "put" /\ w.next \in DOMAIN GetOrder /\ k \in Key /\ v \in Stored /\ v \in stored[k]
    BY <1>0, <1>8, KeysInOrder DEF PutValue, NextGet, Shape, Work, WorkStored
  <2>2. MapStored(w.map) /\ w.map \in Settings
    BY <1>0, <2>1 DEF WorkStored, Getting, Work
  <2>3. u \in Work /\ Shape(u) /\ u.op = "keys" /\ u.map = [w.map EXCEPT ![k] = v]
    BY <1>0, <2>1, TookWork
  <2>4. WorkStored(u)
    BY <2>1, <2>2, <2>3 DEF WorkStored, MapStored, Settings
  <2>5. handlers' = [handlers EXCEPT ![h] = u] /\ keys' = [keys EXCEPT ![k] = v]
        /\ UNCHANGED <<db, configuration, sender, stored>>
    BY <1>8 DEF PutValue
  <2>6. \A j \in Key : keys'[j] \in stored[j] \cup {NotCached}
    BY <2>1, <2>5 DEF StoredInv, SettingsType, SettingsTypeOK
  <2> HIDE DEF u
  <2> QED
    BY <1>3, <2>3, <2>4, <2>5, <2>6 DEF StoredInv
<1>9. CASE PutConfiguration(h)
  <2> DEFINE u == IF w.forSender THEN Begun("sender", w.map, TRUE, FALSE) ELSE Idle
  <2>1. w.map \in Settings /\ MapStored(w.map)
    BY <1>0, <1>9 DEF PutConfiguration, WorkStored, Getting, Work
  <2>2. u \in Work /\ Shape(u) /\ WorkStored(u)
    <3> DEFINE b == Begun("sender", w.map, TRUE, FALSE)
    <3>1. b \in Work /\ Shape(b)
      BY <2>1, BegunWork
    <3>2. b.op = "sender" /\ b.map = w.map
      BY DEF Begun
    <3>3. WorkStored(b)
      BY <2>1, <3>2 DEF WorkStored
    <3>4. u = b \/ u = Idle
      <4>1. CASE w.forSender
        BY <4>1
      <4>2. CASE ~w.forSender
        BY <4>2
      <4> QED
        BY <4>1, <4>2
    <3> HIDE DEF b, u
    <3> QED
      BY <1>4, <3>1, <3>3, <3>4, IdleWork
  <2>3. handlers' = [handlers EXCEPT ![h] = u] /\ configuration' = w.map
        /\ UNCHANGED <<db, keys, sender, stored>>
    BY <1>9 DEF PutConfiguration
  <2> HIDE DEF u
  <2> QED
    BY <1>3, <2>1, <2>2, <2>3 DEF StoredInv
<1>10. CASE PutSender(h)
  <2>1. MapStored(w.map)
    BY <1>0, <1>10 DEF PutSender, WorkStored, Getting
  <2> QED
    BY <1>3, <1>4, <1>10, <2>1, IdleWork DEF PutSender, StoredInv
<1>11. CASE GetFails(h)
  BY <1>3, <1>4, <1>11, IdleWork DEF GetFails, StoredInv
<1> QED
  BY <1>5, <1>6, <1>7, <1>8, <1>9, <1>10, <1>11 DEF GetStep

LEMMA StoredSave ==
  ASSUME SettingsType, StoredInv, NEW h \in Handler,
         SaveStep(h) \/ \E settings \in Saved : BeginSave(h, settings)
  PROVE  StoredInv'
<1> DEFINE w == handlers[h]
<1>1. ASSUME \A k \in Key : stored[k] \subseteq stored'[k], MapStored(db)',
             \A k \in Key : keys'[k] \in {keys[k], NotCached},
             configuration' \in {configuration, NotCached}, sender' \in {sender, NotCached},
             ~Getting(handlers[h])', \A g \in Handler \ {h} : handlers'[g] = handlers[g]
      PROVE  StoredInv'
  <2>1. ASSUME NEW g \in Handler PROVE WorkStored(handlers[g])'
    <3>1. CASE g = h
      BY <1>1, <3>1 DEF WorkStored, Getting
    <3>2. CASE g # h
      <4>1. handlers'[g] = handlers[g] /\ WorkStored(handlers[g]) /\ Shape(handlers[g])
        BY <1>1, <3>2 DEF StoredInv, SettingsType
      <4>2. handlers[g].op = "put" => NextGet(handlers[g]) \in Key
        BY <4>1, KeysInOrder DEF Shape, NextGet
      <4> QED
        BY <1>1, <4>1, <4>2 DEF WorkStored, MapStored, NextGet, Getting
    <3> QED
      BY <3>1, <3>2
  <2>2. \A m : MapStored(m) => MapStored(m)'
    BY <1>1 DEF MapStored
  <2>3. /\ configuration' # NotCached => MapStored(configuration)'
        /\ sender' # NotCached => MapStored(sender)'
    BY <1>1 DEF StoredInv, MapStored
  <2> QED
    BY <1>1, <2>1, <2>3 DEF StoredInv
<1>2. MapStored(db) /\ (UNCHANGED <<db, stored>> => MapStored(db)')
  BY DEF StoredInv, MapStored
<1>3. ~Getting(Idle)
  BY IdleWork DEF Getting
<1>4. ASSUME NEW settings \in Saved, BeginSave(h, settings) PROVE StoredInv'
  <2>1. ~Getting(Begun("set", settings, FALSE, NoGet))
    BY DEF Getting, Begun
  <2>2. handlers'[h] = Begun("set", settings, FALSE, NoGet)
        /\ \A g \in Handler \ {h} : handlers'[g] = handlers[g]
    BY <1>4 DEF BeginSave, SettingsType, SettingsTypeOK
  <2> QED
    BY <1>1, <1>2, <1>4, <2>1, <2>2 DEF BeginSave, Getting
<1>5. CASE SetValue(h)
  <2>1. NextSet(w) \in Key
    BY <1>5, KeysInOrder DEF SetValue, NextSet
  <2>2. \A k \in Key : keys'[k] \in {keys[k], NotCached}
    BY <1>5, <2>1 DEF SetValue, Evicted, SettingsType, SettingsTypeOK
  <2> DEFINE u == [w EXCEPT !.next = w.next + 1]
  <2>3. u.op = "set"
    <3>1. w \in Work /\ Shape(w) /\ w.op = "set"
      BY <1>5 DEF SetValue, SettingsType, SettingsTypeOK
    <3> HIDE DEF w
    <3> QED
      BY <3>1, SetWork
  <2>4. handlers' = [handlers EXCEPT ![h] = u]
    BY <1>5 DEF SetValue
  <2> HIDE DEF u
  <2>5. ~Getting(handlers[h])' /\ \A g \in Handler \ {h} : handlers'[g] = handlers[g]
    BY <2>3, <2>4 DEF Getting, SettingsType, SettingsTypeOK
  <2> QED
    BY <1>1, <1>2, <1>5, <2>2, <2>5 DEF SetValue
<1>6. CASE AllSet(h)
  <2>1. PICK ending \in Endings : handlers' = [handlers EXCEPT ![h] = Ending(w, ending)]
    BY <1>6 DEF AllSet
  <2>2. Ending(w, ending).op = "end"
    BY DEF Ending
  <2>3. ~Getting(handlers[h])' /\ \A g \in Handler \ {h} : handlers'[g] = handlers[g]
    BY <2>1, <2>2 DEF Getting, SettingsType, SettingsTypeOK
  <2> QED
    BY <1>1, <1>2, <1>6, <2>3 DEF AllSet
<1>7. ASSUME w.op = "end", GoOn(h)
      PROVE  ~Getting(handlers[h])' /\ \A g \in Handler \ {h} : handlers'[g] = handlers[g]
  BY <1>3, <1>7, WentOn, IdleWork DEF Getting
<1>8. CASE CommitSave(h)
  <2>1. \A k \in Key : stored'[k] = stored[k] \cup {w.map[k]}
    BY <1>8 DEF CommitSave
  <2>2. MapStored(db)'
    BY <1>8, <2>1 DEF CommitSave, MapStored
  <2> QED
    BY <1>1, <1>7, <1>8, <2>1, <2>2 DEF CommitSave
<1>9. CASE EvictConfiguration(h)
  BY <1>1, <1>2, <1>7, <1>9 DEF EvictConfiguration
<1>10. CASE EvictSender(h)
  BY <1>1, <1>2, <1>7, <1>10 DEF EvictSender
<1>11. CASE SaveFails(h)
  <2>1. ~Getting(handlers[h])' /\ \A g \in Handler \ {h} : handlers'[g] = handlers[g]
    BY <1>3, <1>11, IdleWork DEF SaveFails, SettingsType, SettingsTypeOK, Getting
  <2> QED
    BY <1>1, <1>2, <1>11, <2>1 DEF SaveFails
<1> QED
  BY <1>4, <1>5, <1>6, <1>8, <1>9, <1>10, <1>11 DEF SaveStep

LEMMA StoredStep ==
  SettingsType /\ StoredInv /\ [SettingsNext]_settingsVars => StoredInv'
<1> SUFFICES ASSUME SettingsType, StoredInv, [SettingsNext]_settingsVars PROVE StoredInv'
  OBVIOUS
<1> USE DEF StoredInv, MapStored, WorkStored, Getting, NextGet
<1>1. ASSUME NEW h \in Handler,
             \/ GetConfiguration(h) \/ GetSender(h) \/ GetStep(h) \/ SaveStep(h)
             \/ \E settings \in Saved : BeginSave(h, settings)
      PROVE  StoredInv'
  BY <1>1, StoredGet, StoredSave
<1>2. CASE \E k \in Key : ExpireKey(k)
  BY <1>2 DEF ExpireKey, SettingsType, SettingsTypeOK
<1>3. CASE ExpireConfiguration \/ ExpireSender
  BY <1>3 DEF ExpireConfiguration, ExpireSender
<1>4. CASE Restart
  BY <1>4, IdleWork DEF Restart, NoKeys
<1>5. CASE UNCHANGED settingsVars
  BY <1>5 DEF settingsVars
<1> QED
  BY <1>1, <1>2, <1>3, <1>4, <1>5 DEF SettingsNext

\* Each value of the caches is one its key has had, whatever overlaps or fails.
THEOREM CachedStored == SettingsSpec => []CachedWereStored
<1>1. StoredInv => CachedWereStored
  BY DEF StoredInv, CachedWereStored, MapStored
<1> QED
  BY <1>1, TypeInit, TypeStep, StoredInit, StoredStep, PTL DEF SettingsSpec

-----------------------------------------------------------------------------
AllEmpty == /\ \A k \in Key : keys[k] = NotCached
            /\ configuration = NotCached /\ sender = NotCached

\* The entries that a save w which no get overlaps has evicted are not there.
Emptied(w) ==
  /\ \A i \in DOMAIN SetOrder :
       (w.op = "set" /\ i < w.next) \/ w.op = "end" => keys[SetOrder[i]] = NotCached
  /\ w.op = "end" /\ ~Pending(w, "configuration") => configuration = NotCached
  /\ w.op = "end" /\ ~Pending(w, "sender") => sender = NotCached

\* A save that has committed and has this entry still to evict.
Evicting(w, step) == w.op = "end" /\ ~Pending(w, "commit") /\ Pending(w, step)

\* A get has read nothing but what the table holds.
ReadsTable(w) ==
  /\ w.op \in {"keys", "put"} =>
       \A i \in DOMAIN GetOrder : i < w.next => w.map[GetOrder[i]] = db[GetOrder[i]]
  /\ w.op = "put" => w.read = db[NextGet(w)]
  /\ w.op = "sender" => w.map = db

\* As long as no get overlaps a save, what disagrees with the table is about to be evicted.
Settled ==
  /\ NoSave \/ NoGet
  /\ \A h \in Handler : Saving(handlers[h]) /\ ~handlers[h].alone => AllEmpty
  /\ \A k \in Key : keys[k] \in {NotCached, db[k]}
  /\ \/ configuration \in {NotCached, db}
     \/ \E h \in Handler : Evicting(handlers[h], "configuration")
  /\ \/ sender \in {NotCached, db}
     \/ \E h \in Handler : Evicting(handlers[h], "sender")
  /\ \A h \in Handler : ReadsTable(handlers[h])

Alone ==
  \A h \in Handler :
    Saving(handlers[h]) /\ handlers[h].alone => NoGet /\ Emptied(handlers[h])

FreshInv == Alone /\ (settled => Settled)

LEMMA FreshInit == SettingsInit => FreshInv
<1> SUFFICES ASSUME SettingsInit PROVE FreshInv
  OBVIOUS
<1>1. \A h \in Handler : handlers[h].op = "idle"
  BY IdleWork DEF SettingsInit
<1>2. Alone
  BY <1>1 DEF Alone, Saving
<1>3. Settled
  BY <1>1 DEF SettingsInit, Settled, NoSave, Saving, ReadsTable, NoKeys
<1> QED
  BY <1>2, <1>3 DEF FreshInv

\* A get that is under way: no save is alone, and none is under way when all is settled.
LEMMA Overlapping ==
  ASSUME FreshInv, NEW h \in Handler, Getting(handlers[h])
  PROVE  /\ \A g \in Handler : Saving(handlers[g]) => handlers[g].alone # TRUE
         /\ settled =>
              /\ NoSave
              /\ \A k \in Key : keys[k] \in {NotCached, db[k]}
              /\ configuration \in {NotCached, db} /\ sender \in {NotCached, db}
              /\ \A g \in Handler : ReadsTable(handlers[g])
<1>1. ~NoGet
  BY DEF NoGet
<1>2. ASSUME settled PROVE NoSave /\ Settled
  BY <1>1, <1>2 DEF FreshInv, Settled
<1>3. ASSUME NoSave, NEW g \in Handler, NEW step PROVE ~Evicting(handlers[g], step)
  BY <1>3 DEF NoSave, Evicting, Saving
<1> QED
  BY <1>1, <1>2, <1>3 DEF FreshInv, Alone, Settled

LEMMA GetFrame ==
  ASSUME FreshInv, NEW h \in Handler, Getting(handlers[h]),
         ~Saving(handlers[h])', \A g \in Handler \ {h} : handlers'[g] = handlers[g],
         UNCHANGED <<db, settled>>,
         settled => /\ \A k \in Key : keys'[k] \in {NotCached, db[k]}
                    /\ configuration' \in {NotCached, db} /\ sender' \in {NotCached, db}
                    /\ ReadsTable(handlers[h])'
  PROVE  FreshInv'
<1>1. Alone'
  <2> SUFFICES ASSUME NEW g \in Handler, Saving(handlers[g])', handlers'[g].alone
               PROVE  FALSE
    BY DEF Alone
  <2> QED
    BY Overlapping DEF Saving
<1>2. ASSUME settled PROVE Settled'
  <2>1. NoSave'
    BY <1>2, Overlapping DEF NoSave, Saving
  <2>2. ASSUME NEW g \in Handler \ {h} PROVE ReadsTable(handlers[g])'
    <3>1. ReadsTable(handlers[g]) /\ handlers'[g] = handlers[g]
      BY <1>2, Overlapping
    <3> QED
      BY <3>1 DEF ReadsTable, NextGet
  <2> QED
    BY <1>2, <2>1, <2>2 DEF Settled, NoSave
<1> QED
  BY <1>1, <1>2 DEF FreshInv

LEMMA FreshBeginGet ==
  ASSUME SettingsType, FreshInv, NEW h \in Handler, NEW w \in Work, Shape(w),
         BeginGet(h, w), w.op \in {"keys", "sender"}, w.next = 1,
         w.op = "sender" => w.map = configuration /\ configuration # NotCached
  PROVE  FreshInv'
<1>1. /\ handlers'[h] = w
      /\ \A g \in Handler \ {h} :
           /\ handlers'[g].op = handlers[g].op /\ handlers'[g].next = handlers[g].next
           /\ handlers'[g].map = handlers[g].map /\ handlers'[g].read = handlers[g].read
           /\ handlers'[g].alone = FALSE
  BY BegunGet
<1>2. UNCHANGED <<db, keys, configuration, sender>> /\ settled' = (settled /\ NoSave)
  BY DEF BeginGet
<1>3. Alone'
  BY <1>1 DEF Alone, Saving
<1>4. ASSUME settled, NoSave PROVE Settled'
  <2>1. NoSave'
    BY <1>1, <1>4 DEF NoSave, Saving
  <2>2. Settled
    BY <1>4 DEF FreshInv
  <2>3. configuration \in {NotCached, db} /\ sender \in {NotCached, db}
    BY <1>4, <2>2 DEF Settled, NoSave, Saving, Evicting
  <2>4. ReadsTable(handlers[h])'
    BY <1>1, <1>2, <2>3, KeysInOrder DEF ReadsTable
  <2>5. \A g \in Handler \ {h} : ReadsTable(handlers[g])'
    BY <1>1, <1>2, <2>2 DEF Settled, ReadsTable, NextGet
  <2> QED
    BY <1>2, <2>1, <2>2, <2>3, <2>4, <2>5 DEF Settled, NoSave
<1> QED
  BY <1>2, <1>3, <1>4 DEF FreshInv

LEMMA FreshGet ==
  ASSUME SettingsType, FreshInv, NEW h \in Handler,
         GetConfiguration(h) \/ GetSender(h) \/ GetStep(h)
  PROVE  FreshInv'
<1> DEFINE w == handlers[h]
<1>0. w \in Work /\ Shape(w)
  BY DEF SettingsType, SettingsTypeOK
<1>1. ASSUME NEW u, handlers' = [handlers EXCEPT ![h] = u], ~Saving(u), Getting(w),
             UNCHANGED <<db, settled>>,
             settled => /\ \A k \in Key : keys'[k] \in {NotCached, db[k]}
                        /\ configuration' \in {NotCached, db} /\ sender' \in {NotCached, db}
                        /\ ReadsTable(u)
      PROVE  FreshInv'
  <2>1. handlers'[h] = u /\ \A g \in Handler \ {h} : handlers'[g] = handlers[g]
    BY <1>1 DEF SettingsType, SettingsTypeOK
  <2>2. ReadsTable(u) => ReadsTable(handlers[h])'
    BY <1>1, <2>1 DEF ReadsTable
  <2> QED
    BY <1>1, <2>1, <2>2, GetFrame
<1>2. ~Saving(Idle) /\ ReadsTable(Idle)
  BY IdleWork DEF Saving, ReadsTable
<1>3. CASE GetConfiguration(h)
  <2> DEFINE u == Begun("keys", NoSettings, FALSE, FALSE)
  <2>1. u \in Work /\ Shape(u)
    BY IdleWork, BegunWork
  <2>2. u.op = "keys" /\ u.next = 1
    BY DEF Begun
  <2>3. BeginGet(h, u)
    BY <1>3 DEF GetConfiguration
  <2> HIDE DEF u
  <2> QED
    BY <2>1, <2>2, <2>3, FreshBeginGet
<1>4. CASE GetSender(h)
  <2>1. CASE configuration = NotCached
    <3> DEFINE u == Begun("keys", NoSettings, TRUE, FALSE)
    <3>1. u \in Work /\ Shape(u)
      BY IdleWork, BegunWork
    <3>2. u.op = "keys" /\ u.next = 1
      BY DEF Begun
    <3>3. BeginGet(h, u)
      BY <1>4, <2>1 DEF GetSender
    <3> HIDE DEF u
    <3> QED
      BY <3>1, <3>2, <3>3, FreshBeginGet
  <2>2. CASE configuration # NotCached
    <3> DEFINE u == Begun("sender", configuration, TRUE, FALSE)
    <3>1. u \in Work /\ Shape(u)
      BY <2>2, BegunWork DEF SettingsType, SettingsTypeOK
    <3>2. u.op = "sender" /\ u.next = 1 /\ u.map = configuration
      BY DEF Begun
    <3>3. BeginGet(h, u)
      BY <1>4, <2>2 DEF GetSender
    <3> HIDE DEF u
    <3> QED
      BY <2>2, <3>1, <3>2, <3>3, FreshBeginGet
  <2> QED
    BY <2>1, <2>2
<1>5. CASE GetValue(h)
  <2> DEFINE k == NextGet(w)
             c == keys[k]
             v == db[k]
             u == IF c # NotCached THEN Took(w, c) ELSE Reading(w, v)
  <2>1. w.op = "keys" /\ w.next \in DOMAIN GetOrder /\ k = GetOrder[w.next] /\ k \in Key
    BY <1>5, KeysInOrder DEF GetValue, NextGet
  <2>2. Getting(w)
    BY <2>1 DEF Getting
  <2>3. handlers' = [handlers EXCEPT ![h] = u]
        /\ UNCHANGED <<db, keys, configuration, sender, settled>>
    BY <1>5 DEF GetValue
  <2>4. v \in Stored /\ (c # NotCached => c \in Stored) /\ w.map \in Settings
    BY <1>0, <2>1 DEF SettingsType, SettingsTypeOK, Settings, Work
  <2>5. ~Saving(u)
    BY DEF Saving, Took, Reading
  <2>6. ASSUME settled PROVE ReadsTable(u)
    <3>1. c \in {NotCached, v} /\ ReadsTable(w)
      BY <2>1, <2>2, <2>6, Overlapping
    <3>2. CASE c # NotCached
      <4>1. Took(w, c).op = "keys" /\ Took(w, c).next = w.next + 1
            /\ Took(w, c).map = [w.map EXCEPT ![k] = c]
        BY <1>0, <2>1, <2>4, <3>2, TookWork
      <4>2. c = db[k]
        BY <3>1, <3>2
      <4>3. ASSUME NEW i \in DOMAIN GetOrder, i < w.next + 1
            PROVE  [w.map EXCEPT ![k] = c][GetOrder[i]] = db[GetOrder[i]]
        <5>1. CASE GetOrder[i] = k
          BY <2>1, <2>4, <4>2, <5>1 DEF Settings
        <5>2. CASE GetOrder[i] # k
          <6>1. i < w.next
            BY <1>0, <2>1, <4>3, <5>2, KeysInOrder DEF Work
          <6> QED
            BY <2>1, <2>4, <3>1, <5>2, <6>1, KeysInOrder DEF Settings, ReadsTable
        <5> QED
          BY <5>1, <5>2
      <4>4. ReadsTable(Took(w, c))
        <5> HIDE DEF w, c
        <5> QED
          BY <4>1, <4>3 DEF ReadsTable
      <4> QED
        BY <3>2, <4>4
    <3>3. CASE c = NotCached
      <4>1. /\ Reading(w, v).op = "put" /\ Reading(w, v).next = w.next
            /\ Reading(w, v).map = w.map /\ Reading(w, v).read = v
        BY DEF Reading
      <4>2. NextGet(Reading(w, v)) = k
        BY <4>1 DEF NextGet
      <4> HIDE DEF w
      <4> QED
        BY <2>1, <3>1, <3>3, <4>1, <4>2 DEF ReadsTable
    <3> QED
      BY <3>2, <3>3
  <2> HIDE DEF u
  <2> QED
    BY <1>1, <2>2, <2>3, <2>5, <2>6, Overlapping
<1>6. CASE PutValue(h)
  <2> DEFINE k == NextGet(w)
             v == w.read
             u == Took(w, v)
  <2>1. w.op = "put" /\ w.next \in DOMAIN GetOrder /\ k = GetOrder[w.next] /\ k \in Key
        /\ v \in Stored /\ w.map \in Settings
    BY <1>0, <1>6, KeysInOrder DEF PutValue, NextGet, Shape, Work
  <2>2. Getting(w)
    BY <2>1 DEF Getting
  <2>3. handlers' = [handlers EXCEPT ![h] = u] /\ keys' = [keys EXCEPT ![k] = v]
        /\ UNCHANGED <<db, configuration, sender, settled>>
    BY <1>6 DEF PutValue
  <2>4. u.op = "keys" /\ u.next = w.next + 1 /\ u.map = [w.map EXCEPT ![k] = v]
    BY <1>0, <2>1, TookWork
  <2>5. ASSUME settled PROVE v = db[k] /\ ReadsTable(u)
    <3>1. ReadsTable(w) /\ v = db[k]
      BY <2>1, <2>2, <2>5, Overlapping DEF ReadsTable
    <3>2. ASSUME NEW i \in DOMAIN GetOrder, i < w.next + 1
          PROVE  [w.map EXCEPT ![k] = v][GetOrder[i]] = db[GetOrder[i]]
      <4>1. CASE GetOrder[i] = k
        BY <2>1, <3>1, <4>1 DEF Settings
      <4>2. CASE GetOrder[i] # k
        <5>1. i < w.next
          BY <1>0, <2>1, <3>2, <4>2, KeysInOrder DEF Work
        <5> QED
          BY <2>1, <3>1, <4>2, <5>1, KeysInOrder DEF Settings, ReadsTable
      <4> QED
        BY <4>1, <4>2
    <3> QED
      BY <2>4, <3>1, <3>2 DEF ReadsTable
  <2>6. ASSUME settled PROVE \A j \in Key : keys'[j] \in {NotCached, db[j]}
    BY <2>1, <2>2, <2>3, <2>5, <2>6, Overlapping DEF SettingsType, SettingsTypeOK
  <2>7. ~Saving(u)
    BY <2>4 DEF Saving
  <2> HIDE DEF u
  <2> QED
    BY <1>1, <2>2, <2>3, <2>5, <2>6, <2>7, Overlapping
<1>7. CASE PutConfiguration(h)
  <2> DEFINE b == Begun("sender", w.map, TRUE, FALSE)
             u == IF w.forSender THEN b ELSE Idle
  <2>1. w.op = "keys" /\ w.next \notin DOMAIN GetOrder /\ w.map \in Settings /\ Getting(w)
    BY <1>0, <1>7 DEF PutConfiguration, Getting, Work
  <2>2. handlers' = [handlers EXCEPT ![h] = u] /\ configuration' = w.map
        /\ UNCHANGED <<db, keys, sender, settled>>
    BY <1>7 DEF PutConfiguration
  <2>3. ASSUME settled PROVE w.map = db
    <3>1. ReadsTable(w)
      BY <2>1, <2>3, Overlapping
    <3>2. \A i \in DOMAIN GetOrder : i < w.next
      BY <1>0, <2>1, KeysInOrder DEF Shape, Work
    <3>3. ASSUME NEW k \in Key PROVE w.map[k] = db[k]
      <4>1. PICK i \in DOMAIN GetOrder : GetOrder[i] = k
        BY SettingsAssumption
      <4>2. w.map[GetOrder[i]] = db[GetOrder[i]]
        BY <2>1, <3>1, <3>2 DEF ReadsTable
      <4> QED
        BY <4>1, <4>2
    <3> QED
      BY <2>1, <3>3 DEF Settings, SettingsType, SettingsTypeOK
  <2>4. b.op = "sender" /\ b.map = w.map
    BY DEF Begun
  <2>5. u = b \/ u = Idle
    <3>1. CASE w.forSender
      BY <3>1
    <3>2. CASE ~w.forSender
      BY <3>2
    <3> QED
      BY <3>1, <3>2
  <2> HIDE DEF b, u
  <2>6. ~Saving(u) /\ (settled => ReadsTable(u))
    BY <1>2, <2>3, <2>4, <2>5 DEF Saving, ReadsTable
  <2> QED
    BY <1>1, <2>1, <2>2, <2>3, <2>6, Overlapping
<1>8. CASE PutSender(h)
  <2>1. Getting(w) /\ (settled => w.map = db)
    BY <1>8, Overlapping DEF PutSender, Getting, ReadsTable
  <2> QED
    BY <1>1, <1>2, <1>8, <2>1, Overlapping DEF PutSender
<1>9. CASE GetFails(h)
  BY <1>1, <1>2, <1>9, Overlapping DEF GetFails
<1> QED
  BY <1>3, <1>4, <1>5, <1>6, <1>7, <1>8, <1>9 DEF GetStep

\* The todo lists that start with each step.
LEMMA HeadCases ==
  ASSUME NEW todo \in TodoLists
  PROVE  /\ Head(todo) = "commit" =>
              \/ todo = <<"commit">> /\ Len(todo) = 1
              \/ /\ todo = <<"commit", "configuration", "sender">>
                 /\ Len(todo) # 1 /\ Tail(todo) = <<"configuration", "sender">>
         /\ Head(todo) = "configuration" =>
              \/ /\ todo = <<"configuration", "sender">>
                 /\ Len(todo) # 1 /\ Tail(todo) = <<"sender">>
              \/ /\ todo = <<"configuration", "sender", "commit">>
                 /\ Len(todo) # 1 /\ Tail(todo) = <<"sender", "commit">>
         /\ Head(todo) = "sender" =>
              \/ todo = <<"sender">> /\ Len(todo) = 1
              \/ /\ todo = <<"sender", "commit">>
                 /\ Len(todo) # 1 /\ Tail(todo) = <<"commit">>
<1>1. todo \in TodoLists
  OBVIOUS
<1>2. CASE todo = <<"commit", "configuration", "sender">>
  BY <1>2
<1>3. CASE todo = <<"configuration", "sender">>
  BY <1>3
<1>4. CASE todo = <<"sender">>
  BY <1>4
<1>5. CASE todo = <<"configuration", "sender", "commit">>
  BY <1>5
<1>6. CASE todo = <<"sender", "commit">>
  BY <1>6
<1>7. CASE todo = <<"commit">>
  BY <1>7
<1> QED
  BY <1>1, <1>2, <1>3, <1>4, <1>5, <1>6, <1>7 DEF TodoLists

\* A step of a save: the caches only lose entries, and no get is under way afterwards
\* that was not before.
LEMMA SaveFrame ==
  ASSUME SettingsType, FreshInv, NEW h \in Handler, Saving(handlers[h]),
         \A g \in Handler \ {h} : handlers'[g] = handlers[g],
         ~Getting(handlers[h])',
         \A k \in Key : keys'[k] \in {keys[k], NotCached},
         configuration' \in {configuration, NotCached}, sender' \in {sender, NotCached},
         Saving(handlers[h])' =>
           /\ handlers'[h].alone = handlers[h].alone
           /\ handlers[h].alone => Emptied(handlers[h])'
  PROVE  /\ Alone'
         /\ handlers[h].alone => NoGet' /\ Emptied(handlers[h])
         /\ settled => NoGet' /\ Settled /\ \A g \in Handler : ReadsTable(handlers[g])'
<1>1. NoGet => NoGet'
  BY DEF NoGet, Getting
<1>2. handlers[h].alone => NoGet /\ Emptied(handlers[h])
  BY DEF FreshInv, Alone
<1>3. ASSUME NEW g \in Handler, Saving(handlers[g])', handlers'[g].alone
      PROVE  NoGet' /\ Emptied(handlers[g])'
  <2>1. CASE g = h
    BY <1>1, <1>2, <1>3, <2>1
  <2>2. CASE g # h
    <3>1. handlers'[g] = handlers[g] /\ NoGet /\ Emptied(handlers[g])
      BY <1>3, <2>2 DEF FreshInv, Alone, Saving
    <3>2. Emptied(handlers[g])'
      <4>1. Pending(handlers[g], "configuration")' = Pending(handlers[g], "configuration")
            /\ Pending(handlers[g], "sender")' = Pending(handlers[g], "sender")
        BY <3>1 DEF Pending
      <4> QED
        BY <3>1, <4>1, KeysInOrder DEF Emptied
    <3> QED
      BY <1>1, <3>1, <3>2
  <2> QED
    BY <2>1, <2>2
<1>4. ASSUME settled PROVE NoGet' /\ Settled /\ \A g \in Handler : ReadsTable(handlers[g])'
  <2>1. Settled /\ NoGet
    BY <1>4 DEF FreshInv, Settled, NoSave
  <2>2. \A g \in Handler : ReadsTable(handlers[g])'
    BY <1>1, <2>1 DEF NoGet, Getting, ReadsTable
  <2> QED
    BY <1>1, <2>1, <2>2
<1> QED
  BY <1>1, <1>2, <1>3, <1>4 DEF Alone

\* Caches that are empty agree with any table.
LEMMA EmptyFresh ==
  ASSUME NoGet', AllEmpty'
  PROVE  Settled'
<1>1. \A g \in Handler : ReadsTable(handlers[g])'
  BY DEF NoGet, Getting, ReadsTable
<1> QED
  BY <1>1 DEF AllEmpty, Settled

LEMMA FreshBeginSave ==
  ASSUME SettingsType, FreshInv, NEW h \in Handler, NEW settings, BeginSave(h, settings)
  PROVE  FreshInv'
<1> DEFINE u == Begun("set", settings, FALSE, NoGet)
<1>1. u.op = "set" /\ u.next = 1 /\ (u.alone <=> NoGet)
  BY DEF Begun
<1>2. /\ handlers'[h] = u /\ \A g \in Handler \ {h} : handlers'[g] = handlers[g]
      /\ handlers[h].op = "idle"
      /\ UNCHANGED <<db, keys, configuration, sender>> /\ settled' = (settled /\ NoGet)
  BY DEF BeginSave, SettingsType, SettingsTypeOK
<1> HIDE DEF u
<1>3. NoGet => NoGet'
  BY <1>1, <1>2 DEF NoGet, Getting
<1>4. ASSUME NEW g \in Handler, Saving(handlers[g])', handlers'[g].alone
      PROVE  NoGet' /\ Emptied(handlers[g])'
  <2>1. CASE g = h
    <3>1. Emptied(handlers[g])'
      BY <1>1, <1>2, <2>1, KeysInOrder DEF Emptied
    <3> QED
      BY <1>1, <1>2, <1>3, <1>4, <2>1, <3>1
  <2>2. CASE g # h
    <3>1. handlers'[g] = handlers[g] /\ NoGet /\ Emptied(handlers[g])
      BY <1>2, <1>4, <2>2 DEF FreshInv, Alone, Saving
    <3> QED
      BY <1>2, <1>3, <3>1 DEF Emptied, Pending
  <2> QED
    BY <2>1, <2>2
<1>5. ASSUME settled, NoGet PROVE Settled'
  <2>1. Settled
    BY <1>5 DEF FreshInv
  <2>2. ASSUME NEW g \in Handler, Saving(handlers[g])', ~handlers'[g].alone PROVE AllEmpty'
    <3>1. g # h
      BY <1>1, <1>2, <1>5, <2>2
    <3>2. AllEmpty
      BY <1>2, <2>1, <2>2, <3>1 DEF Settled, Saving
    <3> QED
      BY <1>2, <3>2 DEF AllEmpty
  <2>3. \A g \in Handler : ReadsTable(handlers[g])'
    BY <1>3, <1>5 DEF NoGet, Getting, ReadsTable
  <2>4. ASSUME NEW g \in Handler, NEW step, Evicting(handlers[g], step)
        PROVE  Evicting(handlers[g], step)'
    BY <1>2, <2>4 DEF Evicting, Pending
  <2>5. /\ \/ configuration \in {NotCached, db}
           \/ \E g \in Handler : Evicting(handlers[g], "configuration")'
        /\ \/ sender \in {NotCached, db}
           \/ \E g \in Handler : Evicting(handlers[g], "sender")'
    BY <2>1, <2>4 DEF Settled
  <2> QED
    BY <1>2, <1>3, <1>5, <2>1, <2>2, <2>3, <2>5 DEF Settled
<1> QED
  BY <1>2, <1>4, <1>5 DEF FreshInv, Alone

\* The parts of FreshInv that a step of a save leaves to show.
LEMMA SaveSettled ==
  ASSUME SettingsType, FreshInv, NEW h \in Handler, Saving(handlers[h]),
         \A g \in Handler \ {h} : handlers'[g] = handlers[g],
         ~Getting(handlers[h])',
         \A k \in Key : keys'[k] \in {keys[k], NotCached},
         configuration' \in {configuration, NotCached}, sender' \in {sender, NotCached},
         Saving(handlers[h])' =>
           /\ handlers'[h].alone = handlers[h].alone
           /\ handlers[h].alone => Emptied(handlers[h])',
         settled' => settled \/ (handlers[h].alone /\ AllEmpty'),
         settled => /\ \A k \in Key : keys'[k] \in {NotCached, db'[k]}
                    /\ \/ configuration' \in {NotCached, db'}
                       \/ \E g \in Handler : Evicting(handlers[g], "configuration")'
                    /\ \/ sender' \in {NotCached, db'}
                       \/ \E g \in Handler : Evicting(handlers[g], "sender")'
  PROVE  FreshInv'
<1>1. /\ Alone'
      /\ handlers[h].alone => NoGet'
      /\ settled => NoGet' /\ Settled /\ \A g \in Handler : ReadsTable(handlers[g])'
  BY SaveFrame
<1>2. ASSUME handlers[h].alone, AllEmpty' PROVE Settled'
  BY <1>1, <1>2, EmptyFresh
<1>3. ASSUME settled PROVE Settled'
  <2>1. ASSUME NEW g \in Handler, Saving(handlers[g])', ~handlers'[g].alone PROVE AllEmpty'
    <3>1. Saving(handlers[g]) /\ ~handlers[g].alone
      <4>1. CASE g = h
        BY <2>1, <4>1
      <4>2. CASE g # h
        BY <2>1, <4>2 DEF Saving
      <4> QED
        BY <4>1, <4>2
    <3>2. AllEmpty
      BY <1>1, <1>3, <3>1 DEF Settled
    <3> QED
      BY <3>2 DEF AllEmpty
  <2> QED
    BY <1>1, <1>3, <2>1 DEF Settled
<1> QED
  BY <1>1, <1>2, <1>3 DEF FreshInv

\* The witnesses of Settled that another handler is.
LEMMA OtherEvicting ==
  ASSUME NEW h \in Handler, \A g \in Handler \ {h} : handlers'[g] = handlers[g], NEW step,
         ~Evicting(handlers[h], step), \E g \in Handler : Evicting(handlers[g], step)
  PROVE  \E g \in Handler : Evicting(handlers[g], step)'
<1>1. PICK g \in Handler : Evicting(handlers[g], step)
  OBVIOUS
<1>2. g # h /\ handlers'[g] = handlers[g]
  BY <1>1
<1>3. Evicting(handlers[g], step)'
  BY <1>1, <1>2 DEF Evicting, Pending
<1> QED
  BY <1>3

LEMMA FreshSet ==
  ASSUME SettingsType, FreshInv, NEW h \in Handler,
         SetValue(h) \/ AllSet(h) \/ SaveFails(h)
  PROVE  FreshInv'
<1> DEFINE w == handlers[h]
<1>0. w \in Work /\ Shape(w)
  BY DEF SettingsType, SettingsTypeOK
<1>1. Saving(w) /\ ~Evicting(w, "configuration") /\ ~Evicting(w, "sender")
  BY DEF SetValue, AllSet, SaveFails, Saving, Evicting
<1>2. w.alone => Emptied(w)
  BY <1>1 DEF FreshInv, Alone
<1>3. UNCHANGED <<db, configuration, sender, settled>>
  BY DEF SetValue, AllSet, SaveFails
<1>4. settled => Settled
  BY DEF FreshInv
<1>5. ASSUME \A g \in Handler \ {h} : handlers'[g] = handlers[g]
      PROVE  settled =>
               /\ \/ configuration' \in {NotCached, db'}
                  \/ \E g \in Handler : Evicting(handlers[g], "configuration")'
               /\ \/ sender' \in {NotCached, db'}
                  \/ \E g \in Handler : Evicting(handlers[g], "sender")'
  BY <1>1, <1>3, <1>4, <1>5, OtherEvicting DEF Settled
<1>6. CASE SetValue(h)
  <2> DEFINE k == NextSet(w)
             u == [w EXCEPT !.next = w.next + 1]
  <2>1. w.op = "set" /\ w.next \in DOMAIN SetOrder /\ k = SetOrder[w.next] /\ k \in Key
    BY <1>6, KeysInOrder DEF SetValue, NextSet
  <2>2. u.op = "set" /\ u.next = w.next + 1 /\ u.alone = w.alone
    <3> HIDE DEF w
    <3> QED
      BY <1>0, <2>1, SetWork
  <2>3. handlers' = [handlers EXCEPT ![h] = u] /\ keys' = [keys EXCEPT ![k] = NotCached]
    BY <1>6 DEF SetValue, Evicted
  <2> HIDE DEF u
  <2>4. handlers'[h] = u /\ \A g \in Handler \ {h} : handlers'[g] = handlers[g]
    BY <2>3 DEF SettingsType, SettingsTypeOK
  <2>5. \A j \in Key : keys'[j] = IF j = k THEN NotCached ELSE keys[j]
    BY <2>1, <2>3 DEF SettingsType, SettingsTypeOK
  <2>6. ASSUME w.alone PROVE Emptied(handlers[h])'
    <3>1. ASSUME NEW i \in DOMAIN SetOrder, i < w.next + 1 PROVE keys'[SetOrder[i]] = NotCached
      <4>1. i = w.next \/ i < w.next
        BY <1>0, <3>1, KeysInOrder DEF Work
      <4> QED
        BY <1>2, <2>1, <2>5, <2>6, <4>1, KeysInOrder DEF Emptied
    <3> QED
      BY <2>2, <2>4, <3>1 DEF Emptied
  <2>7. settled => \A j \in Key : keys'[j] \in {NotCached, db'[j]}
    BY <1>3, <1>4, <2>5 DEF Settled
  <2>8. ~Getting(handlers[h])' /\ handlers'[h].alone = w.alone
    BY <2>2, <2>4 DEF Getting
  <2>9. \A j \in Key : keys'[j] \in {keys[j], NotCached}
    BY <2>5
  <2> QED
    BY <1>1, <1>3, <1>5, <2>4, <2>6, <2>7, <2>8, <2>9, SaveSettled
<1>7. CASE AllSet(h)
  <2>1. PICK ending \in Endings : handlers' = [handlers EXCEPT ![h] = Ending(w, ending)]
    BY <1>7 DEF AllSet
  <2> DEFINE u == Ending(w, ending)
  <2>2. w.op = "set" /\ w.next \notin DOMAIN SetOrder /\ UNCHANGED keys
    BY <1>7 DEF AllSet
  <2>3. u.op = "end" /\ u.alone = w.alone /\ u.todo = ending /\ ending \in TodoLists
    BY EndingsAreTodoLists DEF Ending
  <2>4. handlers'[h] = u /\ \A g \in Handler \ {h} : handlers'[g] = handlers[g]
    BY <2>1 DEF SettingsType, SettingsTypeOK
  <2> HIDE DEF u
  <2>5. Pending(handlers'[h], "configuration") /\ Pending(handlers'[h], "sender")
    BY <2>3, <2>4, PendingSteps DEF Endings
  <2>6. ASSUME w.alone PROVE Emptied(handlers[h])'
    <3>1. \A i \in DOMAIN SetOrder : i < w.next
      BY <1>0, <2>2, KeysInOrder DEF Shape, Work
    <3>2. \A i \in DOMAIN SetOrder : keys'[SetOrder[i]] = NotCached
      BY <1>2, <2>2, <2>6, <3>1 DEF Emptied
    <3>3. Pending(handlers[h], "configuration")' /\ Pending(handlers[h], "sender")'
      BY <2>5 DEF Pending
    <3> QED
      BY <3>2, <3>3 DEF Emptied
  <2>7. settled => \A j \in Key : keys'[j] \in {NotCached, db'[j]}
    BY <1>3, <1>4, <2>2 DEF Settled
  <2>8. ~Getting(handlers[h])' /\ handlers'[h].alone = w.alone
    BY <2>3, <2>4 DEF Getting
  <2> QED
    BY <1>1, <1>3, <1>5, <2>2, <2>4, <2>6, <2>7, <2>8, SaveSettled
<1>8. CASE SaveFails(h)
  <2>1. handlers' = [handlers EXCEPT ![h] = Idle] /\ UNCHANGED keys
    BY <1>8 DEF SaveFails
  <2>2. handlers'[h] = Idle /\ \A g \in Handler \ {h} : handlers'[g] = handlers[g]
    BY <2>1 DEF SettingsType, SettingsTypeOK
  <2>3. ~Getting(handlers[h])' /\ ~Saving(handlers[h])'
    BY <2>2, IdleWork DEF Getting, Saving
  <2>4. settled => \A j \in Key : keys'[j] \in {NotCached, db'[j]}
    BY <1>3, <1>4, <2>1 DEF Settled
  <2> QED
    BY <1>1, <1>3, <1>5, <2>1, <2>2, <2>3, <2>4, SaveSettled
<1> QED
  BY <1>6, <1>7, <1>8


\* All keys are left out of the cache of a save that is alone and has set them all.
LEMMA EmptiedKeys ==
  ASSUME NEW w, w.op = "end", Emptied(w)
  PROVE  \A k \in Key : keys[k] = NotCached
<1>1. ASSUME NEW k \in Key PROVE keys[k] = NotCached
  <2>1. PICK i \in DOMAIN SetOrder : SetOrder[i] = k
    BY SettingsAssumption
  <2> QED
    BY <2>1 DEF Emptied
<1> QED
  BY <1>1

\* The frame of the three steps of an ending.
LEMMA EndFrame ==
  ASSUME SettingsType, FreshInv, NEW h \in Handler, handlers[h].op = "end", GoOn(h)
  PROVE  /\ handlers[h].todo \in TodoLists /\ Saving(handlers[h])
         /\ handlers[h].alone => Emptied(handlers[h])
         /\ \A g \in Handler \ {h} : handlers'[g] = handlers[g]
         /\ ~Getting(handlers[h])'
         /\ Saving(handlers[h])' =>
              /\ Len(handlers[h].todo) # 1 /\ handlers'[h].op = "end"
              /\ handlers'[h].todo = Tail(handlers[h].todo)
              /\ handlers'[h].alone = handlers[h].alone
         /\ Len(handlers[h].todo) # 1 =>
              handlers'[h].op = "end" /\ handlers'[h].todo = Tail(handlers[h].todo)
         /\ settled' => settled \/ (handlers[h].alone /\ Len(handlers[h].todo) = 1)
<1>1. handlers[h].todo \in TodoLists /\ Saving(handlers[h])
  BY DEF SettingsType, Shape, Saving
<1>2. handlers[h].alone => Emptied(handlers[h])
  BY <1>1 DEF FreshInv, Alone
<1>3. settled' => settled \/ (handlers[h].alone /\ Len(handlers[h].todo) = 1)
  BY DEF GoOn
<1>4. ~Getting(handlers[h])' /\ (Len(handlers[h].todo) = 1 => ~Saving(handlers[h])')
  BY WentOn, IdleWork DEF Getting, Saving
<1> QED
  BY <1>1, <1>2, <1>3, <1>4, WentOn

\* What is left of a todo list when its first step is done.
LEMMA TailPending ==
  ASSUME NEW w, w.op = "end", w.todo \in TodoLists, NEW u, u.op = "end",
         Len(w.todo) # 1, u.todo = Tail(w.todo)
  PROVE  /\ Head(w.todo) = "commit" =>
              /\ Pending(u, "configuration") /\ Pending(u, "sender") /\ ~Pending(u, "commit")
         /\ Head(w.todo) = "configuration" =>
              /\ Pending(w, "sender") /\ Pending(u, "sender")
              /\ Pending(w, "commit") <=> Pending(u, "commit")
         /\ Head(w.todo) = "sender" =>
              ~Pending(w, "configuration") /\ ~Pending(u, "sender")
<1>1. w.todo \in TodoLists
  OBVIOUS
<1>2. CASE w.todo = <<"commit", "configuration", "sender">>
  <2>1. u.todo = <<"configuration", "sender">> /\ Head(w.todo) = "commit"
    BY <1>2
  <2>2. /\ Pending(u, "configuration") /\ Pending(u, "sender") /\ ~Pending(u, "commit")
    BY <2>1, PendingSteps DEF TodoLists
  <2> QED
    BY <2>1, <2>2
<1>3. CASE w.todo = <<"configuration", "sender">>
  <2>1. u.todo = <<"sender">> /\ Head(w.todo) = "configuration"
    BY <1>3
  <2>2. Pending(w, "sender") /\ ~Pending(w, "commit")
    BY <1>3 DEF Pending
  <2>3. Pending(u, "sender") /\ ~Pending(u, "commit")
    BY <2>1, PendingSteps DEF TodoLists
  <2> QED
    BY <2>1, <2>2, <2>3
<1>4. CASE w.todo = <<"configuration", "sender", "commit">>
  <2>1. u.todo = <<"sender", "commit">> /\ Head(w.todo) = "configuration"
    BY <1>4
  <2> QED
    BY <1>4, <2>1 DEF Pending
<1>5. CASE w.todo = <<"sender", "commit">>
  <2>1. u.todo = <<"commit">> /\ Head(w.todo) = "sender"
    BY <1>5
  <2> QED
    BY <1>5, <2>1 DEF Pending
<1>6. CASE w.todo = <<"sender">> \/ w.todo = <<"commit">>
  BY <1>6
<1> QED
  BY <1>1, <1>2, <1>3, <1>4, <1>5, <1>6 DEF TodoLists


LEMMA FreshEnd ==
  ASSUME SettingsType, FreshInv, NEW h \in Handler,
         CommitSave(h) \/ EvictConfiguration(h) \/ EvictSender(h)
  PROVE  FreshInv'
<1> DEFINE w == handlers[h]
           u == handlers'[h]
<1>0. w.op = "end" /\ GoOn(h)
  BY DEF CommitSave, EvictConfiguration, EvictSender
<1>1. /\ w.todo \in TodoLists /\ Saving(w) /\ (w.alone => Emptied(w))
      /\ \A g \in Handler \ {h} : handlers'[g] = handlers[g]
      /\ ~Getting(handlers[h])'
      /\ Saving(handlers[h])' =>
           Len(w.todo) # 1 /\ u.op = "end" /\ u.todo = Tail(w.todo) /\ u.alone = w.alone
      /\ Len(w.todo) # 1 => u.op = "end" /\ u.todo = Tail(w.todo)
      /\ settled' => settled \/ (w.alone /\ Len(w.todo) = 1)
  BY <1>0, EndFrame
<1>2. settled => Settled
  BY DEF FreshInv
<1>3. w.alone => \A k \in Key : keys[k] = NotCached
  BY <1>0, <1>1, EmptiedKeys
<1>4. Evicting(handlers[h], "configuration")' <=>
        u.op = "end" /\ ~Pending(u, "commit") /\ Pending(u, "configuration")
  BY DEF Evicting, Pending
<1>5. Evicting(handlers[h], "sender")' <=>
        u.op = "end" /\ ~Pending(u, "commit") /\ Pending(u, "sender")
  BY DEF Evicting, Pending
<1>6. ASSUME Saving(handlers[h])', w.alone,
             ~Pending(u, "configuration") => configuration' = NotCached,
             ~Pending(u, "sender") => sender' = NotCached,
             UNCHANGED keys
      PROVE  Emptied(handlers[h])'
  <2>1. \A i \in DOMAIN SetOrder : keys'[SetOrder[i]] = NotCached
    BY <1>3, <1>6, KeysInOrder
  <2> QED
    BY <1>6, <2>1 DEF Emptied, Pending
<1>7. CASE CommitSave(h)
  <2>1. Head(w.todo) = "commit" /\ db' = w.map /\ UNCHANGED <<keys, configuration, sender>>
    BY <1>7 DEF CommitSave
  <2>2. CASE Len(w.todo) = 1
    <3>1. ~Pending(w, "configuration") /\ ~Pending(w, "sender")
      BY <1>1, <2>1, <2>2, HeadCases, PendingSteps
    <3>2. w.alone => AllEmpty
      BY <1>0, <1>1, <1>3, <3>1 DEF Emptied, AllEmpty
    <3>3. settled /\ ~w.alone => AllEmpty
      BY <1>1, <1>2 DEF Settled
    <3>4. settled \/ w.alone => AllEmpty'
      BY <2>1, <3>2, <3>3 DEF AllEmpty
    <3>5. ~Saving(handlers[h])'
      BY <1>1, <2>2
    <3> QED
      BY <1>1, <2>1, <3>4, <3>5, SaveSettled DEF AllEmpty
  <2>3. CASE Len(w.todo) # 1
    <3>1. Pending(u, "configuration") /\ Pending(u, "sender") /\ ~Pending(u, "commit")
      BY <1>0, <1>1, <2>1, <2>3, TailPending
    <3>2. Evicting(handlers[h], "configuration")' /\ Evicting(handlers[h], "sender")'
      BY <1>1, <1>4, <1>5, <2>3, <3>1
    <3>3. settled /\ ~w.alone => \A k \in Key : keys[k] = NotCached
      BY <1>1, <1>2 DEF Settled, AllEmpty
    <3>4. settled => \A k \in Key : keys'[k] \in {NotCached, db'[k]}
      BY <1>3, <2>1, <3>3
    <3>5. Saving(handlers[h])' => u.alone = w.alone /\ (w.alone => Emptied(handlers[h])')
      BY <1>1, <1>6, <2>1, <3>1
    <3> HIDE DEF w, u
    <3> QED
      BY <1>1, <2>1, <2>3, <3>2, <3>4, <3>5, SaveSettled DEF w, u
  <2> QED
    BY <2>2, <2>3
<1>8. CASE EvictConfiguration(h)
  <2>1. /\ Head(w.todo) = "configuration" /\ configuration' = NotCached
        /\ UNCHANGED <<db, keys, sender>>
    BY <1>8 DEF EvictConfiguration
  <2>2. Len(w.todo) # 1
    BY <1>1, <2>1, HeadCases
  <2>3. /\ Pending(w, "sender") /\ Pending(u, "sender")
        /\ Pending(w, "commit") <=> Pending(u, "commit")
    BY <1>0, <1>1, <2>1, <2>2, TailPending
  <2>4. Evicting(handlers[h], "sender") => Evicting(handlers[h], "sender")'
    BY <1>1, <1>5, <2>2, <2>3 DEF Evicting
  <2>5. settled => \/ sender' \in {NotCached, db'}
                   \/ \E g \in Handler : Evicting(handlers[g], "sender")'
    BY <1>1, <1>2, <2>1, <2>4, OtherEvicting DEF Settled
  <2>6. settled => \A k \in Key : keys'[k] \in {NotCached, db'[k]}
    BY <1>2, <2>1 DEF Settled
  <2>7. Saving(handlers[h])' => u.alone = w.alone /\ (w.alone => Emptied(handlers[h])')
    BY <1>1, <1>6, <2>1, <2>3
  <2> QED
    BY <1>1, <2>1, <2>2, <2>5, <2>6, <2>7, SaveSettled
<1>9. CASE EvictSender(h)
  <2>1. /\ Head(w.todo) = "sender" /\ sender' = NotCached
        /\ UNCHANGED <<db, keys, configuration>>
    BY <1>9 DEF EvictSender
  <2>2. w.todo = <<"sender">> \/ w.todo = <<"sender", "commit">>
    BY <1>1, <2>1, HeadCases
  <2>3. ~Pending(w, "configuration")
    BY <1>1, <2>2, PendingSteps
  <2>4. settled => \/ configuration' \in {NotCached, db'}
                   \/ \E g \in Handler : Evicting(handlers[g], "configuration")'
    BY <1>1, <1>2, <2>1, <2>3, OtherEvicting DEF Settled, Evicting
  <2>5. settled => \A k \in Key : keys'[k] \in {NotCached, db'[k]}
    BY <1>2, <2>1 DEF Settled
  <2>6. w.alone => AllEmpty'
    BY <1>0, <1>1, <1>3, <2>1, <2>3 DEF Emptied, AllEmpty
  <2>7. Saving(handlers[h])' => u.alone = w.alone /\ (w.alone => Emptied(handlers[h])')
    BY <1>1, <1>6, <2>1, <2>6 DEF AllEmpty
  <2> QED
    BY <1>1, <2>1, <2>4, <2>5, <2>6, <2>7, SaveSettled
<1> QED
  BY <1>7, <1>8, <1>9


\* Entries that expire, and a restart, leave nothing stale.
LEMMA FreshEnvironment ==
  ASSUME SettingsType, FreshInv,
         (\E k \in Key : ExpireKey(k)) \/ ExpireConfiguration \/ ExpireSender \/ Restart
         \/ UNCHANGED settingsVars
  PROVE  FreshInv'
<1>1. CASE Restart
  <2>1. \A h \in Handler : handlers'[h] = Idle
    BY <1>1 DEF Restart
  <2>2. NoGet' /\ NoSave' /\ \A h \in Handler : ~Saving(handlers[h])'
    BY <2>1, IdleWork DEF NoGet, NoSave, Getting, Saving
  <2>3. AllEmpty'
    BY <1>1 DEF Restart, AllEmpty, NoKeys
  <2> QED
    BY <2>2, <2>3, EmptyFresh DEF FreshInv, Alone
<1>2. ASSUME UNCHANGED <<db, handlers, settled>>,
             \A k \in Key : keys'[k] \in {keys[k], NotCached},
             configuration' \in {configuration, NotCached}, sender' \in {sender, NotCached}
      PROVE  FreshInv'
  <2>1. /\ NoGet' <=> NoGet
        /\ NoSave' <=> NoSave
    BY <1>2 DEF NoGet, NoSave, Getting, Saving
  <2>2. ASSUME NEW h \in Handler
        PROVE  /\ Saving(handlers[h])' <=> Saving(handlers[h])
               /\ ReadsTable(handlers[h])' <=> ReadsTable(handlers[h])
               /\ Emptied(handlers[h]) => Emptied(handlers[h])'
               /\ \A step : Evicting(handlers[h], step)' <=> Evicting(handlers[h], step)
    <3>1. Emptied(handlers[h]) => Emptied(handlers[h])'
      BY <1>2, KeysInOrder DEF Emptied, Pending
    <3>2. ReadsTable(handlers[h])' <=> ReadsTable(handlers[h])
      BY <1>2 DEF ReadsTable, NextGet
    <3> QED
      BY <1>2, <3>1, <3>2 DEF Saving, Evicting, Pending
  <2>3. AllEmpty => AllEmpty'
    BY <1>2 DEF AllEmpty
  <2>4. Alone'
    BY <1>2, <2>1, <2>2 DEF FreshInv, Alone
  <2>5. ASSUME settled PROVE Settled'
    BY <1>2, <2>1, <2>2, <2>3, <2>5 DEF FreshInv, Settled
  <2> QED
    BY <1>2, <2>4, <2>5 DEF FreshInv
<1>3. CASE \E k \in Key : ExpireKey(k)
  BY <1>2, <1>3 DEF ExpireKey, SettingsType, SettingsTypeOK
<1>4. CASE ExpireConfiguration \/ ExpireSender \/ UNCHANGED settingsVars
  BY <1>2, <1>4 DEF ExpireConfiguration, ExpireSender, settingsVars
<1> QED
  BY <1>1, <1>3, <1>4

LEMMA FreshStep ==
  SettingsType /\ FreshInv /\ [SettingsNext]_settingsVars => FreshInv'
<1> SUFFICES ASSUME SettingsType, FreshInv, [SettingsNext]_settingsVars PROVE FreshInv'
  OBVIOUS
<1>1. ASSUME NEW h \in Handler,
             \/ GetConfiguration(h) \/ GetSender(h) \/ GetStep(h) \/ SaveStep(h)
             \/ \E settings \in Saved : BeginSave(h, settings)
      PROVE  FreshInv'
  BY <1>1, FreshGet, FreshBeginSave, FreshSet, FreshEnd DEF SaveStep
<1> QED
  BY <1>1, FreshEnvironment DEF SettingsNext

LEMMA FreshMeans == FreshInv => QuietSettingsAreFresh
<1> SUFFICES ASSUME FreshInv, settled, NoSave PROVE Fresh
  BY DEF QuietSettingsAreFresh
<1>1. Settled /\ \A h \in Handler : \A step : ~Evicting(handlers[h], step)
  BY DEF FreshInv, NoSave, Saving, Evicting
<1> QED
  BY <1>1 DEF Settled, Fresh

\* Whatever order saves take, whichever of them fail, and for any number of keys and
\* handlers: when no get overlapped a save since the caches were last empty, and no save
\* is under way, every cache agrees with the table (ConfigurationJdbcDao,
\* AdminServiceImpl and MailServiceImpl with their cache annotations).
THEOREM SettingsFresh == SettingsSpec => []QuietSettingsAreFresh
<1>1. SettingsType /\ FreshInv /\ [SettingsNext]_settingsVars => FreshInv'
  BY FreshStep
<1> QED
  BY <1>1, FreshInit, FreshMeans, SettingsTypeCorrect, PTL DEF SettingsSpec
==============================================================================
