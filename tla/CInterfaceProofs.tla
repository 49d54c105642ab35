-------------------------- MODULE CInterfaceProofs --------------------------
(***************************************************************************)
(* Proofs about CInterface for any number of threads, names, objects and   *)
(* results.                                                                *)
(***************************************************************************)
EXTENDS CInterface, TLAPS

InMap(o) == \E n \in Names : map[n] = o

\* The fields of CFGCenterInner and the application's pointers have their types.
PointerTypes ==
  /\ map \in [Names -> Namespaces \cup {NoNamespace}]
  /\ strong \in [Namespaces -> Nat]
  /\ held \subseteq created /\ created \subseteq Namespaces
  /\ updating \in Namespaces \cup {NoNamespace}
  /\ call = [t \in Callers |-> call[t]]

\* The application's Box and the closure of the backend hold one Arc each.
CenterInv ==
  /\ center = "none" => inner = 0
  /\ center = "held" => inner = 2
  /\ center = "freed" => inner = 1
  /\ center \in {"none", "held", "freed"}

\* An object has one Arc behind its pointer, one in the map, and no other.
CountInv ==
  \A o \in Namespaces :
    strong[o] = (IF o \in held THEN 1 ELSE 0) + (IF InMap(o) THEN 1 ELSE 0)

\* The map holds objects that were created, each under one name.
MapInv ==
  /\ \A n \in Names : map[n] # NoNamespace => map[n] \in created
  /\ \A m, n \in Names : map[m] = map[n] /\ map[n] # NoNamespace => m = n

\* What the watcher and the calls are working on cannot go away under them.
UseInv ==
  /\ updating # NoNamespace => InMap(updating)
  /\ \A t \in Callers : call[t] # NoCall =>
       /\ call[t].ns \in Namespaces
       /\ call[t].ns \in held \/ ByDiffer(t, call[t].ns)

PInv == PointerTypes /\ CenterInv /\ CountInv /\ MapInv /\ UseInv

USE DEF nsVars, valueVars, errVars

\* The program starts in a state of the invariant.
LEMMA InitPInv == Init => PInv
<1> SUFFICES ASSUME Init PROVE PInv OBVIOUS
<1> USE ObjectsAssumption DEF Init
<1>1. PointerTypes /\ CenterInv BY DEF PointerTypes, CenterInv
<1>2. CountInv /\ MapInv /\ UseInv BY DEF CountInv, MapInv, UseInv, InMap
<1>3. QED BY <1>1, <1>2 DEF PInv

\* Calls that touch neither namespaces nor calls under way nor the center.
LEMMA QuietPInv ==
  ASSUME PInv, UNCHANGED <<nsVars, updating, call>>,
         UNCHANGED <<center, inner>> \/ CenterInv'
  PROVE  PInv'
  BY DEF PInv, PointerTypes, CenterInv, CountInv, MapInv, UseInv, InMap, ByDiffer

\* A new object takes its place in the map, and the old one there loses its Arc.
LEMMA CreatePInv ==
  ASSUME PInv, NEW t \in Callers, NEW o \in Namespaces, NEW n \in Names,
         create_namespace(t, o, n)
  PROVE  PInv'
<1>1. CASE UNCHANGED nsVars
  BY <1>1, QuietPInv DEF create_namespace
<1>2. CASE ~UNCHANGED nsVars
  <2> USE ObjectsAssumption DEF PInv, PointerTypes, InMap
  <2>0. /\ map' = [map EXCEPT ![n] = o] /\ created' = created \cup {o}
        /\ strong' = ArcsAfterInsert(o, n) /\ held' = held \cup {o}
        /\ updating = NoNamespace /\ o \notin created
        /\ UNCHANGED <<center, inner, updating, call>>
    BY <1>2 DEF create_namespace
  <2>1. CenterInv' /\ MapInv' BY <2>0 DEF CenterInv, MapInv
  <2>2. \A p \in Namespaces : InMap(p)' <=> p = o \/ (InMap(p) /\ p # map[n])
    BY <2>0 DEF MapInv
  <2>3. \A p \in Namespaces : p = map[n] => InMap(p) /\ p # o
    BY <2>0 DEF MapInv
  <2>4. ~InMap(o) /\ o \notin held
    BY <2>0 DEF MapInv
  <2>5. ASSUME NEW p \in Namespaces
        PROVE  strong'[p] = (IF p \in held' THEN 1 ELSE 0) + (IF InMap(p)' THEN 1 ELSE 0)
    <3>1. strong[p] = (IF p \in held THEN 1 ELSE 0) + (IF InMap(p) THEN 1 ELSE 0)
      BY DEF CountInv
    <3>2. strong'[p] = IF p = o THEN 2 ELSE IF p = map[n] THEN strong[p] - 1 ELSE strong[p]
      BY <2>0 DEF ArcsAfterInsert
    <3>3. CASE p = o BY <2>0, <2>2, <3>2, <3>3
    <3>4. CASE p # o /\ p = map[n] BY <2>0, <2>2, <2>3, <3>1, <3>2, <3>4
    <3>5. CASE p # o /\ p # map[n] BY <2>0, <2>2, <3>1, <3>2, <3>5
    <3>6. QED BY <3>3, <3>4, <3>5
  <2>6. CountInv' BY <2>5 DEF CountInv
  <2>7. strong' \in [Namespaces -> Nat]
    <3>1. \A p \in Namespaces : strong'[p] \in Nat BY <2>5
    <3>2. QED BY <2>0, <3>1 DEF ArcsAfterInsert
  <2>8. PointerTypes' BY <2>0, <2>7
  <2>9. UseInv' BY <2>0 DEF UseInv, ByDiffer
  <2>10. QED BY <2>1, <2>6, <2>8, <2>9
<1>3. QED BY <1>1, <1>2

\* A pointer that no call is using gives its Arc back.
LEMMA FreePInv ==
  ASSUME PInv, NEW t \in Callers, NEW o \in Namespaces, free_namespace(t, o)
  PROVE  PInv'
<1> USE DEF PInv, PointerTypes, InMap, free_namespace
<1>1. CenterInv' /\ MapInv' BY DEF CenterInv, MapInv
<1>2. \A p \in Namespaces : InMap(p)' <=> InMap(p) OBVIOUS
<1>3. ASSUME NEW p \in Namespaces
      PROVE  strong'[p] = (IF p \in held' THEN 1 ELSE 0) + (IF InMap(p)' THEN 1 ELSE 0)
  BY <1>2 DEF CountInv
<1>4. CountInv' BY <1>3 DEF CountInv
<1>5. strong' \in [Namespaces -> Nat]
  <2>1. \A p \in Namespaces : strong'[p] \in Nat BY <1>3
  <2>2. QED BY <2>1
<1>6. PointerTypes' BY <1>5
<1>7. UseInv' BY DEF UseInv, ByDiffer, InUse
<1>8. QED BY <1>1, <1>4, <1>6, <1>7

\* A call begins on a pointer not yet freed or on the Differ of the running callback.
LEMMA CallPInv ==
  ASSUME PInv, NEW t \in Callers, NEW o \in Namespaces, NEW w \in WhoAmIs,
         NEW explain \in BOOLEAN, get_config(t, o, w, explain)
  PROVE  PInv'
<1> USE DEF PInv, PointerTypes, InMap
<1>1. UNCHANGED <<center, inner, nsVars, updating>> BY DEF get_config
<1>2. CenterInv' /\ MapInv' /\ CountInv'
  BY <1>1 DEF CenterInv, MapInv, CountInv
<1>3. PointerTypes'
  BY <1>1 DEF get_config, convert_get_cfg_input_value
<1>4. UseInv'
  BY <1>1 DEF get_config, convert_get_cfg_input_value, UseInv, ByDiffer
<1>5. QED BY <1>2, <1>3, <1>4

\* The steps of a conversion or of a Drop.
MemoryStep == ConvertField \/ ConvertNul \/ ConvertEnd \/ DropField \/ DropEnd

\* They touch no namespace; some end the call they work for.
LEMMA MemoryEndsCall ==
  ASSUME MemoryStep
  PROVE  /\ UNCHANGED <<center, inner, nsVars, updating, whoamis>>
         /\ UNCHANGED call \/ call' = [call EXCEPT ![work.thread] = NoCall]
  BY DEF MemoryStep, ConvertField, ConvertNul, ConvertEnd, DropField, DropEnd

\* And so they keep the invariant.
LEMMA MemoryPInv ==
  ASSUME PInv, MemoryStep
  PROVE  PInv'
<1> USE DEF PInv, PointerTypes, InMap
<1>1. /\ UNCHANGED <<center, inner, nsVars, updating>>
      /\ UNCHANGED call \/ call' = [call EXCEPT ![work.thread] = NoCall]
  BY MemoryEndsCall
<1>2. CenterInv' /\ MapInv' /\ CountInv'
  BY <1>1 DEF CenterInv, MapInv, CountInv
<1>3. PointerTypes' BY <1>1
<1>4. UseInv' BY <1>1 DEF UseInv, ByDiffer
<1>5. QED BY <1>2, <1>3, <1>4

\* The watcher picks an object of the map, and ends when its callback has no call left.
LEMMA UpdatePInv ==
  ASSUME PInv, UpdateEnd \/ \E n \in Names : UpdateBegin(n)
  PROVE  PInv'
<1> USE DEF PInv, PointerTypes, InMap
<1>1. UNCHANGED <<center, inner, nsVars, call>> BY DEF UpdateBegin, UpdateEnd
<1>2. CenterInv' /\ MapInv' /\ CountInv' BY <1>1 DEF CenterInv, MapInv, CountInv
<1>3. PointerTypes' BY <1>1 DEF UpdateBegin, UpdateEnd
<1>4. UseInv'
  <2>1. CASE UpdateEnd BY <1>1, <2>1 DEF UpdateEnd, UseInv, ByDiffer
  <2>2. CASE \E n \in Names : UpdateBegin(n)
    BY <1>1, <2>2, ObjectsAssumption DEF UpdateBegin, UseInv, ByDiffer
  <2>3. QED BY <2>1, <2>2
<1>5. QED BY <1>2, <1>3, <1>4

\* The remaining calls of thread t: center, errors, WhoAmIs and results.
OtherCall(t) ==
  \/ \E cfg \in Configs : new_config_center_client(t, cfg)
  \/ free_config_center(t) \/ get_last_error(t)
  \/ \E w \in WhoAmIs : new_whoami(t, w) \/ free_whoami(t, w)
  \/ \E v \in ResultIds : free_config_values(t, v)
  \/ convert_get_cfg_output_value(t)

\* They keep the invariant.
LEMMA OtherPInv ==
  ASSUME PInv, NEW t \in Callers, OtherCall(t)
  PROVE  PInv'
<1>1. UNCHANGED <<nsVars, updating, call>>
  BY DEF OtherCall, new_config_center_client, free_config_center, get_last_error,
         new_whoami, free_whoami, free_config_values, convert_get_cfg_output_value
<1>2. UNCHANGED <<center, inner>> \/ CenterInv'
  <2>1. ASSUME NEW cfg \in Configs, new_config_center_client(t, cfg)
        PROVE  UNCHANGED <<center, inner>> \/ CenterInv'
    BY <2>1 DEF new_config_center_client, CenterInv
  <2>2. CASE free_config_center(t) BY <2>2 DEF free_config_center, PInv, CenterInv
  <2>3. CASE OtherCall(t) /\ ~free_config_center(t)
               /\ \A cfg \in Configs : ~new_config_center_client(t, cfg)
    BY <2>3 DEF OtherCall, get_last_error, new_whoami, free_whoami, free_config_values,
                convert_get_cfg_output_value
  <2>4. QED BY <2>1, <2>2, <2>3
<1>3. QED BY <1>1, <1>2, QuietPInv

\* PInv is inductive.
LEMMA NextPInv == PInv /\ [Next]_vars => PInv'
<1>1. ASSUME PInv, UNCHANGED vars PROVE PInv'
  BY <1>1, QuietPInv DEF vars
<1>2. ASSUME PInv, Next PROVE PInv'
  BY <1>2, CreatePInv, FreePInv, CallPInv, MemoryPInv, UpdatePInv, OtherPInv
     DEF Next, OtherCall, MemoryStep
<1>3. QED BY <1>1, <1>2

(***************************************************************************)
(* Reference counting: however create_namespace, free_namespace, queries,  *)
(* updates and free_config_center follow each other, an object lives       *)
(* exactly as long as the application or the map can get at it, and no     *)
(* call or callback works on one that was dropped.                         *)
(***************************************************************************)
THEOREM PointersStayValid == Spec => []PointersValid
<1>1. ASSUME PInv PROVE PointersValid
  <2>1. center # "none" => inner > 0 BY <1>1 DEF PInv, CenterInv
  <2>2. \A o \in Namespaces : strong[o] > 0 <=> o \in held \/ InMap(o)
    BY <1>1 DEF PInv, CountInv
  <2>3. updating # NoNamespace => strong[updating] > 0
    BY <1>1, <2>2 DEF PInv, PointerTypes, UseInv
  <2>4. ASSUME NEW t \in Callers, call[t] # NoCall PROVE strong[call[t].ns] > 0
    <3>1. CASE call[t].ns \in held BY <1>1, <2>2, <2>4, <3>1 DEF PInv, UseInv
    <3>2. CASE ByDiffer(t, call[t].ns)
      BY <1>1, <2>3, <2>4, <3>2, ObjectsAssumption DEF PInv, UseInv, ByDiffer
    <3>3. QED BY <1>1, <2>4, <3>1, <3>2 DEF PInv, UseInv
  <2>5. \A o \in created : strong[o] > 0 <=> o \in held \/ \E n \in Names : map[n] = o
    BY <1>1, <2>2 DEF PInv, PointerTypes, InMap
  <2>6. QED BY <2>1, <2>3, <2>4, <2>5 DEF PointersValid
<1>2. QED BY <1>1, InitPInv, NextPInv, PTL DEF Spec

-----------------------------------------------------------------------------
(***************************************************************************)
(* The memory behind query results.                                        *)
(***************************************************************************)

\* The fields of a value; those made before the k-th, and those not dropped before it.
FieldSet(x) == {Fields(x)[m] : m \in 1 .. Len(Fields(x))}
Made(x, k)  == {Fields(x)[m] : m \in 1 .. k - 1}
Left(x, k)  == {DropValue(x)[m] : m \in k .. Len(Fields(x))}
Part(v, i, S)    == {<<v, i, f>> : f \in S}
Whole(v, I, x)   == {<<v, j, f>> : j \in I, f \in FieldSet(x)}

\* What Drop gives back after the values.
Shell(w) == IF w.kind = "free" THEN Array(w.addr, w.len) \cup {Box(w.addr)}
            ELSE {<<w.addr, 0, "array">>}

\* The blocks that a running conversion or Drop has in its hands.
Live(w) ==
  IF w.kind = "none" THEN {}
  ELSE IF w.kind = "convert"
    THEN Array(w.addr, w.len) \cup Whole(w.addr, 1 .. w.i - 1, w.explain)
           \cup Part(w.addr, w.i, Made(w.explain, w.k))
    ELSE Shell(w) \cup Whole(w.addr, w.i + 1 .. w.len, w.explain)
           \cup (IF w.i <= w.len THEN Part(w.addr, w.i, Left(w.explain, w.k)) ELSE {})

\* The two orders, of allocation and of Drop, run over the same fields, each once.
LEMMA TwoOrders ==
  ASSUME NEW x
  PROVE  /\ Len(Fields(x)) \in Nat \ {0}
         /\ DOMAIN Fields(x) = 1 .. Len(Fields(x))
         /\ Len(DropValue(x)) = Len(Fields(x))
         /\ \A m \in 1 .. Len(Fields(x)) : \E j \in 1 .. Len(Fields(x)) :
              Fields(x)[m] = DropValue(x)[j]
         /\ \A m \in 1 .. Len(Fields(x)) : \E j \in 1 .. Len(Fields(x)) :
              DropValue(x)[m] = Fields(x)[j]
         /\ \A m, j \in 1 .. Len(Fields(x)) : DropValue(x)[m] = DropValue(x)[j] => m = j
<1>1. CASE x
  <2>1. Fields(x) = <<"rule_path", "link_path", "res_path", "reason",
                      "content_type", "key", "value">>
    BY <1>1 DEF Fields
  <2>2. /\ Len(DropValue(x)) = 7
        /\ DropValue(x)[1] = "key" /\ DropValue(x)[2] = "content_type"
        /\ DropValue(x)[3] = "value" /\ DropValue(x)[4] = "link_path"
        /\ DropValue(x)[5] = "rule_path" /\ DropValue(x)[6] = "res_path"
        /\ DropValue(x)[7] = "reason"
    BY <1>1 DEF DropValue, DropReason
  <2>3. 1 .. 7 = {1, 2, 3, 4, 5, 6, 7} OBVIOUS
  <2>4. QED BY <2>1, <2>2, <2>3
<1>2. CASE ~x
  <2>1. Fields(x) = <<"content_type", "key", "value">> BY <1>2 DEF Fields
  <2>2. DropValue(x) = <<"key", "content_type", "value">> BY <1>2 DEF DropValue
  <2>3. 1 .. 3 = {1, 2, 3} OBVIOUS
  <2>4. QED BY <2>1, <2>2, <2>3
<1>3. QED BY <1>1, <1>2

\* One more field is made.
LEMMA MadeNext ==
  ASSUME NEW x, NEW k \in 1 .. Len(Fields(x))
  PROVE  /\ Made(x, 1) = {} /\ Made(x, k + 1) = Made(x, k) \cup {Fields(x)[k]}
         /\ k = Len(Fields(x)) => FieldSet(x) = Made(x, k) \cup {Fields(x)[k]}
<1>1. Len(Fields(x)) \in Nat BY TwoOrders
<1>2. 1 .. k = (1 .. k - 1) \cup {k} BY <1>1
<1>3. Made(x, 1) = {} BY DEF Made
<1>4. Made(x, k + 1) = {Fields(x)[m] : m \in 1 .. k} BY <1>1 DEF Made
<1>5. {Fields(x)[m] : m \in 1 .. k} = Made(x, k) \cup {Fields(x)[k]} BY <1>2 DEF Made
<1>6. QED BY <1>3, <1>4, <1>5 DEF FieldSet

\* One more is dropped.
LEMMA LeftNext ==
  ASSUME NEW x, NEW k \in 1 .. Len(Fields(x))
  PROVE  /\ Left(x, 1) = FieldSet(x)
         /\ DropValue(x)[k] \in Left(x, k)
         /\ Left(x, k + 1) = Left(x, k) \ {DropValue(x)[k]}
         /\ k = Len(Fields(x)) => Left(x, k) = {DropValue(x)[k]}
<1>1. Len(Fields(x)) \in Nat BY TwoOrders
<1>2. k .. Len(Fields(x)) = (k + 1 .. Len(Fields(x))) \cup {k} BY <1>1
<1> DEFINE n == Len(Fields(x))
<1>0. /\ \A m \in 1 .. n : \E j \in 1 .. n : Fields(x)[m] = DropValue(x)[j]
      /\ \A m \in 1 .. n : \E j \in 1 .. n : DropValue(x)[m] = Fields(x)[j]
      /\ \A m, j \in 1 .. n : DropValue(x)[m] = DropValue(x)[j] => m = j
  BY TwoOrders
<1>3. Left(x, 1) = FieldSet(x)
  <2>1. ASSUME NEW f \in Left(x, 1) PROVE f \in FieldSet(x)
    <3>1. PICK m \in 1 .. n : f = DropValue(x)[m] BY <2>1 DEF Left
    <3>2. PICK j \in 1 .. n : f = Fields(x)[j] BY <1>0, <3>1
    <3>3. QED BY <3>2 DEF FieldSet
  <2>2. ASSUME NEW f \in FieldSet(x) PROVE f \in Left(x, 1)
    <3>1. PICK m \in 1 .. n : f = Fields(x)[m] BY <2>2 DEF FieldSet
    <3>2. PICK j \in 1 .. n : f = DropValue(x)[j] BY <1>0, <3>1
    <3>3. QED BY <3>2 DEF Left
  <2>3. QED BY <2>1, <2>2
<1>4. DropValue(x)[k] \in Left(x, k) BY <1>2 DEF Left
<1>5. Left(x, k) = Left(x, k + 1) \cup {DropValue(x)[k]} BY <1>2 DEF Left
<1>6. ASSUME DropValue(x)[k] \in Left(x, k + 1) PROVE FALSE
  <2>1. PICK m \in k + 1 .. n : DropValue(x)[k] = DropValue(x)[m] BY <1>6 DEF Left
  <2>2. m \in 1 .. n /\ m # k BY <1>1
  <2>3. QED BY <1>0, <2>1, <2>2
<1>7. k = Len(Fields(x)) => Left(x, k + 1) = {} BY <1>1 DEF Left
<1>8. QED BY <1>3, <1>4, <1>5, <1>6, <1>7

\* A conversion or Drop has a thread, an address and a place in its values.
WorkOK(w) ==
  w.kind # "none" =>
    /\ w = [kind |-> w.kind, thread |-> w.thread, addr |-> w.addr, explain |-> w.explain,
            len |-> w.len, i |-> w.i, k |-> w.k]
    /\ w.kind \in {"convert", "unwind", "free"}
    /\ w.thread \in Callers /\ w.addr \in ResultIds
    /\ w.len \in Nat /\ w.i \in 1 .. w.len + 1
    /\ w.k \in 1 .. Len(Fields(w.explain)) /\ (w.i > w.len => w.k = 1)

\* Advance goes to the next field or to the next value.
LEMMA AdvanceOK ==
  ASSUME NEW w, WorkOK(w), w.kind # "none", w.i <= w.len,
         NEW n, n = Len(Fields(w.explain))
  PROVE  /\ WorkOK(Advance(w, n))
         /\ Advance(w, n).kind = w.kind /\ Advance(w, n).addr = w.addr
         /\ Advance(w, n).len = w.len /\ Advance(w, n).explain = w.explain
         /\ Advance(w, n).thread = w.thread
         /\ w.k < n => Advance(w, n).i = w.i /\ Advance(w, n).k = w.k + 1
         /\ w.k = n => Advance(w, n).i = w.i + 1 /\ Advance(w, n).k = 1
         /\ w.k < n \/ w.k = n
<1>1. n \in Nat \ {0} BY TwoOrders
<1>2. CASE w.k < n
  <2>1. Advance(w, n) = [kind |-> w.kind, thread |-> w.thread, addr |-> w.addr,
           explain |-> w.explain, len |-> w.len, i |-> w.i, k |-> w.k + 1]
    BY <1>2 DEF Advance, WorkOK
  <2>2. QED BY <1>1, <1>2, <2>1 DEF WorkOK
<1>3. CASE w.k = n
  <2>1. Advance(w, n) = [kind |-> w.kind, thread |-> w.thread, addr |-> w.addr,
           explain |-> w.explain, len |-> w.len, i |-> w.i + 1, k |-> 1]
    <3>1. ~(w.k < n) BY <1>1, <1>3
    <3>2. QED BY <1>3, <3>1 DEF Advance, WorkOK
  <2>2. QED BY <1>1, <1>3, <2>1 DEF WorkOK
<1>4. QED BY <1>1, <1>2, <1>3 DEF WorkOK

\* Making a field adds one block to what is live.
LEMMA LiveConvert ==
  ASSUME NEW w, WorkOK(w), w.kind = "convert", w.i <= w.len,
         NEW n, n = Len(Fields(w.explain))
  PROVE  Live(Advance(w, n)) = Live(w) \cup {<<w.addr, w.i, Fields(w.explain)[w.k]>>}
<1> DEFINE a == Advance(w, n)
           b == <<w.addr, w.i, Fields(w.explain)[w.k]>>
           A == Array(w.addr, w.len)
<1>1. /\ a.kind = "convert" /\ a.addr = w.addr /\ a.len = w.len /\ a.explain = w.explain
      /\ w.k < n => a.i = w.i /\ a.k = w.k + 1
      /\ w.k = n => a.i = w.i + 1 /\ a.k = 1
      /\ w.k < n \/ w.k = n
  BY AdvanceOK
<1>2. w.i \in Nat /\ w.k \in 1 .. n /\ w.i >= 1 BY DEF WorkOK
<1>3. Live(w) = A \cup Whole(w.addr, 1 .. w.i - 1, w.explain)
                  \cup Part(w.addr, w.i, Made(w.explain, w.k))
  BY DEF Live
<1>4. Live(a) = A \cup Whole(w.addr, 1 .. a.i - 1, w.explain)
                  \cup Part(w.addr, a.i, Made(w.explain, a.k))
  BY <1>1 DEF Live
<1> HIDE DEF a, A
<1>5. CASE w.k < n
  <2>1. Made(w.explain, a.k) = Made(w.explain, w.k) \cup {Fields(w.explain)[w.k]}
    <3>1. Made(w.explain, w.k + 1) = Made(w.explain, w.k) \cup {Fields(w.explain)[w.k]}
      BY <1>2, MadeNext
    <3>2. QED BY <1>1, <1>5, <3>1
  <2>2. Part(w.addr, a.i, Made(w.explain, a.k))
          = Part(w.addr, w.i, Made(w.explain, w.k)) \cup {b}
    BY <1>1, <1>5, <2>1 DEF Part
  <2>3. QED BY <1>1, <1>3, <1>4, <1>5, <2>2 DEF a
<1>6. CASE w.k = n
  <2>1. Made(w.explain, a.k) = {} BY <1>1, <1>2, <1>6, MadeNext
  <2>2. FieldSet(w.explain) = Made(w.explain, w.k) \cup {Fields(w.explain)[w.k]}
    BY <1>2, <1>6, MadeNext
  <2>3. 1 .. a.i - 1 = (1 .. w.i - 1) \cup {w.i} BY <1>1, <1>2, <1>6
  <2>4. Whole(w.addr, 1 .. a.i - 1, w.explain)
          = Whole(w.addr, 1 .. w.i - 1, w.explain) \cup Part(w.addr, w.i, FieldSet(w.explain))
    BY <2>3 DEF Whole, Part
  <2>5. Part(w.addr, w.i, FieldSet(w.explain))
          = Part(w.addr, w.i, Made(w.explain, w.k)) \cup {b}
    BY <2>2 DEF Part
  <2>6. Part(w.addr, a.i, Made(w.explain, a.k)) = {} BY <2>1 DEF Part
  <2>7. QED BY <1>3, <1>4, <2>4, <2>5, <2>6 DEF a
<1>7. QED BY <1>1, <1>5, <1>6

\* Dropping a field takes one block away, which was live.
LEMMA LiveDrop ==
  ASSUME NEW w, WorkOK(w), w.kind \in {"unwind", "free"}, w.i <= w.len,
         NEW n, n = Len(Fields(w.explain)),
         NEW b, b = <<w.addr, w.i, DropValue(w.explain)[w.k]>>
  PROVE  b \in Live(w) /\ Live(Advance(w, n)) = Live(w) \ {b}
<1> DEFINE a == Advance(w, n)
<1>1. /\ a.kind = w.kind /\ a.addr = w.addr /\ a.len = w.len /\ a.explain = w.explain
      /\ w.k < n => a.i = w.i /\ a.k = w.k + 1
      /\ w.k = n => a.i = w.i + 1 /\ a.k = 1
      /\ w.k < n \/ w.k = n
  BY AdvanceOK
<1>2. w.i \in Nat /\ w.len \in Nat /\ w.k \in 1 .. n /\ w.i >= 1 BY DEF WorkOK
<1>3. Live(w) = Shell(w) \cup Whole(w.addr, w.i + 1 .. w.len, w.explain)
                  \cup Part(w.addr, w.i, Left(w.explain, w.k))
  BY DEF Live
<1>4. Live(a) = Shell(w) \cup Whole(w.addr, a.i + 1 .. w.len, w.explain)
           \cup (IF a.i <= w.len THEN Part(w.addr, a.i, Left(w.explain, a.k)) ELSE {})
  BY <1>1 DEF Live, Shell
<1> HIDE DEF a
<1>5. b \notin Shell(w) BY <1>2 DEF Shell, Array, Box
<1>6. b \notin Whole(w.addr, w.i + 1 .. w.len, w.explain) BY <1>2 DEF Whole
<1>7. b \in Part(w.addr, w.i, Left(w.explain, w.k))
  BY <1>2, LeftNext DEF Part
<1>8. CASE w.k < n
  <2>1. Left(w.explain, a.k) = Left(w.explain, w.k) \ {DropValue(w.explain)[w.k]}
    BY <1>1, <1>2, <1>8, LeftNext
  <2>2. Part(w.addr, w.i, Left(w.explain, a.k)) = Part(w.addr, w.i, Left(w.explain, w.k)) \ {b}
    BY <2>1 DEF Part
  <2>3. a.i = w.i BY <1>1, <1>8
  <2>4. QED BY <1>3, <1>4, <1>5, <1>6, <1>7, <2>2, <2>3 DEF a
<1>9. CASE w.k = n
  <2>1. Part(w.addr, w.i, Left(w.explain, w.k)) = {b}
    <3>1. Left(w.explain, w.k) = {DropValue(w.explain)[w.k]} BY <1>2, <1>9, LeftNext
    <3>2. QED BY <3>1 DEF Part
  <2>2. Left(w.explain, a.k) = FieldSet(w.explain) BY <1>1, <1>2, <1>9, LeftNext
  <2>3. a.i = w.i + 1 BY <1>1, <1>9
  <2>4. Whole(w.addr, w.i + 1 .. w.len, w.explain)
          = Whole(w.addr, a.i + 1 .. w.len, w.explain)
              \cup (IF a.i <= w.len THEN Part(w.addr, a.i, Left(w.explain, a.k)) ELSE {})
    <3>1. CASE a.i <= w.len
      <4>1. w.i + 1 .. w.len = (a.i + 1 .. w.len) \cup {a.i} BY <1>2, <2>3, <3>1
      <4>2. QED BY <2>2, <3>1, <4>1 DEF Whole, Part
    <3>2. CASE ~(a.i <= w.len)
      <4>1. w.i + 1 .. w.len = {} /\ a.i + 1 .. w.len = {} BY <1>2, <2>3, <3>2
      <4>2. QED BY <3>2, <4>1 DEF Whole
    <3>3. QED BY <3>1, <3>2
  <2>5. QED BY <1>3, <1>4, <1>5, <1>6, <2>1, <2>4 DEF a
<1>10. QED BY <1>1, <1>3, <1>7, <1>8, <1>9

\* A conversion that has failed: the values pushed, and what is left of the next one.
Unwinding(w) == [kind |-> "unwind", thread |-> w.thread, addr |-> w.addr,
                 explain |-> w.explain, len |-> w.i - 1, i |-> 1, k |-> 1]
FailedAt(w)  == [addr |-> w.addr, explain |-> w.explain, i |-> w.i, k |-> w.k]

\* What was live is then split between the two.
LEMMA LiveUnwind ==
  ASSUME NEW w, WorkOK(w), w.kind = "convert", w.i <= w.len
  PROVE  /\ WorkOK(Unwinding(w)) /\ Unwinding(w).kind = "unwind"
         /\ Unwinding(w).addr = w.addr /\ Unwinding(w).len = w.i - 1
         /\ Live(w) = Live(Unwinding(w)) \cup LeftBy(FailedAt(w))
<1> DEFINE u == Unwinding(w)
           f == FailedAt(w)
<1> USE DEF Unwinding, FailedAt
<1>1. w.i \in Nat /\ w.len \in Nat /\ w.k \in 1 .. Len(Fields(w.explain)) /\ w.i >= 1
  BY DEF WorkOK
<1>2. WorkOK(u)
  <2>1. Len(Fields(w.explain)) \in Nat \ {0} BY TwoOrders
  <2>2. w.thread \in Callers /\ w.addr \in ResultIds BY DEF WorkOK
  <2>3. /\ u.kind = "unwind" /\ u.thread = w.thread /\ u.addr = w.addr
        /\ u.explain = w.explain /\ u.len = w.i - 1 /\ u.i = 1 /\ u.k = 1
    OBVIOUS
  <2>4. u.len \in Nat /\ u.i \in 1 .. u.len + 1 /\ u.k \in 1 .. Len(Fields(u.explain))
    BY <1>1, <2>1, <2>3
  <2>5. u = [kind |-> u.kind, thread |-> u.thread, addr |-> u.addr, explain |-> u.explain,
             len |-> u.len, i |-> u.i, k |-> u.k]
    BY <2>3
  <2>6. QED BY <2>2, <2>3, <2>4, <2>5 DEF WorkOK
<1>3. LeftBy(f) = Part(w.addr, w.i, Made(w.explain, w.k)) BY DEF LeftBy, Part, Made
<1>4. Live(w) = {<<w.addr, 0, "array">>} \cup Whole(w.addr, 1 .. w.i - 1, w.explain)
                  \cup Part(w.addr, w.i, Made(w.explain, w.k))
  BY <1>1 DEF Live, Array
<1>5. Left(w.explain, 1) = FieldSet(w.explain) BY <1>1, LeftNext
<1>6. Live(u) = {<<w.addr, 0, "array">>} \cup Whole(w.addr, 1 .. w.i - 1, w.explain)
  <2>1. Live(u) = {<<w.addr, 0, "array">>} \cup Whole(w.addr, 2 .. w.i - 1, w.explain)
           \cup (IF 1 <= w.i - 1 THEN Part(w.addr, 1, FieldSet(w.explain)) ELSE {})
    BY <1>5 DEF Live, Shell
  <2>2. CASE 1 <= w.i - 1
    <3>1. 1 .. w.i - 1 = (2 .. w.i - 1) \cup {1} BY <1>1, <2>2
    <3>2. QED BY <2>1, <2>2, <3>1 DEF Whole, Part
  <2>3. CASE ~(1 <= w.i - 1)
    <3>1. 1 .. w.i - 1 = {} /\ 2 .. w.i - 1 = {} BY <1>1, <2>3
    <3>2. QED BY <2>1, <2>3, <3>1 DEF Whole
  <2>4. QED BY <2>2, <2>3
<1>7. QED BY <1>2, <1>3, <1>4, <1>6

\* The blocks of a result: its buffer, its box and its whole values.
LEMMA BlocksAreWhole ==
  ASSUME NEW v, NEW r
  PROVE  BlocksOf(v, r) = Array(v, r.len) \cup {Box(v)} \cup Whole(v, 1 .. r.len, r.explain)
<1> DEFINE F == Fields(r.explain)
           B == {<<v, i, F[k]>> : i \in 1 .. r.len, k \in DOMAIN F}
<1>1. DOMAIN F = 1 .. Len(F) BY TwoOrders
<1>2. ASSUME NEW b \in B PROVE b \in Whole(v, 1 .. r.len, r.explain)
  <2>1. PICK i \in 1 .. r.len, k \in DOMAIN F : b = <<v, i, F[k]>> BY <1>2
  <2>2. F[k] \in FieldSet(r.explain) BY <1>1 DEF FieldSet
  <2>3. QED BY <2>1, <2>2 DEF Whole
<1>3. ASSUME NEW b \in Whole(v, 1 .. r.len, r.explain) PROVE b \in B
  <2>1. PICK i \in 1 .. r.len, f \in FieldSet(r.explain) : b = <<v, i, f>>
    BY <1>3 DEF Whole
  <2>2. PICK k \in DOMAIN F : f = F[k] BY <1>1 DEF FieldSet
  <2>3. QED BY <2>1, <2>2
<1>4. QED BY <1>2, <1>3 DEF BlocksOf

\* A finished conversion has made them, up to the box.
LEMMA LiveConverted ==
  ASSUME NEW w, WorkOK(w), w.kind = "convert", w.i > w.len,
         NEW r, r = [len |-> w.len, explain |-> w.explain]
  PROVE  Live(w) \cup {Box(w.addr)} = BlocksOf(w.addr, r)
<1>1. w.i - 1 = w.len /\ w.k = 1 BY DEF WorkOK
<1>2. Made(w.explain, w.k) = {} BY <1>1 DEF Made
<1>3. Part(w.addr, w.i, Made(w.explain, w.k)) = {} BY <1>2 DEF Part
<1>4. QED BY <1>1, <1>3, BlocksAreWhole DEF Live

\* A Drop begins with all of them.
LEMMA LiveFree ==
  ASSUME NEW v, NEW r, r.len \in Nat, NEW w,
         w.kind = "free", w.addr = v, w.explain = r.explain, w.len = r.len, w.i = 1, w.k = 1
  PROVE  Live(w) = BlocksOf(v, r)
<1>1. Left(r.explain, 1) = FieldSet(r.explain) BY TwoOrders, LeftNext
<1>2. Live(w) = Array(v, r.len) \cup {Box(v)} \cup Whole(v, 2 .. r.len, r.explain)
           \cup (IF 1 <= r.len THEN Part(v, 1, FieldSet(r.explain)) ELSE {})
  BY <1>1 DEF Live, Shell
<1>3. CASE 1 <= r.len
  <2>1. 1 .. r.len = (2 .. r.len) \cup {1} BY <1>3
  <2>2. Whole(v, 1 .. r.len, r.explain)
          = Whole(v, 2 .. r.len, r.explain) \cup Part(v, 1, FieldSet(r.explain))
    BY <2>1 DEF Whole, Part
  <2>3. QED BY <1>2, <1>3, <2>2, BlocksAreWhole
<1>4. CASE ~(1 <= r.len)
  <2>1. 1 .. r.len = {} /\ 2 .. r.len = {} BY <1>4
  <2>2. Whole(v, 1 .. r.len, r.explain) = {} /\ Whole(v, 2 .. r.len, r.explain) = {}
    BY <2>1 DEF Whole
  <2>3. QED BY <1>2, <1>4, <2>2, BlocksAreWhole
<1>5. QED BY <1>3, <1>4

\* A Drop that is through with the values has what it gives back last.
LEMMA LiveDropped ==
  ASSUME NEW w, WorkOK(w), w.kind \in {"unwind", "free"}, w.i > w.len
  PROVE  Live(w) = Releases(w)
<1>1. w.i + 1 .. w.len = {} /\ ~(w.i <= w.len) BY DEF WorkOK
<1>2. Whole(w.addr, w.i + 1 .. w.len, w.explain) = {} BY <1>1 DEF Whole
<1>3. QED BY <1>1, <1>2 DEF Live, Shell, Releases

ResultBlocks == UNION {BlocksOf(v, results[v]) : v \in DOMAIN results}
FailedBlocks == UNION {LeftBy(f) : f \in failed}

(***************************************************************************)
(* The inductive invariant of the memory: at every moment of a conversion  *)
(* or a Drop what is allocated is what results, failed conversions and the *)
(* work under way account for, and no two of these share an address,       *)
(* except a failed conversion that is still being unwound and the value it *)
(* failed at, which comes after those that are dropped.                    *)
(***************************************************************************)
MInv ==
  /\ WorkOK(work)
  /\ \A v \in DOMAIN results : results[v].len \in Nat
  /\ heap = ResultBlocks \cup FailedBlocks \cup Live(work)
  /\ \A b \in FailedBlocks : b[1] \notin DOMAIN results
  /\ work.kind # "none" =>
       /\ work.addr \notin DOMAIN results
       /\ \A b \in FailedBlocks : b[1] = work.addr => work.kind = "unwind" /\ b[2] > work.len

\* The blocks of results carry their addresses.
LEMMA ResultAddress ==
  /\ \A b \in ResultBlocks : b[1] \in DOMAIN results
  /\ \A v \in DOMAIN results : <<v, 0, "box">> \in ResultBlocks
<1>1. ASSUME NEW v, NEW r
      PROVE  <<v, 0, "box">> \in BlocksOf(v, r) /\ \A b \in BlocksOf(v, r) : b[1] = v
  BY DEF BlocksOf, Array, Box
<1>2. ASSUME NEW b \in ResultBlocks PROVE b[1] \in DOMAIN results
  <2>1. PICK v \in DOMAIN results : b \in BlocksOf(v, results[v]) BY <1>2 DEF ResultBlocks
  <2>2. QED BY <1>1, <2>1
<1>3. ASSUME NEW v \in DOMAIN results PROVE <<v, 0, "box">> \in ResultBlocks
  <2>1. <<v, 0, "box">> \in BlocksOf(v, results[v]) BY <1>1
  <2>2. QED BY <2>1 DEF ResultBlocks
<1>4. QED BY <1>2, <1>3

\* NoWork has nothing in its hands.
LEMMA NoWorkIsIdle == NoWork.kind = "none" /\ WorkOK(NoWork) /\ Live(NoWork) = {}
  BY DEF NoWork, WorkOK, Live

\* The program starts with no memory in use.
LEMMA InitMInv == Init => MInv
<1> SUFFICES ASSUME Init PROVE MInv OBVIOUS
<1>1. work = NoWork /\ DOMAIN results = {} /\ failed = {} /\ heap = {} BY DEF Init
<1>2. ResultBlocks = {} /\ FailedBlocks = {} BY <1>1 DEF ResultBlocks, FailedBlocks
<1>3. QED BY <1>1, <1>2, NoWorkIsIdle DEF MInv

\* A conversion begins at an address where nothing is.
LEMMA BeginMInv ==
  ASSUME MInv, NEW t \in Callers, convert_get_cfg_output_value(t)
  PROVE  MInv'
<1>1. PICK v \in ResultIds, len \in 0 .. MaxValues :
        /\ \A b \in heap : b[1] # v
        /\ heap' = heap \cup Array(v, len)
        /\ work' = [kind |-> "convert", thread |-> t, addr |-> v, explain |-> call[t].explain,
                    len |-> len, i |-> 1, k |-> 1]
  BY DEF convert_get_cfg_output_value
<1>2. work = NoWork /\ UNCHANGED <<results, failed>> BY DEF convert_get_cfg_output_value
<1>3. ResultBlocks' = ResultBlocks /\ FailedBlocks' = FailedBlocks
  BY <1>2 DEF ResultBlocks, FailedBlocks
<1>4. WorkOK(work')
  <2>1. Len(Fields(call[t].explain)) \in Nat \ {0} BY TwoOrders
  <2>2. len \in Nat BY ValuesAssumption
  <2>3. QED BY <1>1, <2>1, <2>2 DEF WorkOK
<1>5. Live(work') = Array(v, len)
  <2>1. Made(call[t].explain, 1) = {} BY DEF Made
  <2>2. Part(v, 1, {}) = {} /\ Whole(v, 1 .. 1 - 1, call[t].explain) = {} BY DEF Part, Whole
  <2>3. QED BY <1>1, <2>1, <2>2 DEF Live
<1>6. heap = ResultBlocks \cup FailedBlocks BY <1>2, NoWorkIsIdle DEF MInv
<1>7. v \notin DOMAIN results
  <2>1. <<v, 0, "box">> \notin heap BY <1>1
  <2>2. QED BY <1>6, <2>1, ResultAddress
<1>8. \A b \in FailedBlocks : b[1] # v BY <1>1, <1>6
<1>9. work'.addr = v BY <1>1
<1>10. QED BY <1>1, <1>2, <1>3, <1>4, <1>5, <1>6, <1>7, <1>8, <1>9 DEF MInv

\* A field is made.
LEMMA ConvertFieldMInv ==
  ASSUME MInv, ConvertField
  PROVE  MInv'
<1> DEFINE n == Len(Fields(work.explain))
<1>1. /\ work.kind = "convert" /\ work.i <= work.len /\ work' = Advance(work, n)
      /\ heap' = heap \cup {<<work.addr, work.i, Fields(work.explain)[work.k]>>}
      /\ UNCHANGED <<results, failed>>
  BY DEF ConvertField, Converting
<1>2. ResultBlocks' = ResultBlocks /\ FailedBlocks' = FailedBlocks
  BY <1>1 DEF ResultBlocks, FailedBlocks
<1>3. WorkOK(work) /\ WorkOK(work') BY <1>1, AdvanceOK DEF MInv
<1>4. work'.kind = work.kind /\ work'.addr = work.addr /\ work'.len = work.len
  BY <1>1, <1>3, AdvanceOK
<1>5. Live(work') = Live(work) \cup {<<work.addr, work.i, Fields(work.explain)[work.k]>>}
  BY <1>1, <1>3, LiveConvert
<1>6. QED BY <1>1, <1>2, <1>3, <1>4, <1>5 DEF MInv

\* A conversion fails: what it leaves counts as the failed conversion's.
LEMMA ConvertNulMInv ==
  ASSUME MInv, ConvertNul
  PROVE  MInv'
<1> DEFINE f == FailedAt(work)
<1>1. /\ work.kind = "convert" /\ work.i <= work.len
      /\ work' = [work EXCEPT !.kind = "unwind", !.len = work.i - 1, !.i = 1, !.k = 1]
      /\ failed' = failed \cup {f} /\ UNCHANGED <<results, heap>>
  BY DEF ConvertNul, Converting, FailedAt
<1>2. ResultBlocks' = ResultBlocks /\ FailedBlocks' = FailedBlocks \cup LeftBy(f)
  BY <1>1 DEF ResultBlocks, FailedBlocks
<1>3. WorkOK(work) BY DEF MInv
<1>4. /\ WorkOK(work') /\ work'.kind = "unwind" /\ work'.addr = work.addr
      /\ work'.len = work.i - 1 /\ Live(work) = Live(work') \cup LeftBy(f)
  <2>1. work' = Unwinding(work) BY <1>1, <1>3 DEF WorkOK, Unwinding
  <2>2. QED BY <1>1, <1>3, <2>1, LiveUnwind
<1>5. \A b \in LeftBy(f) : b[1] = work.addr /\ b[2] = work.i BY DEF LeftBy, FailedAt
<1> HIDE DEF f
<1>6. work.i \in Nat BY <1>1, <1>3 DEF WorkOK
<1>7. \A b \in LeftBy(f) : b[1] \notin DOMAIN results /\ b[2] > work'.len
  BY <1>1, <1>4, <1>5, <1>6 DEF MInv
<1>8. \A b \in FailedBlocks : b[1] # work.addr BY <1>1 DEF MInv
<1>9. QED BY <1>1, <1>2, <1>4, <1>7, <1>8 DEF MInv

\* The application gets a result.
LEMMA ConvertEndMInv ==
  ASSUME MInv, ConvertEnd
  PROVE  MInv'
<1> DEFINE v == work.addr
           r == [len |-> work.len, explain |-> work.explain]
<1>1. /\ work.kind = "convert" /\ work.i > work.len /\ work' = NoWork
      /\ heap' = heap \cup {Box(v)} /\ UNCHANGED failed
      /\ results' = [u \in DOMAIN results \cup {v} |-> IF u = v THEN r ELSE results[u]]
  BY DEF ConvertEnd, Converting
<1>2. WorkOK(work) /\ v \notin DOMAIN results BY <1>1 DEF MInv
<1>3. /\ DOMAIN results' = DOMAIN results \cup {v} /\ results'[v] = r
      /\ \A u \in DOMAIN results : results'[u] = results[u]
  BY <1>1, <1>2
<1>4. Live(work) \cup {Box(v)} = BlocksOf(v, r) BY <1>1, <1>2, LiveConverted
<1>5. r.len \in Nat BY <1>1, <1>2 DEF WorkOK
<1>6. \A b \in FailedBlocks : b[1] # v BY <1>1 DEF MInv
<1> HIDE DEF r, v
<1>7. ResultBlocks' = ResultBlocks \cup BlocksOf(v, r) BY <1>3 DEF ResultBlocks
<1>8. FailedBlocks' = FailedBlocks BY <1>1 DEF FailedBlocks
<1>9. heap' = ResultBlocks' \cup FailedBlocks' \cup Live(work')
  BY <1>1, <1>4, <1>7, <1>8, NoWorkIsIdle DEF MInv
<1>10. \A u \in DOMAIN results' : results'[u].len \in Nat BY <1>3, <1>5 DEF MInv
<1>11. \A b \in FailedBlocks' : b[1] \notin DOMAIN results' BY <1>3, <1>6, <1>8 DEF MInv
<1>12. QED BY <1>1, <1>9, <1>10, <1>11, NoWorkIsIdle DEF MInv

\* The Drop of a result begins with the blocks of that result.
LEMMA FreeMInv ==
  ASSUME MInv, NEW t \in Callers, NEW v \in ResultIds, free_config_values(t, v)
  PROVE  MInv'
<1> DEFINE r == results[v]
<1>1. /\ v \in DOMAIN results /\ work = NoWork /\ UNCHANGED <<heap, failed>>
      /\ results' = [u \in DOMAIN results \ {v} |-> results[u]]
      /\ work' = [kind |-> "free", thread |-> t, addr |-> v, explain |-> r.explain,
                  len |-> r.len, i |-> 1, k |-> 1]
  BY DEF free_config_values, Ready
<1>2. r.len \in Nat BY <1>1 DEF MInv
<1>3. /\ DOMAIN results' = DOMAIN results \ {v}
      /\ \A u \in DOMAIN results' : results'[u] = results[u]
  BY <1>1
<1>4. Live(work') = BlocksOf(v, r) BY <1>1, <1>2, LiveFree
<1>5. WorkOK(work')
  <2>1. Len(Fields(r.explain)) \in Nat \ {0} BY TwoOrders
  <2> HIDE DEF r
  <2>2. QED BY <1>1, <1>2, <2>1 DEF WorkOK
<1>6. ResultBlocks = ResultBlocks' \cup BlocksOf(v, r) BY <1>1, <1>3 DEF ResultBlocks
<1>7. FailedBlocks' = FailedBlocks BY <1>1 DEF FailedBlocks
<1>8. heap = ResultBlocks \cup FailedBlocks BY <1>1, NoWorkIsIdle DEF MInv
<1>9. \A b \in FailedBlocks : b[1] # v BY <1>1 DEF MInv
<1>10. work'.addr = v BY <1>1
<1> HIDE DEF r
<1>11. QED
  BY <1>1, <1>3, <1>4, <1>5, <1>6, <1>7, <1>8, <1>9, <1>10 DEF MInv

\* A field is dropped.
LEMMA DropFieldMInv ==
  ASSUME MInv, DropField
  PROVE  MInv'
<1> DEFINE n == Len(Fields(work.explain))
           b == <<work.addr, work.i, DropValue(work.explain)[work.k]>>
<1>1. /\ work.kind \in {"unwind", "free"} /\ work.i <= work.len /\ heap' = heap \ {b}
      /\ work' = Advance(work, Len(DropValue(work.explain))) /\ UNCHANGED <<results, failed>>
  BY DEF DropField, Dropping, Releases
<1>2. work' = Advance(work, n) BY <1>1, TwoOrders
<1>3. WorkOK(work) /\ WorkOK(work') BY <1>1, <1>2, AdvanceOK DEF MInv
<1>4. work'.kind = work.kind /\ work'.addr = work.addr /\ work'.len = work.len
  BY <1>1, <1>2, <1>3, AdvanceOK
<1>5. Live(work') = Live(work) \ {b} BY <1>1, <1>2, <1>3, LiveDrop
<1>6. b \notin ResultBlocks BY <1>1, ResultAddress DEF MInv
<1>7. b \notin FailedBlocks
  <2>1. work.i \in Nat /\ work.len \in Nat BY <1>1, <1>3 DEF WorkOK
  <2>2. QED BY <1>1, <2>1 DEF MInv
<1>8. ResultBlocks' = ResultBlocks /\ FailedBlocks' = FailedBlocks
  BY <1>1 DEF ResultBlocks, FailedBlocks
<1> HIDE DEF b
<1>9. QED BY <1>1, <1>3, <1>4, <1>5, <1>6, <1>7, <1>8 DEF MInv

\* A Drop ends: nothing of it is left.
LEMMA DropEndMInv ==
  ASSUME MInv, DropEnd
  PROVE  MInv'
<1>1. /\ work.kind \in {"unwind", "free"} /\ work.i > work.len /\ heap' = heap \ Releases(work)
      /\ work' = NoWork /\ UNCHANGED <<results, failed>>
  BY DEF DropEnd, Dropping
<1>2. WorkOK(work) BY DEF MInv
<1>3. Live(work) = Releases(work) BY <1>1, <1>2, LiveDropped
<1>4. \A b \in Releases(work) : b[1] = work.addr /\ b[2] = 0
  BY <1>1, <1>2 DEF Releases, Array, Box, WorkOK
<1>5. \A b \in ResultBlocks : b[1] # work.addr BY <1>1, ResultAddress DEF MInv
<1>6. \A b \in FailedBlocks : b \notin Releases(work)
  <2>1. work.len \in Nat BY <1>1, <1>2 DEF WorkOK
  <2>2. QED BY <1>1, <1>4, <2>1 DEF MInv
<1>7. ResultBlocks' = ResultBlocks /\ FailedBlocks' = FailedBlocks
  BY <1>1 DEF ResultBlocks, FailedBlocks
<1>8. heap' = ResultBlocks' \cup FailedBlocks' \cup Live(work')
  BY <1>1, <1>3, <1>4, <1>5, <1>6, <1>7, NoWorkIsIdle DEF MInv
<1>9. QED BY <1>1, <1>7, <1>8, NoWorkIsIdle DEF MInv

\* No other step touches results or their memory.
LEMMA NextMInv == MInv /\ [Next]_vars => MInv'
<1> SUFFICES ASSUME MInv, [Next]_vars PROVE MInv' OBVIOUS
<1>1. CASE UNCHANGED valueVars BY <1>1 DEF MInv, ResultBlocks, FailedBlocks
<1>2. CASE MemoryStep
  BY <1>2, ConvertFieldMInv, ConvertNulMInv, ConvertEndMInv, DropFieldMInv, DropEndMInv
     DEF MemoryStep
<1>3. CASE Next /\ ~MemoryStep /\ (\A t \in Callers : ~convert_get_cfg_output_value(t))
             /\ \A t \in Callers, v \in ResultIds : ~free_config_values(t, v)
  <2>1. UNCHANGED valueVars
    BY <1>3 DEF Next, MemoryStep, new_config_center_client, free_config_center, get_last_error,
       create_namespace, free_namespace, get_config, new_whoami, free_whoami,
       UpdateBegin, UpdateEnd
  <2>2. QED BY <1>1, <2>1
<1>4. QED BY <1>1, <1>2, <1>3, BeginMInv, FreeMInv DEF vars

(***************************************************************************)
(* Memory: for any number of values, with and without explanations, what   *)
(* convert_get_cfg_output_value allocates is released when the result is   *)
(* freed, and when a conversion fails at any field of any value all is     *)
(* released but what that one value had turned into raw pointers.          *)
(***************************************************************************)
THEOREM MemoryIsAccounted == Spec => []HeapAccounted
<1>1. MInv => HeapAccounted
  <2>1. MInv /\ work = NoWork => heap = ResultBlocks \cup FailedBlocks
    BY NoWorkIsIdle DEF MInv
  <2>2. QED BY <2>1 DEF HeapAccounted, ResultBlocks, FailedBlocks
<1>2. QED BY <1>1, InitMInv, NextMInv, PTL DEF Spec

(***************************************************************************)
(* The nested Drops of ffi.rs release no block twice and none that was not *)
(* allocated, on the way of free_config_values and on that of `?`.         *)
(***************************************************************************)
THEOREM ReleasesAreAllocated == Spec => []ReleasesAllocated
<1>1. ASSUME MInv, Dropping PROVE Releases(work) \subseteq heap
  <2>1. WorkOK(work) /\ work.kind \in {"unwind", "free"} BY <1>1 DEF MInv, Dropping
  <2>2. CASE work.i <= work.len
    <3>1. <<work.addr, work.i, DropValue(work.explain)[work.k]>> \in Live(work)
      BY <2>1, <2>2, LiveDrop
    <3>2. QED BY <1>1, <2>2, <3>1 DEF MInv, Releases
  <2>3. CASE work.i > work.len BY <1>1, <2>1, <2>3, LiveDropped DEF MInv
  <2>4. QED BY <2>1, <2>2, <2>3 DEF WorkOK
<1>2. QED BY <1>1, InitMInv, NextMInv, PTL DEF Spec, ReleasesAllocated

-----------------------------------------------------------------------------
(***************************************************************************)
(* Types, and the error of each thread.                                    *)
(***************************************************************************)

\* A call that is going on keeps its WhoAmI; results have addresses.
OwnInv ==
  /\ whoamis \subseteq WhoAmIs /\ DOMAIN results \subseteq ResultIds
  /\ \A t \in Callers : call[t] # NoCall => call[t].whoami \in whoamis

\* No WhoAmI is freed under a call.
LEMMA NextOwnInv == PInv /\ MInv /\ OwnInv /\ [Next]_vars => OwnInv'
<1> SUFFICES ASSUME PInv, MInv, OwnInv, [Next]_vars PROVE OwnInv' OBVIOUS
<1>0. call = [t \in Callers |-> call[t]] BY DEF PInv, PointerTypes
<1>1. CASE UNCHANGED <<whoamis, results, call>> BY <1>1 DEF OwnInv
<1>2. ASSUME NEW t \in Callers, NEW w \in WhoAmIs, new_whoami(t, w) \/ free_whoami(t, w)
      PROVE  OwnInv'
  BY <1>2 DEF new_whoami, free_whoami, InUse, OwnInv
<1>3. ASSUME NEW t \in Callers, NEW o \in Namespaces, NEW w \in WhoAmIs,
             NEW explain \in BOOLEAN, get_config(t, o, w, explain)
      PROVE  OwnInv'
  BY <1>0, <1>3 DEF get_config, convert_get_cfg_input_value, OwnInv
<1>4. CASE MemoryStep
  <2>1. DOMAIN results' \subseteq ResultIds
    <3>1. CASE ConvertEnd
      <4>1. work.addr \in ResultIds BY <3>1 DEF ConvertEnd, Converting, MInv, WorkOK
      <4>2. DOMAIN results' = DOMAIN results \cup {work.addr} BY <3>1 DEF ConvertEnd
      <4>3. QED BY <4>1, <4>2 DEF OwnInv
    <3>2. CASE ~ConvertEnd
      BY <1>4, <3>2 DEF MemoryStep, ConvertField, ConvertNul, DropField, DropEnd, OwnInv
    <3>3. QED BY <3>1, <3>2
  <2>2. whoamis' = whoamis /\ (UNCHANGED call \/ call' = [call EXCEPT ![work.thread] = NoCall])
    BY <1>4, MemoryEndsCall
  <2>3. QED BY <1>0, <2>1, <2>2 DEF OwnInv
<1>5. ASSUME NEW t \in Callers, NEW v \in ResultIds, free_config_values(t, v) PROVE OwnInv'
  BY <1>5 DEF free_config_values, OwnInv
<1>6. ASSUME NEW t \in Callers,
             \/ \E cfg \in Configs : new_config_center_client(t, cfg)
             \/ free_config_center(t) \/ get_last_error(t)
             \/ \E o \in Namespaces, n \in Names : create_namespace(t, o, n)
             \/ \E o \in Namespaces : free_namespace(t, o)
             \/ convert_get_cfg_output_value(t)
      PROVE  OwnInv'
  BY <1>1, <1>6 DEF new_config_center_client, free_config_center, get_last_error,
                    create_namespace, free_namespace, convert_get_cfg_output_value
<1>7. CASE UpdateEnd \/ \E n \in Names : UpdateBegin(n)
  BY <1>1, <1>7 DEF UpdateBegin, UpdateEnd
<1>8. QED BY <1>1, <1>2, <1>3, <1>4, <1>5, <1>6, <1>7 DEF Next, vars, MemoryStep

\* Objects, counts and results of ffi.rs have the types they stand for: an Arc never
\* has more than two owners, and no call runs with a WhoAmI that was freed.
THEOREM TypeCorrect == Spec => []TypeOK
<1>1. Init => PInv /\ OwnInv /\ MInv
  <2>1. Init => OwnInv BY DEF Init, OwnInv
  <2>2. QED BY <2>1, InitPInv, InitMInv
<1>2. PInv /\ OwnInv /\ MInv => TypeOK
  <2> SUFFICES ASSUME PInv, OwnInv, MInv PROVE TypeOK OBVIOUS
  <2>1. strong \in [Namespaces -> 0 .. 2]
    <3>1. \A o \in Namespaces : strong[o] \in 0 .. 2 BY DEF PInv, CountInv
    <3>2. QED BY <3>1 DEF PInv, PointerTypes
  <2>2. inner \in 0 .. 2 /\ center \in {"none", "held", "freed"} BY DEF PInv, CenterInv
  <2>3. work.kind # "none" => work.thread \in Callers /\ work.addr \in ResultIds
    BY DEF MInv, WorkOK
  <2>4. QED BY <2>1, <2>2, <2>3 DEF PInv, PointerTypes, OwnInv, TypeOK
<1>3. QED BY <1>1, <1>2, NextPInv, NextOwnInv, NextMInv, PTL DEF Spec

\* LAST_ERROR of a thread is the error its last call ended with, if it did with one.
ErrorInv ==
  /\ last_error = [t \in Callers |-> last_error[t]]
  /\ exposed = [t \in Callers |-> exposed[t]] /\ why = [t \in Callers |-> why[t]]
  /\ \A t \in Callers : why[t] # NoError => last_error[t] = why[t]

\* A call writes the error of its own thread, and only get_last_error shows one.
LEMMA StepErrors ==
  ASSUME MInv, [Next]_vars
  PROVE  \/ UNCHANGED errVars
         \/ \E t \in Callers : Succeeds(t) \/ (\E e : Fails(t, e)) \/ get_last_error(t)
<1>1. ASSUME NEW t \in Callers,
             \/ \E cfg \in Configs : new_config_center_client(t, cfg)
             \/ \E o \in Namespaces, n \in Names : create_namespace(t, o, n)
             \/ \E o \in Namespaces, w \in WhoAmIs, explain \in BOOLEAN :
                  get_config(t, o, w, explain)
             \/ \E w \in WhoAmIs : new_whoami(t, w)
      PROVE  UNCHANGED errVars \/ Succeeds(t) \/ \E e : Fails(t, e)
  <2>1. ASSUME NEW cfg \in Configs, new_config_center_client(t, cfg)
        PROVE  Succeeds(t) \/ \E e : Fails(t, e)
    BY <2>1, Zenon DEF new_config_center_client
  <2>2. ASSUME NEW o \in Namespaces, NEW n \in Names, create_namespace(t, o, n)
        PROVE  Succeeds(t) \/ \E e : Fails(t, e)
    BY <2>2, Zenon DEF create_namespace
  <2>3. ASSUME NEW o \in Namespaces, NEW w \in WhoAmIs, NEW explain \in BOOLEAN,
               get_config(t, o, w, explain)
        PROVE  UNCHANGED errVars \/ \E e : Fails(t, e)
    BY <2>3, Zenon DEF get_config, convert_get_cfg_input_value
  <2>4. ASSUME NEW w \in WhoAmIs, new_whoami(t, w) PROVE Succeeds(t)
    BY <2>4, Zenon DEF new_whoami
  <2>5. QED BY <1>1, <2>1, <2>2, <2>3, <2>4, Zenon
<1>2. ASSUME NEW t \in Callers,
             \/ free_config_center(t) \/ \E o \in Namespaces : free_namespace(t, o)
             \/ \E w \in WhoAmIs : free_whoami(t, w)
             \/ \E v \in ResultIds : free_config_values(t, v)
             \/ convert_get_cfg_output_value(t)
      PROVE  UNCHANGED errVars
  BY <1>2 DEF free_config_center, free_namespace, free_whoami, free_config_values,
              convert_get_cfg_output_value
<1>3. CASE UpdateEnd \/ \E n \in Names : UpdateBegin(n)
  BY <1>3 DEF UpdateBegin, UpdateEnd
<1>4. CASE UNCHANGED vars BY <1>4 DEF vars
<1>5. CASE ConvertField \/ ConvertNul \/ DropField
  BY <1>5 DEF ConvertField, ConvertNul, DropField
<1>6. CASE ConvertEnd \/ DropEnd
  <2>1. work.thread \in Callers
    BY <1>6 DEF ConvertEnd, DropEnd, Converting, Dropping, MInv, WorkOK
  <2>2. UNCHANGED errVars \/ Succeeds(work.thread) \/ \E e : Fails(work.thread, e)
    BY <1>6, Zenon DEF ConvertEnd, DropEnd
  <2>3. QED BY <2>1, <2>2, Zenon
<1>7. QED BY <1>1, <1>2, <1>3, <1>4, <1>5, <1>6, Zenon DEF Next

\* ErrorInv is inductive.
LEMMA NextErrorInv == MInv /\ ErrorInv /\ [Next]_vars => ErrorInv'
<1> SUFFICES ASSUME MInv, ErrorInv, [Next]_vars PROVE ErrorInv' OBVIOUS
<1>1. CASE UNCHANGED errVars BY <1>1 DEF ErrorInv
<1>2. ASSUME NEW t \in Callers, Succeeds(t) PROVE ErrorInv'
  BY <1>2 DEF Succeeds, ErrorInv
<1>3. ASSUME NEW t \in Callers, NEW e, Fails(t, e) PROVE ErrorInv'
  BY <1>3 DEF Fails, set_last_error, ErrorInv
<1>4. ASSUME NEW t \in Callers, get_last_error(t) PROVE ErrorInv'
  BY <1>4 DEF get_last_error, ErrorInv
<1>5. QED BY <1>1, <1>2, <1>3, <1>4, StepErrors

(***************************************************************************)
(* LAST_ERROR of ffi.rs is thread-local: for any number of threads,        *)
(* get_last_error explains the null pointer its own thread got last, with  *)
(* an empty text if the message has a NUL byte in it, and the string it    *)
(* gave out stays until that thread asks again.                            *)
(***************************************************************************)
THEOREM NullsAreExplained == Spec => NullIsExplained
<1> DEFINE Shown(e) == IF e \in NulMessages THEN NoError ELSE e
<1>1. Init => ErrorInv BY DEF Init, ErrorInv
<1>2. MInv /\ ErrorInv /\ [Next]_vars =>
        [\A t \in Callers :
           /\ get_last_error(t) /\ why[t] # NoError => exposed'[t] = Shown(why[t])
           /\ exposed'[t] # exposed[t] => get_last_error(t)]_vars
  <2> SUFFICES ASSUME MInv, ErrorInv, [Next]_vars, NEW t \in Callers
               PROVE  /\ get_last_error(t) /\ why[t] # NoError => exposed'[t] = Shown(why[t])
                      /\ exposed'[t] # exposed[t] => get_last_error(t)
    OBVIOUS
  <2>1. get_last_error(t) /\ why[t] # NoError => exposed'[t] = Shown(why[t])
    BY DEF get_last_error, CStringOrDefault, ErrorInv
  <2>2. ASSUME exposed'[t] # exposed[t] PROVE get_last_error(t)
    <3>1. PICK u \in Callers : get_last_error(u)
      BY <2>2, StepErrors DEF Succeeds, Fails
    <3>2. u = t BY <2>2, <3>1 DEF get_last_error, ErrorInv
    <3>3. QED BY <3>1, <3>2
  <2>3. QED BY <2>1, <2>2
<1>3. QED BY <1>1, <1>2, NextErrorInv, InitMInv, NextMInv, PTL DEF Spec, NullIsExplained
=============================================================================
