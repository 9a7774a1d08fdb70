-------------------------- MODULE DiscoveryProofs --------------------------
(***************************************************************************)
(* For every set of GATT tables: discovery keeps its types, it attributes  *)
(* nothing to a characteristic that is not the characteristic's own or an  *)
(* unknown one's, and finds every CCC it searches for.                     *)
(*                                                                         *)
(* The invariant says which part of the table the searches have covered:   *)
(* value handles are the device's and in one service (ValuesOwn), a CCC is *)
(* attributed to the closest value handle below it (CccClosest), and none  *)
(* that lies behind the start of the search is left out (AllAttributed).   *)
(***************************************************************************)
EXTENDS Discovery, TLAPS

Zero == [i \in DOMAIN Attrs |-> 0]

\* The node is cleared; a CCC is only known when the descriptors are searched.
Cleared ==
  /\ phase \in {"service16", "service128"} => value = Zero
  /\ phase \in {"service16", "service128", "characteristics"} => ccc = Zero

\* The search is confined to one service.
OneService ==
  phase \in {"characteristics", "descriptors"} =>
    /\ last \in DOMAIN table
    /\ last < Len(table) => table[last + 1] \in Services
    /\ phase = "characteristics" =>
         \A g \in DOMAIN table : cursor <= g /\ g <= last => table[g] \notin Services

\* A value handle is that of its characteristic, in the service that is searched.
ValuesOwn ==
  \A i \in DOMAIN Attrs :
    value[i] # 0 =>
      /\ value[i] - 1 \in DOMAIN table /\ table[value[i] - 1] = Attrs[i]
      /\ value[i] \in DOMAIN table
      /\ phase \in {"characteristics", "descriptors"} =>
           /\ value[i] <= last
           /\ \A g \in DOMAIN table : value[i] <= g /\ g <= last => table[g] \notin Services

\* A CCC is attributed to the closest value handle below it.
CccClosest ==
  \A i \in DOMAIN Attrs :
    value[i] # 0 /\ ccc[i] # 0 =>
      /\ ccc[i] \in DOMAIN table /\ table[ccc[i]] = "ccc"
      /\ value[i] < ccc[i]
      /\ \A j \in DOMAIN Attrs : value[j] < ccc[i] => value[j] <= value[i]
      /\ \A g \in DOMAIN table : value[i] <= g /\ g <= ccc[i] => table[g] \notin Services

\* The CCCs that discovery owes a characteristic
Due(i, c) ==
  /\ value[i] # 0 /\ c \in DOMAIN table
  /\ table[c] = "ccc" /\ Owns(value[i] - 1, c)
  /\ \E j \in DOMAIN Attrs : value[j] + 1 < c

\* Those that the host has reported are attributed.
AllAttributed ==
  intact =>
    \A i \in DOMAIN Attrs, c \in DOMAIN table :
      Due(i, c) /\ (outcome \in {"uplink", "cert"} \/ (phase = "descriptors" /\ c < cursor))
        => ccc[i] # 0

\* While a search is under way, nothing is decided.
Undecided == phase # "idle" => outcome = "none"

Inv ==
  /\ TypeOK /\ Cleared /\ OneService /\ ValuesOwn /\ CccClosest /\ AllAttributed
  /\ Undecided

-----------------------------------------------------------------------------
\* The enumeration of the characteristics
LEMMA AttrsFacts ==
  /\ DOMAIN Attrs = 1 .. 5
  /\ \A i \in DOMAIN Attrs : Attrs[i] \in Declarations
  /\ \A i, j \in DOMAIN Attrs : Attrs[i] = Attrs[j] => i = j
  /\ Services \cap Declarations = {}
  /\ "ccc" \notin Declarations /\ "value" \notin Declarations
  /\ "value" \notin Services /\ "ccc" \notin Services
  BY DEF Attrs, Declarations, Services

\* A table has a handle for every position, and a value behind each declaration.
LEMMA TableFacts ==
  ASSUME TypeOK
  PROVE  /\ Len(table) \in Nat /\ Len(table) <= LastHandle
         /\ DOMAIN table = 1 .. Len(table)
         /\ \A h \in DOMAIN table :
              table[h] \in Declarations => h + 1 \in DOMAIN table /\ table[h + 1] = "value"
<1> DEFINE Kinds == Services \union Declarations \union {"value", "ccc", "desc"}
<1>1. table \in Tables
  BY DEF TypeOK
<1>2. table \in Seq(Kinds) /\ Len(table) <= LastHandle
  BY <1>1, TableAssumption, HandleAssumption
<1>3. \A h \in DOMAIN table :
        table[h] \in Declarations => h + 1 \in DOMAIN table /\ table[h + 1] = "value"
  BY <1>1, TableAssumption, HandleAssumption
<1> HIDE DEF Kinds
<1>4. QED
  BY <1>2, <1>3

\* Handles are numbers.
LEMMA HandleFacts ==
  ASSUME TypeOK
  PROVE  /\ \A i \in DOMAIN Attrs : value[i] \in Nat /\ value[i] <= LastHandle
         /\ \A i \in DOMAIN Attrs : ccc[i] \in Nat /\ ccc[i] <= LastHandle
         /\ cursor \in Nat /\ last \in Nat /\ last <= LastHandle
  BY HandleAssumption DEF TypeOK, Handles

\* What the node holds is the device's, in a state of the invariant.
LEMMA InvImpliesOwn ==
  ASSUME TypeOK, ValuesOwn, CccClosest
  PROVE  HandlesAreOwn
<1>1. SUFFICES ASSUME NEW i \in DOMAIN Attrs, value[i] # 0
               PROVE  /\ value[i] - 1 \in DOMAIN table /\ table[value[i] - 1] = Attrs[i]
                      /\ ccc[i] # 0 =>
                           /\ ccc[i] \in DOMAIN table /\ table[ccc[i]] = "ccc"
                           /\ \A g \in value[i] .. ccc[i] : table[g] \notin Services
                           /\ \A d \in DOMAIN table :
                                Owns(d, ccc[i]) =>
                                  d + 1 = value[i] \/ \A j \in DOMAIN Attrs : value[j] # d + 1
  BY DEF HandlesAreOwn
<1>2. /\ DOMAIN table = 1 .. Len(table) /\ Len(table) \in Nat
      /\ \A h \in DOMAIN table : table[h] \in Declarations => table[h + 1] = "value"
  BY TableFacts
<1>3. value[i] \in Nat /\ ccc[i] \in Nat
  BY HandleFacts
<1>4. /\ value[i] - 1 \in DOMAIN table /\ table[value[i] - 1] = Attrs[i]
      /\ value[i] \in DOMAIN table /\ Attrs[i] \in Declarations
  BY <1>1, AttrsFacts DEF ValuesOwn
<1>5. ASSUME ccc[i] # 0
      PROVE  /\ ccc[i] \in DOMAIN table /\ table[ccc[i]] = "ccc"
             /\ value[i] < ccc[i]
             /\ \A j \in DOMAIN Attrs : value[j] < ccc[i] => value[j] <= value[i]
             /\ \A g \in DOMAIN table : value[i] <= g /\ g <= ccc[i] => table[g] \notin Services
  BY <1>1, <1>5 DEF CccClosest
<1>6. ASSUME ccc[i] # 0
      PROVE  \A g \in value[i] .. ccc[i] : table[g] \notin Services
  BY <1>2, <1>3, <1>4, <1>5, <1>6
<1>7. ASSUME ccc[i] # 0, NEW d \in DOMAIN table, Owns(d, ccc[i]),
             NEW j \in DOMAIN Attrs, value[j] = d + 1
      PROVE  d + 1 = value[i]
  <2>1. /\ d < ccc[i] /\ table[d] \in Declarations
        /\ \A e \in d + 1 .. ccc[i] : table[e] \notin Declarations \union Services
    BY <1>7 DEF Owns
  <2>2. table[d + 1] = "value" /\ table[ccc[i]] = "ccc"
    BY <1>2, <1>5, <1>7, <2>1
  <2>3. d \in Int /\ d + 1 < ccc[i]
    BY <1>2, <1>3, <1>7, <2>1, <2>2
  <2>4. value[j] <= value[i]
    BY <1>5, <1>7, <2>3
  <2>5. ASSUME d < value[i] - 1
        PROVE  FALSE
    <3>1. value[i] - 1 \in d + 1 .. ccc[i]
      BY <1>3, <1>5, <1>7, <2>3, <2>5
    <3>2. QED
      BY <1>4, <2>1, <3>1
  <2>6. QED
    BY <1>3, <1>7, <2>3, <2>4, <2>5
<1>8. QED
  BY <1>4, <1>5, <1>6, <1>7

-----------------------------------------------------------------------------
\* Two characteristics are found before descriptors are searched, so the search
\* starts inside the service.
LEMMA SearchStartsInside ==
  ASSUME TypeOK, OneService, ValuesOwn, phase = "characteristics",
         Has("uplink"), Has("downlink"), NEW low \in 0 .. last, IsLowest(low)
  PROVE  SearchFrom(low) <= last
<1>1. PICK i \in DOMAIN Attrs : Attrs[i] = "uplink" /\ value[i] # 0
  BY DEF Has
<1>2. PICK j \in DOMAIN Attrs : Attrs[j] = "downlink" /\ value[j] # 0
  BY DEF Has
<1>3. /\ value[i] \in Nat /\ value[j] \in Nat /\ last \in Nat /\ low \in Nat
      /\ low <= value[i] /\ low <= value[j]
  <2>1. low \in Nat
    BY HandleFacts
  <2>2. QED
    BY <2>1, HandleFacts DEF IsLowest
<1>4. value[i] <= last /\ value[j] <= last
  BY <1>1, <1>2 DEF ValuesOwn
<1>5. /\ value[i] - 1 \in DOMAIN table /\ table[value[i] - 1] = "uplink"
      /\ value[j] - 1 \in DOMAIN table /\ table[value[j] - 1] = "downlink"
  BY <1>1, <1>2 DEF ValuesOwn
<1>6. table[value[i]] = "value" /\ table[value[j]] = "value"
  <2>1. {"uplink", "downlink"} \subseteq Declarations
    BY DEF Declarations
  <2>2. table[value[i] - 1 + 1] = "value" /\ table[value[j] - 1 + 1] = "value"
    BY <1>5, <2>1, TableFacts
  <2>3. QED
    BY <1>3, <2>2
<1>7. value[i] # value[j]
  BY <1>5
<1>8. value[i] # value[j] - 1 /\ value[j] # value[i] - 1
  BY <1>5, <1>6
<1>9. QED
  BY <1>3, <1>4, <1>7, <1>8 DEF SearchFrom
-----------------------------------------------------------------------------
\* What the steps share: the numbers, and where a reported attribute lies.
LEMMA ReportedFacts ==
  ASSUME TypeOK, NEW h \in DOMAIN table, Reported(h)
  PROVE  /\ h \in Nat /\ 1 <= h /\ h <= Len(table) /\ cursor <= h /\ h <= last
         /\ phase = "characteristics" => table[h] \in Declarations
         /\ phase = "descriptors" => table[h] = "ccc"
<1>1. h \in Nat /\ 1 <= h /\ h <= Len(table)
  BY TableFacts
<1>2. h \in Left
  BY DEF Reported
<1>3. QED
  BY <1>1, <1>2 DEF Left

\* The type of what a step may change besides the handles
Phases == {"idle", "service16", "service128", "characteristics", "descriptors"}
Outcomes == {"none", "finished", "uplink", "cert"}

LEMMA TypeStep ==
  ASSUME TypeOK, table' \in Tables, phase' \in Phases,
         cursor' \in Nat, 1 <= cursor', cursor' <= LastHandle + 1,
         last' \in Nat, last' <= LastHandle,
         value' \in [DOMAIN Attrs -> Handles], ccc' \in [DOMAIN Attrs -> Handles],
         outcome' \in Outcomes, intact' \in BOOLEAN
  PROVE  TypeOK'
<1>1. cursor' \in 1 .. LastHandle + 1 /\ last' \in Handles
  BY HandleAssumption DEF Handles
<1>2. QED
  BY <1>1 DEF TypeOK, Phases, Outcomes

LEMMA TypeParts ==
  ASSUME TypeOK
  PROVE  /\ table \in Tables /\ phase \in Phases
         /\ cursor \in Nat /\ 1 <= cursor /\ cursor <= LastHandle + 1
         /\ last \in Nat /\ last <= LastHandle
         /\ value \in [DOMAIN Attrs -> Handles] /\ ccc \in [DOMAIN Attrs -> Handles]
         /\ outcome \in Outcomes /\ intact \in BOOLEAN
<1>1. cursor \in 1 .. LastHandle + 1 /\ last \in Handles
  BY DEF TypeOK
<1>2. QED
  BY <1>1, HandleAssumption DEF TypeOK, Handles, Phases, Outcomes

\* A step that keeps the handles keeps the types if the search it starts is in range.
LEMMA TypeKept ==
  ASSUME TypeOK, UNCHANGED <<table, handles>>,
         \/ UNCHANGED params
         \/ cursor' \in Nat /\ 1 <= cursor' /\ cursor' <= LastHandle + 1 /\ last' = last
         \/ cursor' \in Nat /\ 1 <= cursor' /\ cursor' <= LastHandle + 1
            /\ last' \in Nat /\ last' <= LastHandle,
         phase' \in Phases, outcome' \in Outcomes, intact' \in BOOLEAN
  PROVE  TypeOK'
<1>1. /\ table' \in Tables
      /\ value' \in [DOMAIN Attrs -> Handles] /\ ccc' \in [DOMAIN Attrs -> Handles]
  BY TypeParts DEF handles
<1>2. /\ cursor' \in Nat /\ 1 <= cursor' /\ cursor' <= LastHandle + 1
      /\ last' \in Nat /\ last' <= LastHandle
  BY TypeParts DEF params
<1>3. QED
  BY <1>1, <1>2, TypeStep

LEMMA InitInv == Init => Inv
<1> SUFFICES ASSUME Init PROVE Inv
  OBVIOUS
<1>1. \A i \in DOMAIN Attrs : value[i] = 0 /\ ccc[i] = 0
  BY DEF Init
<1>2. TypeOK
  BY HandleAssumption DEF Init, TypeOK, Handles
<1>3. Cleared /\ OneService /\ Undecided
  BY DEF Init, Cleared, OneService, Undecided
<1>4. ValuesOwn /\ CccClosest /\ AllAttributed
  BY <1>1 DEF ValuesOwn, CccClosest, AllAttributed, Due
<1>5. QED
  BY <1>2, <1>3, <1>4 DEF Inv

LEMMA BtStartInv == ASSUME Inv, BtStart PROVE Inv'
<1>1. \A i \in DOMAIN Attrs : value'[i] = 0 /\ ccc'[i] = 0
  BY DEF BtStart, Clear
<1>2. TypeOK'
  <2>1. value' \in [DOMAIN Attrs -> Handles] /\ ccc' \in [DOMAIN Attrs -> Handles]
    BY HandleAssumption DEF BtStart, Clear, Handles
  <2>2. /\ cursor' \in Nat /\ 1 <= cursor' /\ cursor' <= LastHandle + 1
        /\ last' \in Nat /\ last' <= LastHandle
    BY TypeParts, HandleAssumption DEF BtStart, params, Inv
  <2>3. phase' \in Phases /\ outcome' \in Outcomes /\ intact' \in BOOLEAN /\ table' \in Tables
    BY TypeParts DEF BtStart, Phases, Outcomes, Inv
  <2>4. QED
    BY <2>1, <2>2, <2>3, TypeStep DEF Inv
<1>3. Cleared' /\ OneService' /\ Undecided'
  BY DEF BtStart, Clear, Zero, Cleared, OneService, Undecided
<1>4. ValuesOwn' /\ CccClosest' /\ AllAttributed'
  BY <1>1 DEF ValuesOwn, CccClosest, AllAttributed, Due
<1>5. QED
  BY <1>2, <1>3, <1>4 DEF Inv

LEMMA FailsInv == ASSUME Inv, Fails PROVE Inv'
<1> USE DEF Fails, handles
<1>1. TypeOK'
  <2>1. cursor' \in Nat /\ 1 <= cursor' /\ cursor' <= LastHandle + 1
    BY TypeParts, HandleAssumption DEF Inv
  <2>2. QED
    BY <2>1, TypeParts, TypeKept DEF Inv
<1>2. Cleared' /\ Undecided' /\ AllAttributed' /\ CccClosest'
  BY DEF Inv, Cleared, Undecided, AllAttributed, CccClosest
<1>3. OneService'
  <2>1. \A g \in DOMAIN table : g \in Nat /\ ~(last + 1 <= g /\ g <= last)
    BY TableFacts, HandleFacts DEF Inv
  <2>2. QED
    BY <2>1 DEF Inv, OneService
<1>4. ValuesOwn'
  BY DEF Inv, ValuesOwn
<1>5. QED
  BY <1>1, <1>2, <1>3, <1>4 DEF Inv

\* A search that ends the discovery changes no handle, and a step that starts a
\* search in a new phase or ends it leaves the attributions as they are.
LEMMA NodeKept ==
  ASSUME Inv, UNCHANGED <<table, handles>>,
         phase' \in {"characteristics", "descriptors"} =>
           \/ last' = last /\ phase \in {"characteristics", "descriptors"}
           \/ value = Zero
  PROVE  ValuesOwn' /\ CccClosest'
<1>1. CccClosest'
  BY DEF Inv, CccClosest, handles
<1>2. ValuesOwn'
  BY DEF Inv, ValuesOwn, handles, Zero
<1>3. QED
  BY <1>1, <1>2

LEMMA ServiceFoundInv ==
  ASSUME Inv, NEW h \in DOMAIN table, ServiceFound(h)
  PROVE  Inv'
<1> USE DEF ServiceFound
<1>1. PICK end \in DOMAIN table :
        EndsAt(h, end) /\ Discover("characteristics", h + 1, end)
  OBVIOUS
<1>2. /\ h \in Nat /\ end \in Nat /\ 1 <= end /\ end <= Len(table) /\ h <= end
      /\ end <= LastHandle
  BY <1>1, TableFacts, HandleAssumption DEF Inv, EndsAt
<1>3. UNCHANGED <<table, handles>> /\ value = Zero /\ ccc = Zero /\ outcome = "none"
  BY DEF Inv, Cleared, Undecided
<1>4. TypeOK'
  <2>1. \/ UNCHANGED params
        \/ /\ cursor' \in Nat /\ 1 <= cursor' /\ cursor' <= LastHandle + 1
           /\ last' \in Nat /\ last' <= LastHandle
    BY <1>1, <1>2, HandleAssumption DEF Discover
  <2>2. phase' \in Phases /\ outcome' \in Outcomes /\ intact' \in BOOLEAN
    BY <1>1, TypeParts DEF Discover, Phases, Outcomes, Inv
  <2>3. QED
    BY <1>3, <2>1, <2>2, TypeKept DEF Inv
<1>5. Cleared' /\ Undecided' /\ AllAttributed'
  BY <1>1, <1>3 DEF Discover, Cleared, Undecided, AllAttributed, handles
<1>6. OneService'
  <2>1. \A g \in DOMAIN table : h + 1 <= g /\ g <= end => g \in h + 1 .. end
    BY <1>2, TableFacts DEF Inv
  <2>2. QED
    BY <1>1, <2>1 DEF Discover, OneService, EndsAt
<1>7. ValuesOwn' /\ CccClosest'
  BY <1>3, NodeKept
<1>8. QED
  BY <1>4, <1>5, <1>6, <1>7 DEF Inv

LEMMA ServiceMissingInv == ASSUME Inv, ServiceMissing PROVE Inv'
<1> USE DEF ServiceMissing
<1>1. \/ Discover("service128", 1, last)
      \/ End("finished")
  OBVIOUS
<1>2. UNCHANGED <<table, handles>> /\ value = Zero /\ ccc = Zero /\ outcome = "none"
  BY DEF Inv, Cleared, Undecided
<1>3. TypeOK'
  <2>1. \/ UNCHANGED params
        \/ cursor' \in Nat /\ 1 <= cursor' /\ cursor' <= LastHandle + 1 /\ last' = last
    BY <1>1, HandleAssumption DEF Discover, End
  <2>2. phase' \in Phases /\ outcome' \in Outcomes /\ intact' \in BOOLEAN
    BY <1>1, TypeParts DEF Discover, End, Phases, Outcomes, Inv
  <2>3. QED
    BY <1>2, <2>1, <2>2, TypeKept DEF Inv
<1>4. Cleared' /\ Undecided' /\ AllAttributed' /\ OneService'
  BY <1>1, <1>2 DEF Discover, End, Cleared, Undecided, AllAttributed, OneService, handles
<1>5. ValuesOwn' /\ CccClosest'
  BY <1>2, NodeKept
<1>6. QED
  BY <1>3, <1>4, <1>5 DEF Inv

LEMMA CharacteristicFoundInv ==
  ASSUME Inv, NEW h \in DOMAIN table, CharacteristicFound(h)
  PROVE  Inv'
<1> USE DEF CharacteristicFound
<1>1. /\ h \in Nat /\ 1 <= h /\ h <= Len(table) /\ cursor <= h /\ h <= last
      /\ table[h] \in Declarations
  BY ReportedFacts DEF Inv
<1>2. /\ DOMAIN table = 1 .. Len(table) /\ Len(table) \in Nat /\ Len(table) <= LastHandle
      /\ h + 1 \in DOMAIN table /\ table[h + 1] = "value"
  BY <1>1, TableFacts DEF Inv
<1>3. /\ last \in DOMAIN table
      /\ last < Len(table) => table[last + 1] \in Services
      /\ \A g \in DOMAIN table : cursor <= g /\ g <= last => table[g] \notin Services
  BY DEF Inv, OneService
<1>4. h + 1 <= last
  <2>1. h # last
    BY <1>2, <1>3, AttrsFacts
  <2>2. QED
    BY <1>1, <1>2, <1>3, <2>1
<1>5. \A i \in DOMAIN Attrs :
        \/ value'[i] = h + 1 /\ Attrs[i] = table[h]
        \/ value'[i] = value[i]
  BY DEF Stored
<1>6. TypeOK'
  <2>1. h + 1 \in Handles
    BY <1>1, <1>2, HandleAssumption DEF Handles
  <2>2. value' \in [DOMAIN Attrs -> Handles]
    <3>1. value \in [DOMAIN Attrs -> Handles]
      BY TypeParts DEF Inv
    <3>2. value' = [i \in DOMAIN Attrs |-> IF Attrs[i] = table[h] THEN h + 1 ELSE value[i]]
      BY DEF Stored
    <3>3. QED
      BY <2>1, <3>1, <3>2
  <2>3. cursor' \in Nat /\ 1 <= cursor' /\ cursor' <= LastHandle + 1
    BY <1>1, <1>2, HandleAssumption
  <2>4. QED
    BY <2>2, <2>3, TypeParts, TypeStep DEF Inv
<1>7. ccc' = Zero /\ Undecided' /\ Cleared' /\ outcome' = "none"
  BY DEF Inv, Undecided, Cleared
<1>8. OneService'
  <2>1. \A g \in DOMAIN table : h + 1 <= g => cursor <= g
    BY <1>1, <1>2, TypeParts DEF Inv
  <2>2. QED
    BY <1>3, <2>1 DEF OneService
<1>9. ValuesOwn'
  <2>1. SUFFICES ASSUME NEW i \in DOMAIN Attrs, value'[i] # 0
                 PROVE  /\ value'[i] - 1 \in DOMAIN table /\ table[value'[i] - 1] = Attrs[i]
                        /\ value'[i] \in DOMAIN table /\ value'[i] <= last
                        /\ \A g \in DOMAIN table :
                             value'[i] <= g /\ g <= last => table[g] \notin Services
    BY DEF ValuesOwn
  <2>2. CASE value'[i] = value[i]
    <3>1. /\ value[i] - 1 \in DOMAIN table /\ table[value[i] - 1] = Attrs[i]
          /\ value[i] \in DOMAIN table /\ value[i] <= last
          /\ \A g \in DOMAIN table :
               value[i] <= g /\ g <= last => table[g] \notin Services
      BY <2>1, <2>2 DEF Inv, ValuesOwn
    <3>2. QED
      BY <2>2, <3>1
  <2>3. CASE value'[i] = h + 1 /\ Attrs[i] = table[h]
    <3>1. h + 1 - 1 = h
      BY <1>1
    <3>2. \A g \in DOMAIN table : h + 1 <= g => cursor <= g
      BY <1>1, <1>2, TypeParts DEF Inv
    <3>3. QED
      BY <1>2, <1>3, <1>4, <2>3, <3>1, <3>2
  <2>4. QED
    BY <1>5, <2>2, <2>3
<1>10. CccClosest' /\ AllAttributed'
  BY <1>7 DEF CccClosest, AllAttributed, Zero
<1>11. QED
  BY <1>6, <1>7, <1>8, <1>9, <1>10 DEF Inv

LEMMA CharacteristicsDoneInv == ASSUME Inv, CharacteristicsDone PROVE Inv'
<1> USE DEF CharacteristicsDone
<1>1. UNCHANGED <<table, handles>> /\ outcome = "none" /\ ccc = Zero
  BY DEF Inv, Undecided, Cleared
<1>2. CASE End("finished")
  <2>1. TypeOK'
    BY <1>1, <1>2, TypeParts, TypeKept DEF Inv, End, Phases, Outcomes
  <2>2. Cleared' /\ Undecided' /\ AllAttributed' /\ OneService'
    BY <1>2 DEF End, Cleared, Undecided, AllAttributed, OneService
  <2>3. ValuesOwn' /\ CccClosest'
    BY <1>1, <1>2, NodeKept DEF End
  <2>4. QED
    BY <2>1, <2>2, <2>3 DEF Inv
<1>3. CASE /\ Has("uplink") /\ Has("downlink")
           /\ \E low \in 0 .. last : IsLowest(low) /\ Discover("descriptors", SearchFrom(low), last)
  <2>1. PICK low \in 0 .. last :
          IsLowest(low) /\ Discover("descriptors", SearchFrom(low), last)
    BY <1>3
  <2>2. low \in Nat /\ SearchFrom(low) <= last /\ last <= LastHandle /\ last \in Nat
    BY <1>3, <2>1, SearchStartsInside, TypeParts DEF Inv
  <2>3. TypeOK'
    <3>1. \/ UNCHANGED params
          \/ cursor' \in Nat /\ 1 <= cursor' /\ cursor' <= LastHandle + 1 /\ last' = last
      BY <2>1, <2>2, HandleAssumption DEF Discover, SearchFrom
    <3>2. phase' \in Phases /\ outcome' \in Outcomes /\ intact' \in BOOLEAN
      BY <2>1, TypeParts DEF Discover, Phases, Outcomes, Inv
    <3>3. QED
      BY <1>1, <3>1, <3>2, TypeKept DEF Inv
  <2>4. Cleared' /\ Undecided' /\ OneService'
    BY <1>1, <2>1 DEF Discover, Cleared, Undecided, OneService, Inv, handles
  <2>5. AllAttributed'
    <3>1. ASSUME NEW i \in DOMAIN Attrs, NEW c \in DOMAIN table, Due(i, c), c < SearchFrom(low)
          PROVE  FALSE
      <4>1. PICK j \in DOMAIN Attrs : value[j] + 1 < c
        BY <3>1 DEF Due
      <4>2. low <= value[j] /\ value[j] \in Nat /\ c \in Nat
        BY <2>1, HandleFacts, TableFacts DEF IsLowest, Inv
      <4>3. QED
        BY <2>2, <3>1, <4>1, <4>2 DEF SearchFrom
    <3>2. \A i \in DOMAIN Attrs, c \in DOMAIN table : Due(i, c)' <=> Due(i, c)
      BY <1>1 DEF Due, Owns, handles
    <3>3. QED
      BY <1>1, <2>1, <3>1, <3>2 DEF Discover, AllAttributed
  <2>6. ValuesOwn' /\ CccClosest'
    BY <1>1, <2>1, NodeKept DEF Discover
  <2>7. QED
    BY <2>3, <2>4, <2>5, <2>6 DEF Inv
<1>4. QED
  BY <1>2, <1>3

-----------------------------------------------------------------------------
\* The characteristic that a CCC belongs to has the closest value handle below it.
LEMMA OwnerIsClosest ==
  ASSUME TypeOK, ValuesOwn, NEW i \in DOMAIN Attrs, NEW c \in DOMAIN table,
         value[i] # 0, table[c] = "ccc", Owns(value[i] - 1, c)
  PROVE  ClosestBelow(i, c)
<1>1. /\ value[i] - 1 < c
      /\ \A e \in value[i] - 1 + 1 .. c : table[e] \notin Declarations \union Services
  BY DEF Owns
<1>2. /\ DOMAIN table = 1 .. Len(table) /\ Len(table) \in Nat /\ c \in Nat
      /\ \A h \in DOMAIN table : table[h] \in Declarations => table[h + 1] = "value"
  BY TableFacts
<1>3. value[i] \in Nat /\ value[i] - 1 \in DOMAIN table /\ table[value[i] - 1] \in Declarations
  BY HandleFacts, AttrsFacts DEF ValuesOwn
<1>4. value[i] < c
  <2>1. table[value[i] - 1 + 1] = "value"
    BY <1>2, <1>3
  <2>2. value[i] # c
    BY <1>3, <2>1
  <2>3. QED
    BY <1>1, <1>2, <1>3, <2>2
<1>5. ASSUME NEW j \in DOMAIN Attrs, value[j] < c
      PROVE  value[j] < value[i] \/ (value[j] = value[i] /\ i <= j)
  <2>1. value[j] \in Nat
    BY HandleFacts
  <2>2. CASE value[j] = 0
    BY <1>3, <2>2
  <2>3. CASE value[j] # 0
    <3>1. table[value[j] - 1] = Attrs[j] /\ Attrs[j] \in Declarations
      BY <2>3, AttrsFacts DEF ValuesOwn
    <3>2. value[j] <= value[i]
      <4>1. SUFFICES ASSUME value[i] < value[j] PROVE FALSE
        BY <1>3, <2>1
      <4>2. value[j] - 1 \in value[i] - 1 + 1 .. c
        BY <1>2, <1>3, <1>5, <2>1, <4>1
      <4>3. QED
        BY <1>1, <3>1, <4>2
    <3>3. ASSUME value[j] = value[i]
          PROVE  i <= j
      <4>1. Attrs[i] = Attrs[j]
        BY <3>1, <3>3 DEF ValuesOwn
      <4>2. QED
        BY <4>1, AttrsFacts
    <3>4. QED
      BY <1>3, <2>1, <3>2, <3>3
  <2>4. QED
    BY <2>2, <2>3
<1>6. QED
  BY <1>4, <1>5 DEF ClosestBelow

LEMMA DescriptorFoundInv ==
  ASSUME Inv, NEW h \in DOMAIN table, DescriptorFound(h)
  PROVE  Inv'
<1> USE DEF DescriptorFound
<1>1. /\ h \in Nat /\ 1 <= h /\ h <= Len(table) /\ cursor <= h /\ h <= last
      /\ table[h] = "ccc"
  BY ReportedFacts DEF Inv
<1>2. DOMAIN table = 1 .. Len(table) /\ Len(table) \in Nat /\ Len(table) <= LastHandle
  BY TableFacts DEF Inv
<1>3. TypeOK'
  <2>1. h \in Handles
    BY <1>1, <1>2, HandleAssumption DEF Handles
  <2>2. ccc' \in [DOMAIN Attrs -> Handles]
    BY <2>1, TypeParts DEF Inv
  <2>3. cursor' \in Nat /\ 1 <= cursor' /\ cursor' <= LastHandle + 1
    BY <1>1, <1>2, HandleAssumption
  <2>4. QED
    BY <2>2, <2>3, TypeParts, TypeStep DEF Inv
<1>4. Cleared' /\ Undecided' /\ OneService' /\ ValuesOwn' /\ outcome = "none"
  BY DEF Inv, Cleared, Undecided, OneService, ValuesOwn
<1>5. CccClosest'
  <2>1. SUFFICES ASSUME NEW i \in DOMAIN Attrs, value[i] # 0, ccc'[i] # 0
                 PROVE  /\ ccc'[i] \in DOMAIN table /\ table[ccc'[i]] = "ccc"
                        /\ value[i] < ccc'[i]
                        /\ \A j \in DOMAIN Attrs : value[j] < ccc'[i] => value[j] <= value[i]
                        /\ \A g \in DOMAIN table :
                             value[i] <= g /\ g <= ccc'[i] => table[g] \notin Services
    BY DEF CccClosest
  <2>2. CASE ~ClosestBelow(i, h)
    BY <2>1, <2>2 DEF Inv, CccClosest
  <2>3. CASE ClosestBelow(i, h)
    <3>1. ccc'[i] = h
      BY <2>3
    <3>2. value[i] < h
      BY <2>3 DEF ClosestBelow
    <3>3. \A j \in DOMAIN Attrs : value[j] < h => value[j] <= value[i]
      BY <2>3, HandleFacts DEF ClosestBelow, Inv
    <3>4. \A g \in DOMAIN table : value[i] <= g /\ g <= last => table[g] \notin Services
      BY <2>1 DEF Inv, ValuesOwn
    <3>5. \A g \in DOMAIN table : g <= h => g <= last
      BY <1>1, <1>2, HandleFacts DEF Inv
    <3>6. QED
      BY <1>1, <3>1, <3>2, <3>3, <3>4, <3>5
  <2>4. QED
    BY <2>2, <2>3
<1>6. AllAttributed'
  <2>1. SUFFICES ASSUME intact, NEW i \in DOMAIN Attrs, NEW c \in DOMAIN table,
                        Due(i, c), c < h + 1
                 PROVE  ccc'[i] # 0
    BY <1>4 DEF AllAttributed, Due, Owns
  <2>2. ccc'[i] = h \/ ccc'[i] = ccc[i]
    OBVIOUS
  <2>3. CASE c < cursor
    BY <1>1, <2>1, <2>2, <2>3 DEF Inv, AllAttributed
  <2>4. CASE cursor <= c
    <3>1. c \in Nat /\ c <= h /\ c <= last /\ table[c] = "ccc"
      BY <1>1, <1>2, <2>1, HandleFacts DEF Due, Inv
    <3>2. c \in Left
      BY <2>4, <3>1 DEF Left
    <3>3. c = h
      BY <1>1, <3>1, <3>2 DEF Reported
    <3>4. ClosestBelow(i, h)
      BY <2>1, <3>3, OwnerIsClosest DEF Due, Inv
    <3>5. QED
      BY <1>1, <3>4
  <2>5. QED
    BY <1>2, <2>3, <2>4, HandleFacts DEF Inv
<1>7. QED
  BY <1>3, <1>4, <1>5, <1>6 DEF Inv

LEMMA DescriptorsDoneInv == ASSUME Inv, DescriptorsDone PROVE Inv'
<1> USE DEF DescriptorsDone
<1>1. UNCHANGED <<table, handles, params, intact>> /\ phase' = "idle" /\ outcome' \in {"cert", "uplink"}
  BY DEF End
<1>2. TypeOK'
  BY <1>1, TypeParts, TypeKept DEF Inv, Phases, Outcomes
<1>3. Cleared' /\ Undecided' /\ OneService'
  BY <1>1 DEF Cleared, Undecided, OneService
<1>4. ValuesOwn' /\ CccClosest'
  BY <1>1, NodeKept
<1>5. AllAttributed'
  <2>1. ASSUME intact, NEW i \in DOMAIN Attrs, NEW c \in DOMAIN table, Due(i, c)
        PROVE  ccc[i] # 0
    <3>1. CASE c < cursor
      BY <2>1, <3>1 DEF Inv, AllAttributed
    <3>2. CASE cursor <= c
      <4>1. /\ value[i] # 0 /\ table[c] = "ccc" /\ value[i] \in Nat /\ value[i] <= last
            /\ \A e \in value[i] - 1 + 1 .. c : table[e] \notin Declarations \union Services
        BY <2>1, HandleFacts DEF Due, Owns, Inv, ValuesOwn
      <4>2. c \in Nat /\ last \in Nat /\ c <= Len(table) /\ Len(table) \in Nat
        BY TableFacts, HandleFacts DEF Inv
      <4>3. last < c
        <5>1. ~(c <= last)
          BY <3>2, <4>1 DEF Left
        <5>2. QED
          BY <4>2, <5>1
      <4>4. table[last + 1] \in Services
        BY <4>2, <4>3 DEF Inv, OneService
      <4>5. last + 1 \in value[i] - 1 + 1 .. c
        BY <4>1, <4>2, <4>3
      <4>6. QED
        BY <4>1, <4>4, <4>5
    <3>3. QED
      BY <3>1, <3>2, TableFacts, HandleFacts DEF Inv
  <2>2. \A i \in DOMAIN Attrs, c \in DOMAIN table : Due(i, c)' <=> Due(i, c)
    BY <1>1 DEF Due, Owns, handles
  <2>3. QED
    BY <1>1, <2>1, <2>2 DEF AllAttributed, handles
<1>6. QED
  BY <1>2, <1>3, <1>4, <1>5 DEF Inv

LEMMA StutterInv == ASSUME Inv, UNCHANGED vars PROVE Inv'
<1>1. TypeOK'
  BY TypeParts, TypeKept DEF Inv, vars
<1>2. ValuesOwn' /\ CccClosest'
  BY DEF Inv, ValuesOwn, CccClosest, vars, handles, params
<1>3. Cleared' /\ OneService' /\ Undecided'
  BY DEF Inv, Cleared, OneService, Undecided, vars, handles, params
<1>4. AllAttributed'
  BY DEF Inv, AllAttributed, Due, Owns, vars, handles, params
<1>5. QED
  BY <1>1, <1>2, <1>3, <1>4 DEF Inv

LEMMA InvStep == Inv /\ [Next]_vars => Inv'
  BY BtStartInv, ServiceFoundInv, ServiceMissingInv, CharacteristicFoundInv,
     CharacteristicsDoneInv, DescriptorFoundInv, DescriptorsDoneInv, FailsInv, StutterInv
     DEF Next

LEMMA InvAlways == Spec => []Inv
  BY InitInv, InvStep, PTL DEF Spec

-----------------------------------------------------------------------------
\* Discovery keeps its types; handles keep their width, because the two values that
\* every service has leave room for the descriptors' search to start.
THEOREM DiscoveryTypeCorrect == Spec => []TypeOK
<1>1. Inv => TypeOK
  BY DEF Inv
<1>2. QED
  BY <1>1, InvAlways, PTL

\* Whatever a device's table looks like and wherever its searches break off, the
\* node holds nothing of another characteristic that it knows.
THEOREM HandlesAlwaysOwn == Spec => []HandlesAreOwn
<1>1. Inv => HandlesAreOwn
  BY InvImpliesOwn DEF Inv
<1>2. QED
  BY <1>1, InvAlways, PTL

\* No CCC behind the start of the search is lost, for any table.
THEOREM CccAlwaysFound == Spec => []CccFound
<1>1. Inv => CccFound
  BY DEF Inv, AllAttributed, Due, CccFound
<1>2. QED
  BY <1>1, InvAlways, PTL
=============================================================================
