--------------------------- MODULE DeviceListProofs ---------------------------
(***************************************************************************)
(* Proofs about DeviceList, for any adapters, devices and bound on rows,   *)
(* and, further down, about Sendto, for any files, bounds and number of    *)
(* ways to connect.                                                        *)
(***************************************************************************)
EXTENDS DeviceList, Sendto, FiniteSetTheorems, TLAPS

\* What the proofs need of the constants.
LEMMA Constants == /\ AdapterOf \in [Devices -> Adapters]
                   /\ NoAdapter \notin Adapters
                   /\ RowsPerDevice \in Nat \ {0}
BY DeviceListAssumption

-------------------------------------------------------------------------------
(* Rows *)

\* q is r, further in its fade or named meanwhile.
Same(q, r) == q.dev = r.dev /\ q.k = r.k /\ q.listed = r.listed

\* The number of a new row is one of those that are free.
LEMMA NumberIsFresh ==
    ASSUME NEW R, NEW d, Fresh(R, d) # {}
    PROVE  /\ FreshNumber(R, d) \in 1 .. RowsPerDevice
           /\ FreshNumber(R, d) \in 0 .. RowsPerDevice
           /\ \A r \in R : r.dev = d => r.k # FreshNumber(R, d)
<1>1. FreshNumber(R, d) \in Fresh(R, d)
  BY DEF FreshNumber
<1> QED
  BY <1>1, Constants DEF Fresh

\* A fading row is a row.
LEMMA FadingRow ==
    ASSUME NEW r \in Row
    PROVE  /\ Fading(r) \in Row /\ Same(Fading(r), r)
           /\ Fading(r).no_name = r.no_name
           /\ Fading(r).level \in {"out", "stuck"}
BY DEF Fading, Row, Same

\* Fade changes the rows it finds and no other.
LEMMA FadeRows ==
    ASSUME NEW R, R \subseteq Row, NEW ptr, NEW D
    PROVE  /\ Fade(R, ptr, D) \subseteq Row
           /\ \A q \in Fade(R, ptr, D) :
                 \/ q \in R /\ ~(\E d \in D : ~Hidden(q) /\ q \in Find(R, ptr, d))
                 \/ \E r \in R : r.dev \in D /\ r \in Find(R, ptr, r.dev) /\ q = Fading(r)
           /\ \A r \in R : \/ r \in Fade(R, ptr, D)
                           \/ r.dev \in D /\ r \in Find(R, ptr, r.dev) /\ Fading(r) \in Fade(R, ptr, D)
<1> DEFINE found == {r \in UNION {Find(R, ptr, d) : d \in D} : ~Hidden(r)}
<1>1. found \subseteq R /\ \A r \in found : r.dev \in D /\ r \in Find(R, ptr, r.dev)
  BY DEF Find, Listed
<1>2. Fade(R, ptr, D) = (R \ found) \cup {Fading(r) : r \in found}
  BY DEF Fade
<1>3. \A d \in D : \A q \in Find(R, ptr, d) : ~Hidden(q) => q \in found
  OBVIOUS
<1> HIDE DEF found
<1> QED
  BY <1>1, <1>2, <1>3, FadingRow

\* Nothing that leaves the list is listed.
LEMMA UnlistRows ==
    ASSUME NEW R, R \subseteq Row, NEW gone, gone \subseteq R
    PROVE  /\ Unlist(R, gone) \subseteq Row
           /\ Listed(Unlist(R, gone)) = Listed(R \ gone)
           /\ \A q \in Unlist(R, gone) : \/ q \in R \ gone
                                         \/ \E r \in gone : q = Unlisted(r)
<1>1. \A r \in Row : Unlisted(r) \in Row /\ ~Unlisted(r).listed
  BY DEF Row, Unlisted
<1> QED
  BY <1>1 DEF Unlist, Listed

\* clear() leaves no row in the list.
LEMMA ClearedRows ==
    ASSUME rows \subseteq Row
    PROVE  Cleared \subseteq Row /\ Listed(Cleared) = {}
<1> DEFINE faded == Fade(rows, path_to_row, Devices)
<1>1. faded \subseteq Row
  BY FadeRows
<1>2. Listed(faded) \subseteq faded /\ Listed(faded \ Listed(faded)) = {}
  BY DEF Listed
<1> HIDE DEF faded
<1>3. Unlist(faded, Listed(faded)) \subseteq Row /\ Listed(Unlist(faded, Listed(faded))) = {}
  BY <1>1, <1>2, UnlistRows
<1> QED
  BY <1>3 DEF Cleared, faded

\* A new row is a row of its device, listed, under the number the device has from now on.
LEMMA NewRowIs ==
    ASSUME NEW R, NEW d \in Devices, NEW H, Fresh(R, d) # {}
    PROVE  LET q == NewRow(R, d, d \in H) IN
           /\ q \in Row /\ q.dev = d /\ q.k = FreshNumber(R, d)
           /\ q.listed /\ q.level \in {"new", "in"}
BY NumberIsFresh DEF NewRow, Row

\* What add_device does with the rows.
LEMMA AddedRows ==
    ASSUME NEW R, R \subseteq Row, NEW ptr \in [Devices -> 0 .. RowsPerDevice],
           NEW D, D \subseteq Devices, NEW H, overtaken \subseteq Devices,
           AddDevices(R, ptr, D, H)
    PROVE  /\ rows' \subseteq Row /\ R \subseteq rows'
           /\ path_to_row' \in [Devices -> 0 .. RowsPerDevice]
           /\ overtaken' \subseteq Devices
           /\ \A d \in Devices \ D : /\ path_to_row'[d] = ptr[d]
                                     /\ d \in overtaken' <=> d \in overtaken
           /\ \A q \in rows' \ R : /\ q.dev \in D /\ q.listed /\ q.k = path_to_row'[q.dev]
                                   /\ q.level \in {"new", "in"}
           /\ \A d \in D : /\ \E q \in rows' : q.dev = d /\ q.listed /\ q.k = path_to_row'[d]
                           /\ d \notin overtaken' => \A r \in R : r.dev = d => r.level # "out"
<1>1. \A d \in D : Fresh(R, d) # {}
  BY DEF AddDevices
<1>2. \A d \in D : LET q == NewRow(R, d, d \in H) IN
          /\ q \in Row /\ q.dev = d /\ q.k = FreshNumber(R, d)
          /\ q.listed /\ q.level \in {"new", "in"}
  BY <1>1, NewRowIs
<1>3. rows' = R \cup {NewRow(R, d, d \in H) : d \in D}
  BY DEF AddDevices
<1>4. path_to_row' \in [Devices -> 0 .. RowsPerDevice]
  BY <1>1, NumberIsFresh DEF AddDevices
<1>5. /\ \A d \in D : path_to_row'[d] = FreshNumber(R, d)
      /\ \A d \in Devices \ D : path_to_row'[d] = ptr[d]
  BY DEF AddDevices
<1>6. /\ overtaken' \subseteq Devices
      /\ \A d \in Devices \ D : d \in overtaken' <=> d \in overtaken
      /\ \A d \in D : d \notin overtaken' => \A r \in R : r.dev = d => r.level # "out"
  BY DEF AddDevices
<1>7. rows' \subseteq Row /\ R \subseteq rows'
  BY <1>2, <1>3
<1>8. \A q \in rows' \ R : /\ q.dev \in D /\ q.listed /\ q.k = path_to_row'[q.dev]
                           /\ q.level \in {"new", "in"}
  BY <1>2, <1>3, <1>5
<1>9. \A d \in D : \E q \in rows' : q.dev = d /\ q.listed /\ q.k = path_to_row'[d]
  BY <1>2, <1>3, <1>5
<1> QED
  BY <1>4, <1>5, <1>6, <1>7, <1>8, <1>9
\* A row that is not found stays so, while its number and the rows' devices are the same.
LEMMA StaysUncached ==
    ASSUME NEW r \in Listed(rows), Find(rows, path_to_row, r.dev) = {},
           path_to_row'[r.dev] = path_to_row[r.dev],
           \E q \in rows' : Same(q, r),
           \A q \in rows' : q.listed /\ q.dev = r.dev => \E p \in rows : Same(q, p)
    PROVE  ~Cached'
<1>1. PICK q \in Listed(rows') : q.dev = r.dev
  BY DEF Listed, Same
<1>2. Find(rows', path_to_row', r.dev) = {}
  BY DEF Find, Listed, Same
<1> QED
  BY <1>1, <1>2 DEF Cached

-------------------------------------------------------------------------------
(* The inductive invariant *)

\* A row that has a name and does not fade, and never ended a fade, is the one its device has
\* in the cache.
RowsKnown ==
    \A r \in Listed(rows) :
        /\ AdapterOf[r.dev] = Adapter
        /\ \/ r.no_name \/ r.level \in {"out", "stuck", "frozen"}
           \/ r.dev \in objects /\ r.k = path_to_row[r.dev]

\* No row of a device that has not been overtaken fades.
DevicesListed ==
    \A d \in objects :
        AdapterOf[d] = Adapter =>
            \/ d \in overtaken
            \/ /\ Find(rows, path_to_row, d) # {}
               /\ \A r \in rows : r.dev = d => r.level # "out"

\* Without an adapter there is nothing to list; with one, it is the last there was.
AdapterShown ==
    /\ Adapter = NoAdapter => Listed(rows) = {} /\ adapters = {}
    /\ Adapter # NoAdapter => Adapter = adapter_path /\ (Adapter \in adapters \/ ~Cached)

ListInv == TypeOK /\ MonitoredHasTimer /\ RowsKnown /\ DevicesListed /\ AdapterShown

\* The types of what the two steps of set_adapter change.
RowsTyped ==
    /\ rows \subseteq Row
    /\ path_to_row \in [Devices -> 0 .. RowsPerDevice]
    /\ timers \subseteq Devices \X (1 .. RowsPerDevice)
    /\ monitored \subseteq Devices /\ unpolled \subseteq monitored /\ overtaken \subseteq Devices

\* _monitor_power_levels adds a timer with each device it counts as monitored.
LEMMA Monitors ==
    ASSUME timers \subseteq Devices \X (1 .. RowsPerDevice), monitored \subseteq Devices,
           unpolled \subseteq monitored, unpolled' = unpolled,
           MonitoredHasTimer, NEW D, D \subseteq Devices,
           NEW k, \A d \in D : k[d] \in 1 .. RowsPerDevice, Monitor(D, k)
    PROVE  /\ timers' \subseteq Devices \X (1 .. RowsPerDevice)
           /\ monitored' \subseteq Devices /\ unpolled' \subseteq monitored'
           /\ MonitoredHasTimer'
<1>1. PICK S \in SUBSET (D \ (monitored \cup Audio)) :
          timers' = timers \cup {<<d, k[d]>> : d \in S} /\ monitored' = monitored \cup S
  BY DEF Monitor
<1>2. \A d \in S : <<d, k[d]>> \in timers' /\ <<d, k[d]>>[1] = d
  BY <1>1
<1>3. MonitoredHasTimer'
  <2>1. \A d \in monitored \ unpolled : \E t \in timers' : t[1] = d
    BY <1>1 DEF MonitoredHasTimer
  <2>2. \A d \in S : \E t \in timers' : t[1] = d
    BY <1>2
  <2> QED
    BY <1>1, <2>1, <2>2 DEF MonitoredHasTimer
<1>4. timers' \subseteq Devices \X (1 .. RowsPerDevice)
  <2>1. \A d \in S : <<d, k[d]>> \in Devices \X (1 .. RowsPerDevice)
    OBVIOUS
  <2> QED
    BY <1>1, <2>1
<1>5. monitored' \subseteq Devices /\ unpolled' \subseteq monitored'
  BY <1>1
<1> QED
  BY <1>3, <1>4, <1>5

\* What is found for a device is a row with its number.
LEMMA FoundIs ==
    ASSUME rows \subseteq Row, NEW d, Find(rows, path_to_row, d) # {}
    PROVE  d \in Devices /\ path_to_row[d] \in 1 .. RowsPerDevice
BY DEF Find, Listed, Row

-------------------------------------------------------------------------------
(* Steps *)

\* A clear() that fails leaves the adapter and makes rows fade.
LEMMA ClearFails ==
    ASSUME ListInv, ClearRaises, objects' = objects, connected' = connected, Kept
    PROVE  /\ RowsTyped' /\ MonitoredHasTimer' /\ RowsKnown' /\ DevicesListed'
           /\ Adapter' = Adapter /\ adapter_path' = adapter_path /\ ~Cached'
<1>1. PICK D \in SUBSET {r.dev : r \in Listed(rows)} :
          rows' = Fade(rows, path_to_row, D) /\ overtaken' = overtaken \cup D
  BY DEF ClearRaises
<1>2. /\ Adapter' = Adapter /\ adapter_path' = adapter_path /\ path_to_row' = path_to_row
      /\ timers' = timers /\ monitored' = monitored
  BY DEF ClearRaises
<1>3. rows \subseteq Row /\ D \subseteq Devices
  BY DEF ListInv, TypeOK, Listed, Row
<1>4. /\ rows' \subseteq Row
      /\ \A q \in rows' :
            \/ q \in rows
            \/ \E r \in rows : r.dev \in D /\ q = Fading(r)
      /\ \A r \in rows : \/ r \in rows'
                         \/ /\ r.dev \in D /\ r \in Find(rows, path_to_row, r.dev)
                            /\ Fading(r) \in rows'
  <2>1. /\ Fade(rows, path_to_row, D) \subseteq Row
        /\ \A q \in Fade(rows, path_to_row, D) :
              \/ q \in rows /\ ~(\E d \in D : ~Hidden(q) /\ q \in Find(rows, path_to_row, d))
              \/ \E r \in rows : /\ r.dev \in D /\ r \in Find(rows, path_to_row, r.dev)
                                 /\ q = Fading(r)
        /\ \A r \in rows : \/ r \in Fade(rows, path_to_row, D)
                           \/ /\ r.dev \in D /\ r \in Find(rows, path_to_row, r.dev)
                              /\ Fading(r) \in Fade(rows, path_to_row, D)
    BY <1>3, FadeRows
  <2> QED
    BY <1>1, <2>1
<1>5. RowsTyped' /\ MonitoredHasTimer'
  BY <1>1, <1>2, <1>3, <1>4 DEF RowsTyped, ListInv, TypeOK, MonitoredHasTimer, Kept
<1>6. RowsKnown'
  <2> SUFFICES ASSUME NEW q \in rows', q.listed
               PROVE  /\ AdapterOf[q.dev] = Adapter
                      /\ \/ q.no_name \/ q.level \in {"out", "stuck", "frozen"}
                         \/ q.dev \in objects /\ q.k = path_to_row[q.dev]
    BY <1>2 DEF RowsKnown, Listed
  <2>1. CASE q \in rows
    BY <2>1 DEF ListInv, RowsKnown, Listed
  <2>2. CASE \E r \in rows : q = Fading(r)
    BY <1>3, <2>2, FadingRow DEF ListInv, RowsKnown, Listed, Same
  <2> QED
    BY <1>4, <2>1, <2>2
<1>7. DevicesListed'
  <2> SUFFICES ASSUME NEW d \in objects, AdapterOf[d] = Adapter, d \notin overtaken, d \notin D
               PROVE  /\ Find(rows', path_to_row, d) # {}
                      /\ \A q \in rows' : q.dev = d => q.level # "out"
    BY <1>1, <1>2 DEF DevicesListed
  <2>1. Find(rows, path_to_row, d) # {} /\ \A r \in rows : r.dev = d => r.level # "out"
    BY DEF ListInv, DevicesListed
  <2>2. \A q \in rows' : q.dev = d => q \in rows
    BY <1>3, <1>4, FadingRow DEF Same
  <2>3. \A r \in rows : r.dev = d => r \in rows'
    BY <1>4
  <2> QED
    BY <2>1, <2>2, <2>3 DEF Find, Listed
<1>8. ~Cached'
  <2>1. PICK r \in Listed(rows) : Find(rows, path_to_row, r.dev) = {}
    BY DEF ClearRaises, Cached
  <2>2. r \in rows'
    BY <1>4, <2>1 DEF Listed
  <2>3. \A q \in rows' : \E p \in rows : Same(q, p)
    BY <1>3, <1>4, FadingRow DEF Same
  <2> QED
    BY <1>2, <2>1, <2>2, <2>3, StaysUncached DEF Same
<1> QED
  BY <1>2, <1>5, <1>6, <1>7, <1>8
\* A step that empties the list leaves nothing to be known of its rows.
LEMMA ListEmptied ==
    ASSUME ListInv, rows' = Cleared, path_to_row' = NoRows,
           UNCHANGED <<timers, monitored, overtaken>>, Kept
    PROVE  RowsTyped' /\ MonitoredHasTimer' /\ RowsKnown' /\ Listed(rows') = {}
<1>1. rows' \subseteq Row /\ Listed(rows') = {}
  BY ClearedRows DEF ListInv, TypeOK
<1>2. RowsTyped' /\ MonitoredHasTimer'
  BY <1>1, Constants DEF ListInv, TypeOK, RowsTyped, NoRows, MonitoredHasTimer, Kept
<1>3. RowsKnown'
  BY <1>1 DEF RowsKnown
<1> QED
  BY <1>1, <1>2, <1>3

\* Populating lists every device of the adapter.
LEMMA Populates ==
    ASSUME ListInv, NEW a \in Adapters, Adapter' = a, Populate(a, objects),
           objects' = objects, connected' = connected, Kept
    PROVE  RowsTyped' /\ MonitoredHasTimer' /\ RowsKnown' /\ DevicesListed'
<1> DEFINE D == {d \in objects : AdapterOf[d] = a}
<1>1. PICK H \in SUBSET (D \ Keyboards) : /\ AddDevices(Cleared, NoRows, D, H)
                            /\ Monitor(D \cap connected, path_to_row')
  BY DEF Populate
<1>2. /\ D \subseteq Devices /\ D \subseteq objects /\ overtaken \subseteq Devices
      /\ \A d \in D : AdapterOf[d] = a
      /\ \A d \in objects : AdapterOf[d] = a => d \in D
  BY DEF ListInv, TypeOK
<1>3. Cleared \subseteq Row /\ Listed(Cleared) = {}
  BY ClearedRows DEF ListInv, TypeOK
<1>4. NoRows \in [Devices -> 0 .. RowsPerDevice]
  BY Constants DEF NoRows
<1> HIDE DEF D
<1>5. /\ rows' \subseteq Row /\ Cleared \subseteq rows'
      /\ path_to_row' \in [Devices -> 0 .. RowsPerDevice]
      /\ overtaken' \subseteq Devices
      /\ \A q \in rows' \ Cleared : /\ q.dev \in D /\ q.listed /\ q.k = path_to_row'[q.dev]
                                    /\ q.level \in {"new", "in"}
      /\ \A d \in D : /\ \E q \in rows' : q.dev = d /\ q.listed /\ q.k = path_to_row'[d]
                      /\ d \notin overtaken' => \A r \in Cleared : r.dev = d => r.level # "out"
  BY <1>1, <1>2, <1>3, <1>4, AddedRows
<1>6. /\ timers' \subseteq Devices \X (1 .. RowsPerDevice)
      /\ monitored' \subseteq Devices /\ unpolled' \subseteq monitored' /\ MonitoredHasTimer'
  <2>1. \A d \in D \cap connected : path_to_row'[d] \in 1 .. RowsPerDevice
    BY <1>5 DEF Row
  <2>2. timers \subseteq Devices \X (1 .. RowsPerDevice) /\ monitored \subseteq Devices /\ MonitoredHasTimer
        /\ unpolled \subseteq monitored /\ unpolled' = unpolled
    BY DEF ListInv, TypeOK, Kept
  <2> QED
    BY <1>1, <1>2, <2>1, <2>2, Monitors
<1>7. RowsKnown'
  BY <1>2, <1>3, <1>5 DEF RowsKnown, Listed
<1>8. DevicesListed'
  <2> SUFFICES ASSUME NEW d \in objects, AdapterOf[d] = a, d \notin overtaken'
               PROVE  /\ Find(rows', path_to_row', d) # {}
                      /\ \A r \in rows' : r.dev = d => r.level # "out"
    BY DEF DevicesListed
  <2>1. d \in D
    BY <1>2
  <2>2. Find(rows', path_to_row', d) # {}
    BY <1>5, <2>1 DEF Find, Listed
  <2> QED
    BY <1>5, <2>1, <2>2
<1> QED
  BY <1>5, <1>6, <1>7, <1>8 DEF RowsTyped

\* What set_adapter leaves when clear() does not fail.
LEMMA AdapterSet ==
    ASSUME ListInv, Cached, NEW asked, NEW there, there \subseteq Adapters,
           set_adapter(asked, there, objects),
           objects' = objects, connected' = connected, adapters' = there, Kept,
           \A a \in there : a = adapter_path => \A d \in objects : AdapterOf[d] # a \/ (asked \in there /\ asked # a)
    PROVE  RowsTyped' /\ MonitoredHasTimer' /\ RowsKnown' /\ DevicesListed' /\ AdapterShown'
           /\ {Adapter, adapter_path}' \subseteq Adapters \cup {NoAdapter}
<1>1. CASE /\ there = {} /\ Adapter' = NoAdapter
           /\ rows' = Cleared /\ path_to_row' = NoRows
           /\ UNCHANGED <<adapter_path, timers, monitored, overtaken>>
  <2>1. RowsTyped' /\ MonitoredHasTimer' /\ RowsKnown' /\ Listed(rows') = {}
    BY <1>1, ListEmptied
  <2>2. DevicesListed'
    BY <1>1, Constants DEF DevicesListed, ListInv, TypeOK
  <2>3. AdapterShown'
    BY <1>1, <2>1 DEF AdapterShown
  <2>4. {Adapter, adapter_path}' \subseteq Adapters \cup {NoAdapter}
    BY <1>1 DEF ListInv, TypeOK
  <2> QED
    BY <2>1, <2>2, <2>3, <2>4
<1>2. ASSUME NEW a \in IF asked \in there THEN {asked} ELSE there,
             Adapter' = a, adapter_path' = a,
             IF a # adapter_path
             THEN Populate(a, objects)
             ELSE /\ rows' = Cleared /\ path_to_row' = NoRows
                  /\ UNCHANGED <<timers, monitored, overtaken>>
      PROVE  RowsTyped' /\ MonitoredHasTimer' /\ RowsKnown' /\ DevicesListed' /\ AdapterShown'
             /\ {Adapter, adapter_path}' \subseteq Adapters \cup {NoAdapter}
  <2>1. a \in there /\ a \in Adapters /\ a # NoAdapter
    BY Constants
  <2>2. AdapterShown' /\ {Adapter, adapter_path}' \subseteq Adapters \cup {NoAdapter}
    BY <1>2, <2>1 DEF AdapterShown
  <2>3. CASE a # adapter_path
    BY <1>2, <2>1, <2>2, <2>3, Populates
  <2>4. CASE a = adapter_path
    <3>1. RowsTyped' /\ MonitoredHasTimer' /\ RowsKnown' /\ Listed(rows') = {}
      BY <1>2, <2>4, ListEmptied
    <3>2. \A d \in objects : AdapterOf[d] # a
      BY <2>1, <2>4
    <3>3. DevicesListed'
      BY <1>2, <3>2 DEF DevicesListed
    <3> QED
      BY <2>2, <3>1, <3>3
  <2> QED
    BY <2>3, <2>4
<1> QED
  BY <1>1, <1>2 DEF set_adapter
LEMMA AdapterAddedStep ==
    ASSUME ListInv, NEW a \in Adapters, AdapterAdded(a)
    PROVE  ListInv'
<1>1. CASE Adapter = NoAdapter
  <2>1. Cached
    BY <1>1 DEF ListInv, AdapterShown, Cached
  <2>2. \A b \in adapters' : b = adapter_path => \A d \in objects : AdapterOf[d] # b
    BY <1>1 DEF AdapterAdded, ListInv, AdapterShown
  <2>3. /\ set_adapter(a, adapters', objects) /\ adapters' \subseteq Adapters
        /\ objects' = objects /\ connected' = connected /\ Kept
    BY <1>1 DEF AdapterAdded, ListInv, TypeOK
  <2>4. RowsTyped' /\ MonitoredHasTimer' /\ RowsKnown' /\ DevicesListed' /\ AdapterShown'
        /\ {Adapter, adapter_path}' \subseteq Adapters \cup {NoAdapter}
    BY <2>1, <2>2, <2>3, AdapterSet
  <2> QED
    BY <2>3, <2>4 DEF ListInv, TypeOK, RowsTyped, Kept
<1>2. CASE Adapter # NoAdapter
  BY <1>2 DEF AdapterAdded, ListInv, TypeOK, MonitoredHasTimer, RowsKnown, DevicesListed,
              AdapterShown, Cached, Kept
<1> QED
  BY <1>1, <1>2

LEMMA AdapterRemovedStep ==
    ASSUME ListInv, NEW a \in Adapters, AdapterRemoved(a)
    PROVE  ListInv'
<1>1. a \in adapters /\ adapters' = adapters \ {a} /\ adapters' \subseteq Adapters
      /\ Adapter # NoAdapter /\ Adapter = adapter_path
      /\ objects' = objects /\ connected' = connected /\ Kept
  BY DEF AdapterRemoved, ListInv, TypeOK, AdapterShown
<1>2. CASE a = adapter_path /\ Cached
  <2>1. set_adapter(NoAdapter, adapters', objects) /\ adapter_path \notin adapters'
    BY <1>1, <1>2 DEF AdapterRemoved
  <2>2. RowsTyped' /\ MonitoredHasTimer' /\ RowsKnown' /\ DevicesListed' /\ AdapterShown'
        /\ {Adapter, adapter_path}' \subseteq Adapters \cup {NoAdapter}
    BY <1>1, <1>2, <2>1, AdapterSet
  <2> QED
    BY <1>1, <2>2 DEF ListInv, TypeOK, RowsTyped, Kept
<1>3. CASE a = adapter_path /\ ~Cached
  <2>1. ClearRaises
    BY <1>3 DEF AdapterRemoved, set_adapter
  <2>2. /\ RowsTyped' /\ MonitoredHasTimer' /\ RowsKnown' /\ DevicesListed'
        /\ Adapter' = Adapter /\ adapter_path' = adapter_path /\ ~Cached'
    BY <1>1, <2>1, ClearFails
  <2> QED
    BY <1>1, <2>2 DEF ListInv, TypeOK, RowsTyped, AdapterShown, Kept
<1>4. CASE a # adapter_path
  BY <1>1, <1>4 DEF AdapterRemoved, ListInv, TypeOK, MonitoredHasTimer, RowsKnown, DevicesListed,
                    AdapterShown, Cached, Kept
<1> QED
  BY <1>2, <1>3, <1>4

LEMMA AdapterSelectedStep ==
    ASSUME ListInv, NEW a \in Adapters, on_adapter_selected(a)
    PROVE  ListInv'
<1>1. a \in adapters /\ adapters \subseteq Adapters /\ Adapter = adapter_path /\ a # adapter_path
      /\ set_adapter(a, adapters, objects)
      /\ adapters' = adapters /\ objects' = objects /\ connected' = connected /\ Kept
  BY DEF on_adapter_selected, ListInv, TypeOK, AdapterShown
<1>2. CASE Cached
  <2>1. RowsTyped' /\ MonitoredHasTimer' /\ RowsKnown' /\ DevicesListed' /\ AdapterShown'
        /\ {Adapter, adapter_path}' \subseteq Adapters \cup {NoAdapter}
    BY <1>1, <1>2, AdapterSet
  <2> QED
    BY <1>1, <2>1 DEF ListInv, TypeOK, RowsTyped, Kept
<1>3. CASE ~Cached
  <2>1. ClearRaises
    BY <1>1, <1>3 DEF set_adapter
  <2>2. /\ RowsTyped' /\ MonitoredHasTimer' /\ RowsKnown' /\ DevicesListed'
        /\ Adapter' = Adapter /\ adapter_path' = adapter_path /\ ~Cached'
    BY <1>1, <2>1, ClearFails
  <2> QED
    BY <1>1, <2>2 DEF ListInv, TypeOK, RowsTyped, AdapterShown, on_adapter_selected, Kept
<1> QED
  BY <1>2, <1>3

LEMMA DeviceCreatedStep ==
    ASSUME ListInv, NEW e \in Devices, NEW no_name \in BOOLEAN, DeviceCreated(e, no_name)
    PROVE  ListInv'
<1>1. /\ e \notin objects /\ objects' = objects \cup {e} /\ AdapterOf[e] \in adapters
      /\ UNCHANGED <<adapters, connected, Adapter, adapter_path, timers, monitored>>
      /\ Adapter # NoAdapter /\ Kept
  BY DEF DeviceCreated, ListInv, AdapterShown
<1>2. CASE Adapter # AdapterOf[e]
  BY <1>1, <1>2 DEF DeviceCreated, ListInv, TypeOK, MonitoredHasTimer, RowsKnown, DevicesListed,
                    AdapterShown, Cached, Kept
<1>3. CASE Adapter = AdapterOf[e]
  <2> DEFINE H == IF no_name THEN {e} ELSE {}
  <2>1. AddDevices(rows, path_to_row, {e}, H)
    BY <1>3 DEF DeviceCreated
  <2>2. rows \subseteq Row /\ path_to_row \in [Devices -> 0 .. RowsPerDevice]
        /\ overtaken \subseteq Devices /\ {e} \subseteq Devices
    BY DEF ListInv, TypeOK
  <2> HIDE DEF H
  <2>3. /\ rows' \subseteq Row /\ rows \subseteq rows'
        /\ path_to_row' \in [Devices -> 0 .. RowsPerDevice]
        /\ overtaken' \subseteq Devices
        /\ \A d \in Devices \ {e} : /\ path_to_row'[d] = path_to_row[d]
                                    /\ d \in overtaken' <=> d \in overtaken
        /\ \A q \in rows' \ rows : /\ q.dev \in {e} /\ q.listed /\ q.k = path_to_row'[q.dev]
                                   /\ q.level \in {"new", "in"}
        /\ \A d \in {e} : /\ \E q \in rows' : q.dev = d /\ q.listed /\ q.k = path_to_row'[d]
                          /\ d \notin overtaken' => \A r \in rows : r.dev = d => r.level # "out"
    BY <2>1, <2>2, AddedRows
  <2>4. TypeOK' /\ MonitoredHasTimer'
    BY <1>1, <2>3 DEF ListInv, TypeOK, MonitoredHasTimer, Kept
  <2>5. RowsKnown'
    <3> SUFFICES ASSUME NEW q \in rows', q.listed
                 PROVE  /\ AdapterOf[q.dev] = Adapter
                        /\ \/ q.no_name \/ q.level \in {"out", "stuck", "frozen"}
                           \/ q.dev \in objects' /\ q.k = path_to_row'[q.dev]
      BY <1>1 DEF RowsKnown, Listed
    <3>1. CASE q \in rows /\ q.dev = e
      BY <1>1, <3>1 DEF ListInv, RowsKnown, Listed
    <3>2. CASE q \in rows /\ q.dev # e
      BY <1>1, <2>2, <2>3, <3>2 DEF ListInv, RowsKnown, Listed, Row
    <3>3. CASE q \notin rows
      BY <1>1, <1>3, <2>3, <3>3
    <3> QED
      BY <3>1, <3>2, <3>3
  <2>6. DevicesListed'
    <3> SUFFICES ASSUME NEW d \in objects', AdapterOf[d] = Adapter, d \notin overtaken'
                 PROVE  /\ Find(rows', path_to_row', d) # {}
                        /\ \A r \in rows' : r.dev = d => r.level # "out"
      BY <1>1 DEF DevicesListed
    <3>1. CASE d = e
      BY <2>3, <3>1 DEF Find, Listed
    <3>2. CASE d # e
      <4>1. d \in objects /\ d \in Devices /\ d \notin overtaken
        BY <1>1, <2>3, <3>2 DEF ListInv, TypeOK
      <4>2. Find(rows, path_to_row, d) # {} /\ \A r \in rows : r.dev = d => r.level # "out"
        BY <4>1 DEF ListInv, DevicesListed
      <4> QED
        BY <2>3, <3>2, <4>1, <4>2 DEF Find, Listed
    <3> QED
      BY <3>1, <3>2
  <2>7. AdapterShown'
    BY <1>1, <1>3 DEF ListInv, AdapterShown
  <2> QED
    BY <2>4, <2>5, <2>6, <2>7 DEF ListInv
<1> QED
  BY <1>2, <1>3
LEMMA DeviceRemovedStep ==
    ASSUME ListInv, NEW e \in Devices, DeviceRemoved(e)
    PROVE  ListInv'
<1>1. /\ objects' = objects \ {e} /\ connected' = connected \ {e}
      /\ rows' = Fade(rows, path_to_row, {e})
      /\ UNCHANGED <<adapters, Adapter, adapter_path, path_to_row, timers, monitored, overtaken>> /\ Kept
  BY DEF DeviceRemoved
<1>2. rows \subseteq Row
  BY DEF ListInv, TypeOK
<1>3. /\ rows' \subseteq Row
      /\ \A q \in rows' :
            \/ q \in rows /\ ~(~Hidden(q) /\ q \in Find(rows, path_to_row, e))
            \/ \E r \in rows : r.dev = e /\ q = Fading(r)
      /\ \A r \in rows : \/ r \in rows'
                         \/ /\ r.dev = e /\ r \in Find(rows, path_to_row, r.dev)
                            /\ Fading(r) \in rows'
  <2>1. /\ Fade(rows, path_to_row, {e}) \subseteq Row
        /\ \A q \in Fade(rows, path_to_row, {e}) :
              \/ q \in rows /\ ~(\E d \in {e} : ~Hidden(q) /\ q \in Find(rows, path_to_row, d))
              \/ \E r \in rows : /\ r.dev \in {e} /\ r \in Find(rows, path_to_row, r.dev)
                                 /\ q = Fading(r)
        /\ \A r \in rows : \/ r \in Fade(rows, path_to_row, {e})
                           \/ /\ r.dev \in {e} /\ r \in Find(rows, path_to_row, r.dev)
                              /\ Fading(r) \in Fade(rows, path_to_row, {e})
    BY <1>2, FadeRows
  <2> QED
    BY <1>1, <2>1
<1>4. TypeOK' /\ MonitoredHasTimer'
  BY <1>1, <1>3 DEF ListInv, TypeOK, MonitoredHasTimer, Kept
<1>5. RowsKnown'
  <2> SUFFICES ASSUME NEW q \in rows', q.listed
               PROVE  /\ AdapterOf[q.dev] = Adapter
                      /\ \/ q.no_name \/ q.level \in {"out", "stuck", "frozen"}
                         \/ q.dev \in objects' /\ q.k = path_to_row[q.dev]
    BY <1>1 DEF RowsKnown, Listed
  <2>1. CASE q \in rows /\ ~(~Hidden(q) /\ q \in Find(rows, path_to_row, e))
    BY <1>1, <2>1 DEF ListInv, RowsKnown, Listed, Find, Hidden
  <2>2. CASE \E r \in rows : q = Fading(r)
    BY <1>2, <2>2, FadingRow DEF ListInv, RowsKnown, Listed, Same
  <2> QED
    BY <1>3, <2>1, <2>2
<1>6. DevicesListed'
  <2> SUFFICES ASSUME NEW d \in objects, d # e, AdapterOf[d] = Adapter, d \notin overtaken
               PROVE  /\ Find(rows', path_to_row, d) # {}
                      /\ \A q \in rows' : q.dev = d => q.level # "out"
    BY <1>1 DEF DevicesListed
  <2>1. Find(rows, path_to_row, d) # {} /\ \A r \in rows : r.dev = d => r.level # "out"
    BY DEF ListInv, DevicesListed
  <2>2. \A q \in rows' : q.dev = d => q \in rows
    BY <1>2, <1>3, FadingRow DEF Same
  <2>3. \A r \in rows : r.dev = d => r \in rows'
    BY <1>3
  <2> QED
    BY <2>1, <2>2, <2>3 DEF Find, Listed
<1>7. AdapterShown'
  <2>1. \A q \in rows' : \E p \in rows : Same(q, p)
    BY <1>2, <1>3, FadingRow DEF Same
  <2>2. Listed(rows) = {} => Listed(rows') = {}
    BY <2>1 DEF Listed, Same
  <2>3. ~Cached => ~Cached'
    <3> SUFFICES ASSUME NEW r \in Listed(rows), Find(rows, path_to_row, r.dev) = {}
                 PROVE  ~Cached'
      BY DEF Cached
    <3>1. r \in rows'
      BY <1>3 DEF Listed
    <3> QED
      BY <1>1, <2>1, <3>1, StaysUncached DEF Same
  <2> QED
    BY <1>1, <2>2, <2>3 DEF ListInv, AdapterShown
<1> QED
  BY <1>4, <1>5, <1>6, <1>7 DEF ListInv

\* A step that names a row or lets it fade in.
LEMMA RowChanges ==
    ASSUME ListInv, NEW r \in rows, NEW q \in Row, Same(q, r), rows' = (rows \ {r}) \cup {q},
           UNCHANGED <<adapters, objects, connected, Adapter, adapter_path, path_to_row,
                       timers, monitored, overtaken>>, Kept,
           q.level = "out" => r.level = "out",
           r.listed => \/ q.no_name \/ q.level \in {"out", "stuck", "frozen"}
                       \/ q.dev \in objects /\ q.k = path_to_row[q.dev]
    PROVE  ListInv'
<1>1. TypeOK' /\ MonitoredHasTimer'
  BY DEF ListInv, TypeOK, MonitoredHasTimer, Kept
<1>2. RowsKnown'
  BY DEF ListInv, RowsKnown, Listed, Same
<1>3. DevicesListed'
  <2> SUFFICES ASSUME NEW d \in objects, AdapterOf[d] = Adapter, d \notin overtaken
               PROVE  /\ Find(rows', path_to_row, d) # {}
                      /\ \A p \in rows' : p.dev = d => p.level # "out"
    BY DEF DevicesListed
  <2>1. Find(rows, path_to_row, d) # {} /\ \A p \in rows : p.dev = d => p.level # "out"
    BY DEF ListInv, DevicesListed
  <2> QED
    BY <2>1 DEF Find, Listed, Same
<1>4. AdapterShown'
  <2>1. \A p \in rows' : \E o \in rows : Same(p, o)
    BY DEF Same
  <2>2. Listed(rows) = {} => Listed(rows') = {}
    BY <2>1 DEF Listed, Same
  <2>3. ~Cached => ~Cached'
    <3> SUFFICES ASSUME NEW o \in Listed(rows), Find(rows, path_to_row, o.dev) = {}
                 PROVE  ~Cached'
      BY DEF Cached
    <3>1. \E p \in rows' : Same(p, o)
      BY DEF Listed, Same
    <3> QED
      BY <2>1, <3>1, StaysUncached
  <2> QED
    BY <2>2, <2>3 DEF ListInv, AdapterShown
<1> QED
  BY <1>1, <1>2, <1>3, <1>4 DEF ListInv

LEMMA NamedStep ==
    ASSUME ListInv, NEW e \in Devices, Named(e)
    PROVE  ListInv'
<1>1. PICK r \in Find(rows, path_to_row, e) :
          r.no_name /\ rows' = (rows \ {r}) \cup {[r EXCEPT !.no_name = FALSE]}
  BY DEF Named
<1> DEFINE q == [r EXCEPT !.no_name = FALSE]
<1>2. r \in rows /\ r \in Row /\ r.dev = e /\ r.k = path_to_row[e] /\ e \in objects
  BY DEF Find, Listed, ListInv, TypeOK, Named
<1>3. q \in Row /\ Same(q, r) /\ q.level = r.level
  BY <1>2 DEF Row, Same
<1>4. UNCHANGED <<adapters, objects, connected, Adapter, adapter_path, path_to_row,
                  timers, monitored, overtaken>> /\ Kept
  BY DEF Named
<1>5. q.dev \in objects /\ q.k = path_to_row[q.dev]
  BY <1>2, <1>3 DEF Same
<1> HIDE DEF q
<1> QED
  BY <1>1, <1>2, <1>3, <1>4, <1>5, RowChanges DEF q

LEMMA FadeInStep ==
    ASSUME ListInv, NEW r \in rows, FadeIn(r)
    PROVE  ListInv'
<1> DEFINE q == [r EXCEPT !.level = "in"]
<1>1. r \in Row /\ r.level = "new" /\ rows' = (rows \ {r}) \cup {q}
  BY DEF FadeIn, ListInv, TypeOK
<1>2. q \in Row /\ Same(q, r) /\ q.level = "in" /\ q.no_name = r.no_name
  BY <1>1 DEF Row, Same
<1>3. UNCHANGED <<adapters, objects, connected, Adapter, adapter_path, path_to_row,
                  timers, monitored, overtaken>> /\ Kept
  BY DEF FadeIn
<1>4. r.listed => \/ q.no_name
                  \/ q.dev \in objects /\ q.k = path_to_row[q.dev]
  BY <1>1, <1>2 DEF ListInv, RowsKnown, Listed, Same
<1> HIDE DEF q
<1> QED
  BY <1>1, <1>2, <1>3, <1>4, RowChanges
LEMMA FaderFinishedStep ==
    ASSUME ListInv, NEW r \in rows, __fader_finished(r)
    PROVE  ListInv'
<1> DEFINE found == Find(rows, path_to_row, r.dev)
           left == Unlist(rows, found) \ {r, Unlisted(r)}
           frozen == [r EXCEPT !.level = "frozen"]
<1>1. /\ r.level = "out"
      /\ rows' = IF r \in found \/ ~r.listed THEN left ELSE left \cup {frozen}
      /\ path_to_row' = IF found = {} THEN path_to_row ELSE [path_to_row EXCEPT ![r.dev] = 0]
      /\ UNCHANGED <<adapters, objects, connected, Adapter, adapter_path, timers, monitored, overtaken>> /\ Kept
  BY DEF __fader_finished
<1>2. rows \subseteq Row /\ r \in Row /\ path_to_row \in [Devices -> 0 .. RowsPerDevice]
  BY DEF ListInv, TypeOK
<1>3. /\ found \subseteq rows
      /\ \A p \in found : p.dev = r.dev
      /\ \A p \in rows : p.listed /\ p.dev = r.dev /\ p.k = path_to_row[r.dev] => p \in found
  BY DEF Find, Listed
<1>4. /\ Unlisted(r).dev = r.dev /\ ~Unlisted(r).listed
      /\ frozen \in Row /\ Same(frozen, r) /\ frozen.level = "frozen"
  BY <1>2 DEF Row, Same, Unlisted
<1>5. \A p \in Row : Unlisted(p).dev = p.dev /\ ~Unlisted(p).listed
  BY DEF Row, Unlisted
<1> HIDE DEF found, frozen
<1>6. /\ left \subseteq Row
      /\ \A q \in left : \/ q \in rows \ found
                         \/ ~q.listed /\ q.dev = r.dev
      /\ \A p \in rows \ found : p # r /\ p # Unlisted(r) => p \in left
  <2>1. /\ Unlist(rows, found) \subseteq Row
        /\ \A q \in Unlist(rows, found) : \/ q \in rows \ found
                                          \/ \E p \in found : q = Unlisted(p)
    BY <1>2, <1>3, UnlistRows
  <2>2. \A p \in rows \ found : p \in Unlist(rows, found)
    BY DEF Unlist
  <2> QED
    BY <1>2, <1>3, <1>5, <2>1, <2>2
<1> HIDE DEF left
<1>7. /\ rows' \subseteq Row
      /\ \A q \in rows' : \/ q \in rows \ found
                          \/ ~q.listed /\ q.dev = r.dev
                          \/ q = frozen
      /\ \A p \in rows : p.dev # r.dev => p \in rows'
  BY <1>1, <1>3, <1>4, <1>6
<1>8. /\ path_to_row' \in [Devices -> 0 .. RowsPerDevice]
      /\ \A d \in Devices : d # r.dev => path_to_row'[d] = path_to_row[d]
  BY <1>1, <1>2, Constants DEF Row
<1>9. TypeOK' /\ MonitoredHasTimer'
  BY <1>1, <1>7, <1>8 DEF ListInv, TypeOK, MonitoredHasTimer, Kept
<1>10. RowsKnown'
  <2> SUFFICES ASSUME NEW q \in rows', q.listed
               PROVE  /\ AdapterOf[q.dev] = Adapter
                      /\ \/ q.no_name \/ q.level \in {"out", "stuck", "frozen"}
                         \/ q.dev \in objects /\ q.k = path_to_row'[q.dev]
    BY <1>1 DEF RowsKnown, Listed
  <2>1. CASE q \in rows \ found
    <3>1. /\ AdapterOf[q.dev] = Adapter
          /\ \/ q.no_name \/ q.level \in {"out", "stuck", "frozen"}
             \/ q.dev \in objects /\ q.k = path_to_row[q.dev]
      BY <2>1 DEF ListInv, RowsKnown, Listed
    <3>2. q.dev \in Devices
      BY <1>2, <2>1 DEF Row
    <3> QED
      BY <1>3, <1>8, <2>1, <3>1, <3>2
  <2>2. CASE q = frozen
    BY <1>4, <2>2 DEF ListInv, RowsKnown, Listed, Same
  <2> QED
    BY <1>7, <2>1, <2>2
<1>11. DevicesListed'
  <2> SUFFICES ASSUME NEW d \in objects, AdapterOf[d] = Adapter, d \notin overtaken
               PROVE  /\ Find(rows', path_to_row', d) # {}
                      /\ \A q \in rows' : q.dev = d => q.level # "out"
    BY <1>1 DEF DevicesListed
  <2>1. Find(rows, path_to_row, d) # {} /\ \A p \in rows : p.dev = d => p.level # "out"
    BY DEF ListInv, DevicesListed
  <2>2. d # r.dev /\ d \in Devices
    BY <1>1, <2>1 DEF ListInv, TypeOK
  <2>3. \A q \in rows' : q.dev = d => q \in rows
    BY <1>4, <1>7, <2>2 DEF Same
  <2> QED
    BY <1>7, <1>8, <2>1, <2>2, <2>3 DEF Find, Listed
<1>12. AdapterShown'
  <2>1. \A q \in rows' : q.listed => \E p \in rows : Same(q, p)
    BY <1>4, <1>7 DEF Same
  <2>2. Listed(rows) = {} => Listed(rows') = {}
    BY <2>1 DEF Listed, Same
  <2>3. ~Cached => ~Cached'
    <3> SUFFICES ASSUME NEW p \in Listed(rows), Find(rows, path_to_row, p.dev) = {}
                 PROVE  ~Cached'
      BY DEF Cached
    <3>1. p \in rows /\ p.listed /\ p.dev \in Devices
      BY <1>2 DEF Listed, Row
    <3>2. CASE p.dev # r.dev
      BY <1>7, <1>8, <2>1, <3>1, <3>2, StaysUncached DEF Same
    <3>3. CASE p.dev = r.dev
      <4>1. found = {} /\ path_to_row' = path_to_row
        BY <1>1, <3>3 DEF found
      <4>2. \E q \in rows' : Same(q, p)
        <5>1. CASE p = r
          BY <1>1, <1>4, <3>1, <4>1, <5>1
        <5>2. CASE p # r
          BY <1>1, <1>4, <1>6, <3>1, <4>1, <5>2 DEF Same
        <5> QED
          BY <5>1, <5>2
      <4> QED
        BY <2>1, <4>1, <4>2, StaysUncached
    <3> QED
      BY <3>2, <3>3
  <2> QED
    BY <1>1, <2>2, <2>3 DEF ListInv, AdapterShown
<1> QED
  BY <1>9, <1>10, <1>11, <1>12 DEF ListInv

\* A step that changes only what is known of connections and polling.
LEMMA RowsRemain ==
    ASSUME ListInv, UNCHANGED <<adapters, objects, Adapter, adapter_path, rows, path_to_row, hide_unnamed, overtaken>>,
           connected' \subseteq objects,
           timers' \subseteq Devices \X (1 .. RowsPerDevice),
           monitored' \subseteq Devices, unpolled' \subseteq monitored', MonitoredHasTimer'
    PROVE  ListInv'
BY DEF ListInv, TypeOK, RowsKnown, DevicesListed, AdapterShown, Cached

LEMMA PollingStep ==
    ASSUME ListInv, NEW e \in Devices,
           \/ Connects(e) \/ Disconnects(e) \/ Excluded(e)
           \/ \E t \in timers : CheckEnds(t) \/ CheckRaises(t)
    PROVE  ListInv'
<1>1. /\ timers \subseteq Devices \X (1 .. RowsPerDevice) /\ monitored \subseteq Devices
      /\ unpolled \subseteq monitored
      /\ MonitoredHasTimer /\ connected \subseteq objects /\ rows \subseteq Row
  BY DEF ListInv, TypeOK
<1>2. CASE Connects(e)
  <2> DEFINE D == IF Find(rows, path_to_row, e) = {} THEN {} ELSE {e}
  <2>1. Monitor(D, path_to_row) /\ connected' = connected \cup {e} /\ e \in objects
        /\ unpolled' = unpolled
    BY <1>2 DEF Connects, Kept
  <2>2. D \subseteq Devices /\ \A d \in D : path_to_row[d] \in 1 .. RowsPerDevice
    BY <1>1, FoundIs
  <2> HIDE DEF D
  <2>3. /\ timers' \subseteq Devices \X (1 .. RowsPerDevice)
        /\ monitored' \subseteq Devices /\ unpolled' \subseteq monitored' /\ MonitoredHasTimer'
    BY <1>1, <2>1, <2>2, Monitors
  <2>4. UNCHANGED <<adapters, objects, Adapter, adapter_path, rows, path_to_row, hide_unnamed, overtaken>>
    BY <1>2 DEF Connects, Kept
  <2> QED
    BY <1>1, <2>1, <2>3, <2>4, RowsRemain
<1>3. CASE Disconnects(e)
  <2>1. MonitoredHasTimer'
    BY <1>1, <1>3 DEF Disconnects, MonitoredHasTimer, Kept
  <2> QED
    BY <1>1, <1>3, <2>1, RowsRemain DEF Disconnects, Kept
<1>4. CASE Excluded(e)
  <2>1. MonitoredHasTimer'
    BY <1>1, <1>4 DEF Excluded, MonitoredHasTimer
  <2> QED
    BY <1>1, <1>4, <2>1, RowsRemain DEF Excluded
<1>5. CASE \E t \in timers : CheckEnds(t)
  <2>1. PICK t \in timers : CheckEnds(t)
    BY <1>5
  <2>2. timers' = timers \ {t} /\ monitored' = monitored \ {t[1]} /\ unpolled' = unpolled \ {t[1]}
    BY <2>1 DEF CheckEnds
  <2>3. MonitoredHasTimer'
    BY <1>1, <2>2 DEF MonitoredHasTimer
  <2>4. UNCHANGED <<adapters, objects, connected, Adapter, adapter_path, rows, path_to_row, hide_unnamed, overtaken>>
    BY <2>1 DEF CheckEnds
  <2> QED
    BY <1>1, <2>2, <2>3, <2>4, RowsRemain
\* A device whose last timer goes is unpolled from then on.
<1>6. CASE \E t \in timers : CheckRaises(t)
  <2>1. PICK t \in timers : CheckRaises(t)
    BY <1>6
  <2>2. /\ timers' = timers \ {t} /\ monitored' = monitored
        /\ unpolled' = unpolled \cup {d \in monitored : d = t[1] /\ \A o \in timers' : o[1] # d}
    BY <2>1 DEF CheckRaises
  <2>3. MonitoredHasTimer'
    <3> SUFFICES ASSUME NEW d \in monitored, d \notin unpolled'
                 PROVE  \E o \in timers' : o[1] = d
      BY <2>2 DEF MonitoredHasTimer
    <3>1. PICK o \in timers : o[1] = d
      BY <1>1, <2>2 DEF MonitoredHasTimer
    <3> QED
      BY <2>2, <3>1
  <2>4. UNCHANGED <<adapters, objects, connected, Adapter, adapter_path, rows, path_to_row, hide_unnamed, overtaken>>
    BY <2>1 DEF CheckRaises
  <2> QED
    BY <1>1, <2>2, <2>3, <2>4, RowsRemain
<1> QED
  BY <1>2, <1>3, <1>4, <1>5, <1>6

\* What the setting hides is nothing the invariant speaks of.
LEMMA SwitchedStep ==
    ASSUME ListInv, HideUnnamedSwitched
    PROVE  ListInv'
BY DEF HideUnnamedSwitched, ListInv, TypeOK, MonitoredHasTimer, RowsKnown, DevicesListed,
       AdapterShown, Cached, Find

-------------------------------------------------------------------------------
(* Theorems *)

\* The invariant holds at the start and is preserved.
THEOREM ListInvariant == Spec => []ListInv
<1>1. Init => ListInv
  BY Constants DEF Init, ListInv, TypeOK, MonitoredHasTimer, RowsKnown, DevicesListed, AdapterShown,
                   NoRows, Listed
<1>2. ListInv /\ [Next]_listVars => ListInv'
  <2> SUFFICES ASSUME ListInv, [Next]_listVars
               PROVE  ListInv'
    OBVIOUS
  <2>1. CASE \E a \in Adapters : AdapterAdded(a) \/ AdapterRemoved(a) \/ on_adapter_selected(a)
    BY <2>1, AdapterAddedStep, AdapterRemovedStep, AdapterSelectedStep
  <2>2. CASE \E d \in Devices, no_name \in BOOLEAN : DeviceCreated(d, no_name)
    BY <2>2, DeviceCreatedStep
  <2>3. CASE \E d \in Devices : DeviceRemoved(d) \/ Named(d)
    BY <2>3, DeviceRemovedStep, NamedStep
  <2>4. CASE \E d \in Devices : Connects(d) \/ Disconnects(d) \/ Excluded(d)
    BY <2>4, PollingStep
  <2>5. CASE \E t \in timers : CheckEnds(t) \/ CheckRaises(t)
    <3>1. timers \subseteq Devices \X (1 .. RowsPerDevice)
      BY DEF ListInv, TypeOK
    <3>2. \E e \in Devices : TRUE
      BY <2>5, <3>1
    <3> QED
      BY <2>5, <3>2, PollingStep
  <2>6. CASE \E r \in rows : FadeIn(r) \/ __fader_finished(r)
    BY <2>6, FadeInStep, FaderFinishedStep
  <2>7. CASE UNCHANGED listVars
    BY <2>7 DEF listVars, ListInv, TypeOK, MonitoredHasTimer, RowsKnown, DevicesListed,
                AdapterShown, Cached, Find
  <2>8. CASE HideUnnamedSwitched
    BY <2>8, SwitchedStep
  <2> QED
    BY <2>1, <2>2, <2>3, <2>4, <2>5, <2>6, <2>7, <2>8 DEF Next
<1> QED
  BY <1>1, <1>2, PTL DEF Spec

\* The rows are of devices of the adapter shown; a row of a device that BlueZ has no more
\* fades or is painted over, but for one that had no name and one whose fade ended when the
\* cache had forgotten it; each device has a row unless a fade has overtaken it
\* (DeviceList.add_device, clear, set_adapter, device_remove_event).
THEOREM ListIsRight == Spec => []ListMirrorsBluez
<1>1. ListInv => ListMirrorsBluez
  BY DEF ListInv, RowsKnown, DevicesListed, ListMirrorsBluez
<1> QED
  BY <1>1, ListInvariant, PTL

\* The window shows an adapter that BlueZ has, or none if there is none, unless a clear()
\* fails for a row the cache has lost (DeviceList.__on_manager_signal).
THEOREM AdapterIsRight == Spec => []AdapterFollowsBluez
<1>1. ListInv => AdapterFollowsBluez
  BY DEF ListInv, AdapterShown, AdapterFollowsBluez
<1> QED
  BY <1>1, ListInvariant, PTL

\* Every device counted as monitored is polled, unless its last timer raised (ManagerDeviceList._monitor_power_levels,
\* _check_power_levels).
THEOREM MonitoredArePolled == Spec => []MonitoredHasTimer
<1>1. ListInv => MonitoredHasTimer
  BY DEF ListInv
<1> QED
  BY <1>1, ListInvariant, PTL

-------------------------------------------------------------------------------
(* Sending files: the types *)

Payload == {Files[n] : n \in 1 .. Len(Files)}
\* What is left to send: the first files, since they are taken from the end.
Lists == {SubSeq(Files, 1, n) : n \in 0 .. Len(Files)}
Owners == Sessions \cup {Other}

SenderRecords ==
    [start : BOOLEAN, awaiting : BOOLEAN, attempt : Nat, attempts : Nat \ {0}, retry : BOOLEAN,
     push : Owners \cup {NoSession}, files : Lists, bytes : Int, total : Int,
     transferred : {0, 1}, last : {0, 1}, dialog : {"none", "skip", "noskip"},
     fatal : BOOLEAN, result : {"none", "sent", "failed"}]

\* The attempt of the Sender is one of those it has.
SenderState == {s \in SenderRecords : s.attempt < s.attempts}

CallSet == [op : {"create"}] \cup [op : {"remove"}, session : Owners]
           \cup [op : {"send"}, session : Owners, file : Payload]

MessageSet == [kind : {"failed"}] \cup [kind : {"added", "removed", "sendfailed"}, session : Owners]
              \cup [kind : {"started"}, session : Owners, path : Paths]
              \cup [kind : {"progress", "done", "error"}, path : Paths]

ObexdState == [sessions : SUBSET Owners, nextSession : Nat \ {0}, nextTransfer : Nat \ {0},
               active : SUBSET [path : Paths, file : Payload, moved : BOOLEAN], late : Nat, noise : Nat]

TypeInv ==
    /\ world \in {"dying", "shared", "slow"}
    /\ obexd \in ObexdState /\ IsFiniteSet(obexd.active)
    /\ queue \in Seq(MessageSet)
    /\ calls \in Seq(CallSet)
    /\ device \in [ready : BOOLEAN, connecting : BOOLEAN]
    /\ sender \in SenderState
    /\ wired \in [Paths -> Nat]
    /\ IsFiniteSet(skipped)
    /\ Len(sender.files) + Cardinality(skipped) <= Len(Files)

\* What the proofs need of the constants.
LEMMA SendingConstants ==
    /\ Len(Files) \in Nat \ {0}
    /\ \A n \in 1 .. Len(Files) : Files[n] \in Range(Files)
    /\ Fallbacks \subseteq Nat \ {0, 1}
    /\ MaxSessions \in Nat /\ MaxTransfers \in Nat
    /\ Other \notin Sessions /\ NoSession \notin Owners
    /\ IsFiniteSet(Owners)
<1>1. IsFiniteSet(1 .. MaxSessions)
  BY SendtoAssumption, FS_Interval
<1>2. IsFiniteSet(Owners)
  BY <1>1, FS_AddElement DEF Owners, Sessions
<1>3. Len(Files) \in Nat \ {0}
  BY SendtoAssumption
<1>4. \A n \in 1 .. Len(Files) : Files[n] \in Range(Files)
  BY SendtoAssumption
<1> QED
  BY <1>2, <1>3, <1>4, SendtoAssumption DEF Owners, Sessions

\* The last file of the list, and the list without it.
LEMMA ListFacts ==
    ASSUME NEW files \in Lists
    PROVE  /\ Len(files) \in 0 .. Len(Files)
           /\ files = <<>> <=> Len(files) = 0
           /\ files # <<>> => /\ NextFile(files) = Files[Len(files)]
                              /\ NextFile(files) \in Payload
                              /\ files[Len(files)] \in Payload
                              /\ Front(files) \in Lists
                              /\ Len(Front(files)) = Len(files) - 1
<1>1. PICK n \in 0 .. Len(Files) : files = SubSeq(Files, 1, n)
  BY DEF Lists
<1>2. Len(Files) \in Nat
  BY SendingConstants
<1>3. files \in Seq(Range(Files)) /\ Len(files) = n
  BY <1>1, <1>2, SendtoAssumption
<1>4. \A m \in 1 .. n : files[m] = Files[m]
  BY <1>1, <1>2, SendtoAssumption
<1>5. files = <<>> <=> n = 0
  BY <1>3
<1>6. ASSUME n # 0 PROVE Front(files) = SubSeq(Files, 1, n - 1)
  <2>1. Front(files) = SubSeq(files, 1, n - 1)
    BY <1>3 DEF Front
  <2>2. Len(SubSeq(files, 1, n - 1)) = n - 1 /\ Len(SubSeq(Files, 1, n - 1)) = n - 1
    BY <1>2, <1>3, <1>6, SendtoAssumption
  <2>3. \A m \in 1 .. n - 1 : SubSeq(files, 1, n - 1)[m] = SubSeq(Files, 1, n - 1)[m]
    BY <1>2, <1>3, <1>4, <1>6, SendtoAssumption
  <2>4. SubSeq(files, 1, n - 1) \in Seq(Range(Files)) /\ SubSeq(Files, 1, n - 1) \in Seq(Range(Files))
    BY <1>2, <1>3, <1>6, SendtoAssumption
  <2> QED
    BY <2>1, <2>2, <2>3, <2>4
<1>7. ASSUME n # 0 PROVE SubSeq(Files, 1, n - 1) \in Lists /\ Len(SubSeq(Files, 1, n - 1)) = n - 1
  <2>1. n - 1 \in 0 .. Len(Files)
    BY <1>2, <1>7
  <2> QED
    BY <2>1, <1>2, SendtoAssumption DEF Lists
<1>8. ASSUME n # 0 PROVE files[n] = Files[n] /\ Files[n] \in Payload
  BY <1>4, <1>8, <1>2 DEF Payload
<1> QED
  BY <1>2, <1>3, <1>5, <1>6, <1>7, <1>8 DEF NextFile

\* A set in some order has all its members.
LEMMA OrderOf ==
    ASSUME NEW S, IsFiniteSet(S)
    PROVE  /\ SetToSeq(S) \in Seq(S)
           /\ Len(SetToSeq(S)) \in Nat
           /\ \A n \in 1 .. Len(SetToSeq(S)) : SetToSeq(S)[n] \in S
           /\ \A x \in S : \E n \in 1 .. Len(SetToSeq(S)) : SetToSeq(S)[n] = x
           /\ \A m, n \in 1 .. Len(SetToSeq(S)) : SetToSeq(S)[m] = SetToSeq(S)[n] => m = n
<1> DEFINE N == Cardinality(S)
<1>1. N \in Nat /\ ExistsBijection(1 .. N, S)
  BY FS_CardinalityType
<1>2. PICK g \in Bijection(1 .. N, S) : TRUE
  BY <1>1 DEF ExistsBijection
<1>3. g \in [1 .. N -> S] /\ IsInjective(g)
  BY <1>2 DEF Bijection, Injection, IsInjective
<1>4. SetToSeq(S) \in [1 .. N -> S] /\ IsInjective(SetToSeq(S))
  BY <1>3 DEF SetToSeq
<1>5. SetToSeq(S) \in Injection(1 .. N, S)
  BY <1>4 DEF Injection, IsInjective
<1>6. IsFiniteSet(1 .. N) /\ Cardinality(1 .. N) = N
  BY <1>1, FS_Interval
<1>7. SetToSeq(S) \in Surjection(1 .. N, S)
  BY <1>5, <1>6, FS_Injection
<1>8. SetToSeq(S) \in Seq(S) /\ Len(SetToSeq(S)) = N
  BY <1>1, <1>4
<1>9. \A x \in S : \E n \in 1 .. N : SetToSeq(S)[n] = x
  BY <1>7 DEF Surjection
<1>10. \A m, n \in 1 .. N : SetToSeq(S)[m] = SetToSeq(S)[n] => m = n
  BY <1>4 DEF IsInjective
<1> QED
  BY <1>1, <1>4, <1>8, <1>9, <1>10

\* Assigning to a field leaves a sender.
LEMMA SenderUpdates ==
    ASSUME NEW s \in SenderState
    PROVE  /\ \A v \in BOOLEAN : [s EXCEPT !.start = v] \in SenderState
           /\ \A v \in BOOLEAN : [s EXCEPT !.awaiting = v] \in SenderState
           /\ \A v \in BOOLEAN : [s EXCEPT !.retry = v] \in SenderState
           /\ \A v \in BOOLEAN : [s EXCEPT !.fatal = v] \in SenderState
           /\ \A v \in Owners \cup {NoSession} : [s EXCEPT !.push = v] \in SenderState
           /\ \A v \in Lists : [s EXCEPT !.files = v] \in SenderState
           /\ \A v \in Int : [s EXCEPT !.bytes = v] \in SenderState
           /\ \A v \in Int : [s EXCEPT !.total = v] \in SenderState
           /\ \A v \in {0, 1} : [s EXCEPT !.transferred = v] \in SenderState
           /\ \A v \in {0, 1} : [s EXCEPT !.last = v] \in SenderState
           /\ \A v \in {"none", "skip", "noskip"} : [s EXCEPT !.dialog = v] \in SenderState
           /\ \A v \in {"none", "sent", "failed"} : [s EXCEPT !.result = v] \in SenderState
BY DEF SenderState, SenderRecords

LEMMA SenderFields ==
    ASSUME NEW s \in SenderState
    PROVE  /\ s.start \in BOOLEAN /\ s.awaiting \in BOOLEAN /\ s.attempt \in Nat
           /\ s.attempts \in Nat \ {0} /\ s.retry \in BOOLEAN
           /\ s.push \in Owners \cup {NoSession} /\ s.files \in Lists /\ s.bytes \in Int
           /\ s.total \in Int /\ s.transferred \in {0, 1} /\ s.last \in {0, 1}
           /\ s.dialog \in {"none", "skip", "noskip"} /\ s.fatal \in BOOLEAN
           /\ s.result \in {"none", "sent", "failed"}
           /\ s.attempt < s.attempts
BY DEF SenderState, SenderRecords

StepOK(step, s) == /\ step.s \in SenderState /\ step.calls \in Seq(CallSet)
                   /\ Len(step.s.files) <= Len(s.files)

LEMMA HandlerTypes ==
    ASSUME NEW s \in SenderState
    PROVE  /\ \A result \in {"sent", "failed"} : StepOK(Emit(s, result), s)
           /\ StepOK(CreateSession(s), s)
           /\ StepOK(ProcessQueue(s), s)
           /\ RemoveSession(s) \in Seq(CallSet)
           /\ StepOK(Step(s, <<>>), s)
<1>1. \A result \in {"sent", "failed"} : StepOK(Emit(s, result), s)
  BY ListFacts DEF StepOK, Emit, Step, SenderState, SenderRecords
<1>2. StepOK(CreateSession(s), s)
  BY ListFacts DEF StepOK, CreateSession, Step, SenderState, SenderRecords, CallSet
<1>3. ASSUME s.files # <<>> PROVE StepOK(SendFile(s), s)
  <2>1. CASE s.push = NoSession
    BY <2>1, ListFacts DEF StepOK, SendFile, Step, SenderState, SenderRecords
  <2>2. CASE s.push # NoSession
    <3>1. [op |-> "send", session |-> s.push, file |-> NextFile(s.files)] \in CallSet
      BY <1>3, <2>2, ListFacts DEF CallSet, SenderState, SenderRecords
    <3> QED
      BY <3>1, <2>2, ListFacts DEF StepOK, SendFile, Step, SenderState, SenderRecords
  <2> QED
    BY <2>1, <2>2
<1>4. StepOK(ProcessQueue(s), s)
  BY <1>1, <1>3 DEF ProcessQueue
<1>5. RemoveSession(s) \in Seq(CallSet)
  <2>1. s.push # NoSession => [op |-> "remove", session |-> s.push] \in CallSet
    BY SenderFields DEF CallSet
  <2> QED
    BY <2>1 DEF RemoveSession
<1>6. StepOK(Step(s, <<>>), s)
  BY ListFacts DEF StepOK, Step, SenderState, SenderRecords
<1> QED
  BY <1>1, <1>2, <1>4, <1>5, <1>6

\* The handlers that end in another one.
LEMMA ChainTypes ==
    ASSUME NEW s \in SenderState, NEW t, t.s \in SenderState, t.calls \in Seq(CallSet),
           Len(t.s.files) <= Len(s.files)
    PROVE  /\ StepOK(Then(t, ProcessQueue), s)
           /\ StepOK(OnTransferCompleted(t.s), t.s) => StepOK(Then(t, OnTransferCompleted), s)
<1>1. StepOK(ProcessQueue(t.s), t.s)
  BY HandlerTypes
<1>2. Len(s.files) \in Nat /\ Len(t.s.files) \in Nat
  BY ListFacts DEF SenderState, SenderRecords
<1>3. ASSUME NEW n, StepOK(n, t.s) PROVE StepOK(Step(n.s, t.calls \o n.calls), s)
  <2>1. Len(n.s.files) \in Nat
    BY <1>3, ListFacts DEF StepOK, SenderState, SenderRecords
  <2> QED
    BY <1>2, <1>3, <2>1 DEF StepOK, Step
<1> QED
  BY <1>1, <1>3 DEF Then

LEMMA ReceiverTypes ==
    ASSUME NEW s \in SenderState, NEW session \in Owners
    PROVE  /\ StepOK(OnCancel(s), s)
           /\ StepOK(OnSessionAdded(s, session), s)
           /\ StepOK(OnSessionRemoved(s, session), s)
           /\ \A n \in Fallbacks : StepOK(OnSessionFailed(s, n), s)
           /\ StepOK(Step(OnTransferStarted(s), <<>>), s)
           /\ StepOK(Step(OnTransferProgress(s), <<>>), s)
           /\ StepOK(OnTransferCompleted(s), s)
           /\ StepOK(OnTransferError(s), s)
           /\ StepOK(AfterDialog(s), s)
           /\ s.files # <<>> => /\ StepOK(AfterDialog(DropFile(s)), s)
                                /\ Len(AfterDialog(DropFile(s)).s.files) < Len(s.files)
<1> USE ListFacts
<1>0. Len(s.files) \in Nat
  BY DEF SenderState, SenderRecords
<1>1. StepOK(OnCancel(s), s)
  BY <1>0, HandlerTypes DEF StepOK, OnCancel, Step, SenderState, SenderRecords
<1>2. StepOK(OnSessionAdded(s, session), s)
  <2> DEFINE t == [s EXCEPT !.retry = FALSE, !.push = session]
  <2>1. t \in SenderState /\ t.files = s.files
    BY DEF SenderState, SenderRecords
  <2> QED
    BY <2>1, HandlerTypes DEF OnSessionAdded, StepOK
<1>3. StepOK(OnSessionRemoved(s, session), s)
  <2> DEFINE t == ResetTransferState([s EXCEPT !.push = NoSession])
  <2> DEFINE r == [s EXCEPT !.push = NoSession]
             total == IF r.total < r.transferred THEN 0 ELSE r.total - r.transferred
  <2>a. r \in SenderState /\ r.files = s.files
    BY SenderUpdates DEF SenderState, SenderRecords
  <2> HIDE DEF r
  <2>b. total \in Int
    BY <2>a, SenderFields
  <2>c. [r EXCEPT !.total = total] \in SenderState
    BY <2>a, <2>b, SenderUpdates
  <2>d. [[r EXCEPT !.total = total] EXCEPT !.transferred = 0] \in SenderState
    BY <2>c, SenderUpdates
  <2>e. ResetTransferState(r) = [[[r EXCEPT !.total = total] EXCEPT !.transferred = 0] EXCEPT !.last = 0]
    BY DEF ResetTransferState
  <2>1. t \in SenderState /\ t.files = s.files
    <3>1. t = ResetTransferState(r)
      BY DEF r
    <3>2. [[[r EXCEPT !.total = total] EXCEPT !.transferred = 0] EXCEPT !.last = 0] \in SenderState
      BY <2>d, SenderUpdates
    <3>3. t.files = r.files
      BY <2>a, <2>e, <3>1 DEF SenderState, SenderRecords
    <3> QED
      BY <2>a, <2>e, <3>1, <3>2, <3>3
  <2>2. StepOK(Step(t, <<>>), s) /\ StepOK(Reconnect(t), s)
    BY <2>1, HandlerTypes DEF StepOK, Reconnect
  <2> QED
    BY <2>2, HandlerTypes DEF OnSessionRemoved
<1>4. ASSUME NEW n \in Fallbacks PROVE StepOK(OnSessionFailed(s, n), s)
  <2>1. n \in Nat \ {0}
    BY SendingConstants
  <2> DEFINE m == IF s.attempts > 1 THEN s.attempts ELSE n
             a == [s EXCEPT !.attempts = m]
             b == [a EXCEPT !.attempt = @ + 1]
             t == IF MoreAttempts(s, m) THEN [b EXCEPT !.retry = TRUE] ELSE [a EXCEPT !.fatal = TRUE]
  <2>2. m \in Nat \ {0} /\ s.attempt \in Nat /\ s.attempt < m
    BY <2>1, SenderFields, SendingConstants DEF SenderState
  <2>3. a \in SenderState /\ a.files = s.files /\ a.attempt = s.attempt /\ a.attempts = m
    <3> HIDE DEF m
    <3> QED
      BY <2>2 DEF SenderState, SenderRecords
  <2>4. t \in SenderState /\ t.files = s.files
    <3>1. CASE MoreAttempts(s, m)
      <4>1. a.attempt + 1 \in Nat /\ a.attempt + 1 < a.attempts
        BY <2>2, <2>3, <3>1 DEF MoreAttempts
      <4> HIDE DEF m, a
      <4>2. b \in SenderState /\ b.files = a.files
        BY <2>3, <4>1 DEF SenderState, SenderRecords
      <4> HIDE DEF b
      <4>3. [b EXCEPT !.retry = TRUE] \in SenderState
        BY <4>2, SenderUpdates
      <4>4. [b EXCEPT !.retry = TRUE].files = b.files
        BY <4>2 DEF SenderState, SenderRecords
      <4> QED
        BY <2>3, <3>1, <4>2, <4>3, <4>4
    <3>2. CASE ~MoreAttempts(s, m)
      <4> HIDE DEF a, m
      <4>1. [a EXCEPT !.fatal = TRUE] \in SenderState
        BY <2>3, SenderUpdates
      <4>2. [a EXCEPT !.fatal = TRUE].files = a.files
        BY <2>3 DEF SenderState, SenderRecords
      <4> QED
        BY <2>3, <3>2, <4>1, <4>2
    <3> QED
      BY <3>1, <3>2
  <2>5. OnSessionFailed(s, n) = Step(t, <<>>)
    BY DEF OnSessionFailed
  <2> HIDE DEF t
  <2> QED
    BY <1>0, <2>4, <2>5 DEF StepOK, Step
<1>5. StepOK(Step(OnTransferStarted(s), <<>>), s) /\ StepOK(Step(OnTransferProgress(s), <<>>), s)
  <2>1. OnTransferStarted(s) \in SenderState
    BY SenderUpdates DEF OnTransferStarted
  <2>6. OnTransferStarted(s).files = s.files
    BY DEF OnTransferStarted, SenderState, SenderRecords
  <2>2. s.total + 1 - s.last \in Int
    BY SenderFields
  <2>3. [s EXCEPT !.total = @ + 1 - s.last] \in SenderState
    BY <2>2, SenderUpdates
  <2>4. OnTransferProgress(s) \in SenderState
    BY <2>3, SenderUpdates DEF OnTransferProgress
  <2>5. OnTransferProgress(s).files = s.files
    BY DEF OnTransferProgress, SenderState, SenderRecords
  <2> QED
    BY <1>0, <2>1, <2>4, <2>5, <2>6 DEF StepOK, Step
<1>6. StepOK(OnTransferCompleted(s), s)
  <2> DEFINE t == [s EXCEPT !.files = Front(@), !.transferred = 0, !.last = 0]
  <2>1. ASSUME s.files # <<>> PROVE t \in SenderState /\ Len(t.files) <= Len(s.files)
    <3>1. [s EXCEPT !.files = Front(@)] \in SenderState
      BY <2>1, SenderFields, SenderUpdates
    <3>2. t \in SenderState
      BY <3>1, SenderUpdates
    <3>3. t.files = Front(s.files)
      BY DEF SenderState, SenderRecords
    <3> QED
      BY <1>0, <2>1, <3>2, <3>3, SenderFields
  <2>2. ASSUME s.files # <<>> PROVE StepOK(ProcessQueue(t), s)
    <3>1. StepOK(ProcessQueue(t), t)
      BY <2>1, <2>2, HandlerTypes
    <3>2. Len(ProcessQueue(t).s.files) \in Nat /\ Len(t.files) \in Nat
      BY <3>1, <2>1, <2>2 DEF StepOK, SenderState, SenderRecords
    <3> QED
      BY <3>1, <3>2, <1>0, <2>1, <2>2 DEF StepOK
  <2> QED
    BY <2>2, HandlerTypes DEF OnTransferCompleted
<1>7. StepOK(OnTransferError(s), s)
  <2> DEFINE t == [s EXCEPT !.dialog = IF Len(s.files) > 1 THEN "skip" ELSE "noskip"]
  <2>1. t \in SenderState /\ t.files = s.files
    BY DEF SenderState, SenderRecords
  <2>2. StepOK(Step(t, RemoveSession(s)), s)
    BY <1>0, <2>1, HandlerTypes DEF StepOK, Step
  <2> QED
    BY <2>2, HandlerTypes DEF OnTransferError
<1>8. ASSUME NEW t \in SenderState PROVE StepOK(AfterDialog(t), t)
  <2> DEFINE u == [t EXCEPT !.dialog = "none", !.total = @ - t.transferred, !.transferred = 0]
             v == IF t.push = NoSession THEN CreateSession(u) ELSE Step(u, <<>>)
  <2>1. u \in SenderState /\ u.files = t.files
    <3>1. t.total - t.transferred \in Int
      BY SenderFields
    <3>2. [[t EXCEPT !.dialog = "none"] EXCEPT !.total = @ - t.transferred] \in SenderState
      <4>1. [t EXCEPT !.dialog = "none"] \in SenderState
        BY SenderUpdates
      <4>2. [t EXCEPT !.dialog = "none"].total = t.total
        BY DEF SenderState, SenderRecords
      <4> QED
        BY <3>1, <4>1, <4>2, SenderUpdates
    <3>3. u \in SenderState
      BY <3>2, SenderUpdates
    <3> QED
      BY <3>3 DEF SenderState, SenderRecords
  <2>2. StepOK(v, t)
    BY <2>1, HandlerTypes DEF StepOK
  <2>3. AfterDialog(t) = Then(v, ProcessQueue)
    BY DEF AfterDialog
  <2> HIDE DEF u, v
  <2> QED
    BY <2>2, <2>3, ChainTypes DEF StepOK
<1>9. StepOK(AfterDialog(s), s)
  BY <1>8
<1>10. ASSUME s.files # <<>>
       PROVE  StepOK(AfterDialog(DropFile(s)), s) /\ Len(AfterDialog(DropFile(s)).s.files) < Len(s.files)
  <2>1. DropFile(s) \in SenderState /\ Len(DropFile(s).files) = Len(s.files) - 1
    <3>1. [s EXCEPT !.files = Front(@)] \in SenderState
      BY <1>10, SenderFields, SenderUpdates
    <3>5. [s EXCEPT !.files = Front(@)].bytes = s.bytes
      BY DEF SenderState, SenderRecords
    <3>2. s.bytes - 1 \in Int
      BY SenderFields
    <3>3. DropFile(s) \in SenderState
      BY <3>1, <3>2, <3>5, SenderUpdates DEF DropFile
    <3>4. DropFile(s).files = Front(s.files)
      BY DEF DropFile, SenderState, SenderRecords
    <3> QED
      BY <1>10, <3>3, <3>4, SenderFields
  <2>2. StepOK(AfterDialog(DropFile(s)), DropFile(s))
    BY <2>1, <1>8
  <2>3. Len(AfterDialog(DropFile(s)).s.files) \in Nat
    BY <2>2 DEF StepOK, SenderState, SenderRecords
  <2> QED
    BY <2>1, <2>2, <2>3, <1>0 DEF StepOK
<1> QED
  BY <1>1, <1>2, <1>3, <1>4, <1>5, <1>6, <1>7, <1>9, <1>10

LEMMA Joined ==
    ASSUME NEW S, NEW q \in Seq(S), NEW r \in Seq(S)
    PROVE  /\ q \o r \in Seq(S)
           /\ Len(q) \in Nat /\ Len(r) \in Nat
           /\ Len(q \o r) = Len(q) + Len(r)
           /\ \A i \in 1 .. Len(q) : (q \o r)[i] = q[i]
           /\ \A i \in 1 .. Len(r) : (q \o r)[Len(q) + i] = r[i]
OBVIOUS

LEMMA FirstTaken ==
    ASSUME NEW S, NEW q \in Seq(S), q # <<>>
    PROVE  /\ Tail(q) \in Seq(S) /\ Len(q) \in Nat \ {0}
           /\ Len(Tail(q)) = Len(q) - 1
           /\ \A i \in 1 .. Len(q) - 1 : Tail(q)[i] = q[i + 1]
           /\ Head(q) = q[1] /\ Head(q) \in S
OBVIOUS

\* What the messages and calls of each kind carry.
LEMMA SentFields ==
    /\ \A m \in MessageSet :
          /\ m.kind \in {"failed", "added", "removed", "sendfailed", "started", "progress", "done", "error"}
          /\ m.kind \in {"added", "removed", "sendfailed", "started"} => m.session \in Owners
          /\ m.kind \in {"started", "progress", "done", "error"} => m.path \in Paths
    /\ \A c \in CallSet :
          /\ c.op \in {"create", "remove", "send"}
          /\ c.op \in {"remove", "send"} => c.session \in Owners
          /\ c.op = "send" => c.file \in Payload
BY DEF MessageSet, CallSet

\* What a session that ends says: an error for each transfer, and then its end.
LEMMA EndedIs ==
    ASSUME TypeInv, NEW session \in Owners
    PROVE  /\ Ended(session) \in Seq(MessageSet)
           /\ Len(Ended(session)) \in Nat \ {0}
           /\ Ended(session)[Len(Ended(session))] = [kind |-> "removed", session |-> session]
           /\ \A i \in 1 .. Len(Ended(session)) - 1 :
                 \E a \in Transfers(session) : Ended(session)[i] = [kind |-> "error", path |-> a.path]
           /\ \A a \in Transfers(session) : \E i \in 1 .. Len(Ended(session)) - 1 :
                 Ended(session)[i] = [kind |-> "error", path |-> a.path]
           /\ \A i, j \in 1 .. Len(Ended(session)) - 1 :
                 Ended(session)[i].path = Ended(session)[j].path => i = j
<1> DEFINE S == {a.path : a \in Transfers(session)}
           order == SetToSeq(S)
           errors == [n \in 1 .. Len(order) |-> [kind |-> "error", path |-> order[n]]]
<1>1. IsFiniteSet(Transfers(session))
  BY FS_Subset DEF TypeInv, Transfers
<1>2. IsFiniteSet(S)
  <2> DEFINE pathOf == [a \in Transfers(session) |-> a.path]
  <2>1. pathOf \in Surjection(Transfers(session), S)
    BY DEF Surjection
  <2> QED
    BY <1>1, <2>1, FS_Surjection
<1>3. \A a \in Transfers(session) : a.path \in Paths
  BY DEF TypeInv, Transfers, ObexdState
<1>4. /\ order \in Seq(S) /\ Len(order) \in Nat
      /\ \A n \in 1 .. Len(order) : order[n] \in S
      /\ \A x \in S : \E n \in 1 .. Len(order) : order[n] = x
      /\ \A m, n \in 1 .. Len(order) : order[m] = order[n] => m = n
  BY <1>2, OrderOf
<1> HIDE DEF order
<1>5. \A n \in 1 .. Len(order) : \E a \in Transfers(session) : order[n] = a.path
  BY <1>4
<1>6. \A n \in 1 .. Len(order) : [kind |-> "error", path |-> order[n]] \in MessageSet
  BY <1>3, <1>5 DEF MessageSet
<1>7. errors \in Seq(MessageSet) /\ Len(errors) = Len(order)
  BY <1>4, <1>6
<1>8. [kind |-> "removed", session |-> session] \in MessageSet
  BY DEF MessageSet
<1>9. Ended(session) = errors \o <<[kind |-> "removed", session |-> session]>>
  BY DEF Ended, order
<1> DEFINE last == [kind |-> "removed", session |-> session]
<1> HIDE DEF last, errors
<1>10. /\ Ended(session) \in Seq(MessageSet)
       /\ Len(Ended(session)) = Len(order) + 1
       /\ \A i \in 1 .. Len(order) : Ended(session)[i] = errors[i]
       /\ Ended(session)[Len(order) + 1] = last
  <2>1. <<last>> \in Seq(MessageSet) /\ Len(<<last>>) = 1 /\ <<last>>[1] = last
    BY <1>8 DEF last
  <2>2. Ended(session) = errors \o <<last>>
    BY <1>9 DEF last
  <2> QED
    BY <1>4, <1>7, <2>1, <2>2, Joined
<1>11. \A i \in 1 .. Len(order) : Ended(session)[i] = [kind |-> "error", path |-> order[i]]
  BY <1>10 DEF errors
<1>12. \A a \in Transfers(session) : \E i \in 1 .. Len(order) : order[i] = a.path
  BY <1>4
<1>13. \A i \in 1 .. Len(order) : \E a \in Transfers(session) : Ended(session)[i] = [kind |-> "error", path |-> a.path]
  BY <1>5, <1>11
<1>14. \A a \in Transfers(session) : \E i \in 1 .. Len(order) : Ended(session)[i] = [kind |-> "error", path |-> a.path]
  BY <1>11, <1>12
<1>15. \A i, j \in 1 .. Len(order) : Ended(session)[i].path = Ended(session)[j].path => i = j
  <2>1. ASSUME NEW i \in 1 .. Len(order) PROVE Ended(session)[i].path = order[i]
    <3>1. Ended(session)[i] = [kind |-> "error", path |-> order[i]]
      BY <1>11
    <3> QED
      BY <3>1 DEF order
  <2> QED
    BY <1>4, <2>1
<1>16. Len(Ended(session)) - 1 = Len(order) /\ Len(Ended(session)) \in Nat \ {0}
  BY <1>4, <1>10
<1> QED
  BY <1>10, <1>13, <1>14, <1>15, <1>16 DEF last

LEMMA DoTypes ==
    ASSUME TypeInv, NEW step, StepOK(step, sender), Do(step)
    PROVE  /\ sender' \in SenderState /\ calls' \in Seq(CallSet)
           /\ Len(sender'.files) <= Len(sender.files)
BY DEF TypeInv, StepOK, Do

LEMMA ReceiveTypes ==
    ASSUME TypeInv, NEW kind, Receive(kind)
    PROVE  /\ queue' \in Seq(MessageSet) /\ Message \in MessageSet /\ Message.kind = kind
           /\ queue = <<Message>> \o queue'
BY DEF TypeInv, Receive, Message

\* A step of the Sender that receives a message or not, and runs a handler.
LEMMA HandlerStep ==
    ASSUME TypeInv, NEW step, StepOK(step, sender), Do(step), queue' \in Seq(MessageSet),
           device' \in [ready : BOOLEAN, connecting : BOOLEAN],
           wired' \in [Paths -> Nat], UNCHANGED <<world, obexd, skipped>>
    PROVE  TypeInv'
<1>1. sender' \in SenderState /\ calls' \in Seq(CallSet) /\ Len(sender'.files) <= Len(sender.files)
  BY DoTypes
<1>2. Len(sender'.files) \in Nat /\ Len(sender.files) \in Nat /\ Cardinality(skipped) \in Nat
  BY <1>1, ListFacts, SenderFields, FS_CardinalityType DEF TypeInv
<1>3. Len(sender'.files) + Cardinality(skipped) <= Len(Files)
  BY <1>1, <1>2, SendingConstants DEF TypeInv
<1> QED
  BY <1>1, <1>3 DEF TypeInv

\* A step of obexd.
LEMMA ObexdTypes ==
    ASSUME TypeInv, obexd' \in ObexdState, IsFiniteSet(obexd'.active),
           NEW ms \in Seq(MessageSet), Tell(ms) \/ UNCHANGED queue,
           calls' \in Seq(CallSet), UNCHANGED <<world, device, sender, wired, skipped>>
    PROVE  TypeInv'
<1>1. queue \o ms \in Seq(MessageSet)
  BY Joined DEF TypeInv
<1>2. queue' \in Seq(MessageSet)
  BY <1>1 DEF TypeInv, Tell
<1> QED
  BY <1>2 DEF TypeInv

LEMMA ObexdUpdates ==
    ASSUME NEW o \in ObexdState
    PROVE  /\ \A S \in SUBSET Owners : [o EXCEPT !.sessions = S] \in ObexdState
           /\ \A n \in Nat \ {0} : [o EXCEPT !.nextSession = n] \in ObexdState
           /\ \A n \in Nat \ {0} : [o EXCEPT !.nextTransfer = n] \in ObexdState
           /\ \A A \in SUBSET [path : Paths, file : Payload, moved : BOOLEAN] :
                 [o EXCEPT !.active = A] \in ObexdState
           /\ \A n \in Nat : [o EXCEPT !.noise = n] \in ObexdState
           /\ \A n \in Nat : [o EXCEPT !.late = n] \in ObexdState
BY DEF ObexdState

LEMMA ObexdFields ==
    ASSUME NEW o \in ObexdState
    PROVE  /\ o.sessions \subseteq Owners /\ o.nextSession \in Nat \ {0} /\ o.nextTransfer \in Nat \ {0}
           /\ \A a \in o.active : /\ a.path \in Paths /\ a.file \in Payload /\ a.moved \in BOOLEAN
                                  /\ a = [path |-> a.path, file |-> a.file, moved |-> a.moved]
           /\ o.active \subseteq [path : Paths, file : Payload, moved : BOOLEAN]
           /\ o.noise \in Nat /\ o.late \in Nat
BY DEF ObexdState

LEMMA DropTypes ==
    ASSUME TypeInv, NEW session \in Owners, DropSession(session), calls' \in Seq(CallSet),
           UNCHANGED <<world, device, sender, wired, skipped>>
    PROVE  TypeInv'
<1> DEFINE o == [obexd EXCEPT !.sessions = @ \ {session}]
           A == obexd.active \ Transfers(session)
<1>1. o \in ObexdState
  BY ObexdFields, ObexdUpdates DEF TypeInv
<1>2. o.active = obexd.active
  BY DEF TypeInv, ObexdState
<1>3. obexd' = [o EXCEPT !.active = A]
  BY <1>2 DEF DropSession
<1>4. A \in SUBSET [path : Paths, file : Payload, moved : BOOLEAN] /\ IsFiniteSet(A)
  BY ObexdFields, FS_Subset DEF TypeInv
<1>5. obexd' \in ObexdState
  BY <1>1, <1>3, <1>4, ObexdUpdates
<1>6. obexd'.active = A
  BY <1>1, <1>3 DEF ObexdState
<1>7. Ended(session) \in Seq(MessageSet) /\ Tell(Ended(session))
  BY EndedIs DEF DropSession
<1> QED
  BY <1>4, <1>5, <1>6, <1>7, ObexdTypes

LEMMA ObexdStepTypes ==
    ASSUME TypeInv,
           ObexdHandles \/ LateSession \/ OtherSession \/ ObexdDies
           \/ (\E a \in obexd.active : TransferMoves(a) \/ TransferEnds(a))
           \/ (\E session \in obexd.sessions \cap Sessions : LinkLost(session))
    PROVE  TypeInv'
<1> USE DEF Tell
<1>1. CASE ObexdHandles
  <2> DEFINE call == Head(calls)
  <2>1. calls' \in Seq(CallSet) /\ call \in CallSet
    BY <1>1, FirstTaken DEF ObexdHandles, TypeInv
  <2>2. CASE call.op = "create" /\ HandleCreate
    <3>1. ASSUME obexd.nextSession <= MaxSessions,
                 obexd' = [obexd EXCEPT !.sessions = @ \cup {obexd.nextSession}, !.nextSession = @ + 1],
                 Tell(<<[kind |-> "added", session |-> obexd.nextSession]>>)
          PROVE  TypeInv'
      <4> DEFINE o == [obexd EXCEPT !.sessions = @ \cup {obexd.nextSession}]
      <4>1. obexd.nextSession \in Owners /\ obexd.nextSession + 1 \in Nat \ {0}
        BY <3>1, ObexdFields, SendingConstants DEF TypeInv, Owners, Sessions
      <4>2. o \in ObexdState
        BY <4>1, ObexdFields, ObexdUpdates DEF TypeInv
      <4>3. o.nextSession = obexd.nextSession /\ o.active = obexd.active
        BY DEF TypeInv, ObexdState
      <4>4. obexd' \in ObexdState
        BY <3>1, <4>1, <4>2, <4>3, ObexdUpdates
      <4>5. obexd'.active = obexd.active
        BY <3>1 DEF TypeInv, ObexdState
      <4>6. [kind |-> "added", session |-> obexd.nextSession] \in MessageSet
        BY <4>1 DEF MessageSet
      <4>7. <<[kind |-> "added", session |-> obexd.nextSession]>> \in Seq(MessageSet)
        BY <4>6
      <4> QED
        BY <1>1, <2>1, <3>1, <4>4, <4>5, <4>7, ObexdTypes DEF ObexdHandles, TypeInv
    <3>2. ASSUME Tell(<<[kind |-> "failed"]>>), UNCHANGED obexd \/ obexd' = [obexd EXCEPT !.late = @ + 1]
          PROVE  TypeInv'
      <4>1. [kind |-> "failed"] \in MessageSet
        BY DEF MessageSet
      <4>2. <<[kind |-> "failed"]>> \in Seq(MessageSet)
        BY <4>1
      <4>3. obexd' \in ObexdState
        <5>1. obexd.late + 1 \in Nat
          BY ObexdFields DEF TypeInv
        <5>2. [obexd EXCEPT !.late = @ + 1] \in ObexdState
          BY <5>1, ObexdUpdates DEF TypeInv
        <5> QED
          BY <3>2, <5>2 DEF TypeInv
      <4>4. obexd'.active = obexd.active
        BY <3>2 DEF TypeInv, ObexdState
      <4> QED
        BY <1>1, <2>1, <3>2, <4>2, <4>3, <4>4, ObexdTypes DEF ObexdHandles, TypeInv
    <3> QED
      BY <2>2, <3>1, <3>2 DEF HandleCreate
  <2>3. CASE call.op = "remove" /\ HandleRemove(call.session)
    <3>1. call.session \in Owners
      BY <2>1, <2>3, SentFields
    <3>2. CASE DropSession(call.session)
      BY <1>1, <2>1, <3>1, <3>2, DropTypes DEF ObexdHandles
    <3>3. CASE UNCHANGED <<obexd, queue>>
      BY <1>1, <2>1, <3>3 DEF ObexdHandles, TypeInv
    <3> QED
      BY <2>3, <3>2, <3>3 DEF HandleRemove
  <2>4. CASE call.op = "send" /\ HandleSend(call.session, call.file)
    <3>0. call.session \in Owners /\ call.file \in Payload
      BY <2>1, <2>4, SentFields
    <3> DEFINE path == NextPath(call.session)
               new == [path |-> path, file |-> call.file, moved |-> FALSE]
    <3>1. ASSUME NEW noise \in Nat, BeginTransfer(call.session, call.file, noise),
                 \/ Tell(<<[kind |-> "started", session |-> call.session, path |-> path]>>)
                 \/ Tell(<<[kind |-> "sendfailed", session |-> call.session]>>)
          PROVE  TypeInv'
      <4> DEFINE o == [[obexd EXCEPT !.nextTransfer = @ + 1] EXCEPT !.noise = noise]
      <4>0. obexd.nextTransfer <= MaxTransfers
        BY <3>1 DEF BeginTransfer
      <4>1. path \in Paths /\ obexd.nextTransfer + 1 \in Nat \ {0}
        BY <3>0, <4>0, ObexdFields, SendingConstants DEF TypeInv, Paths, Owners, NextPath
      <4>2. o \in ObexdState
        BY <4>1, ObexdUpdates DEF TypeInv
      <4>3. o.active = obexd.active
        BY DEF TypeInv, ObexdState
      <4>a. obexd' = [o EXCEPT !.active = @ \cup {new}]
        BY <3>1 DEF BeginTransfer, TypeInv, ObexdState
      <4>4. new \in [path : Paths, file : Payload, moved : BOOLEAN]
        BY <3>0, <4>1
      <4>5. obexd.active \cup {new} \in SUBSET [path : Paths, file : Payload, moved : BOOLEAN]
        BY <4>4, ObexdFields DEF TypeInv
      <4>6. obexd' \in ObexdState
        BY <4>a, <4>2, <4>3, <4>5, ObexdUpdates
      <4>7. obexd'.active = obexd.active \cup {new}
        BY <3>1 DEF BeginTransfer, TypeInv, ObexdState
      <4>8. IsFiniteSet(obexd'.active)
        <5>1. IsFiniteSet(obexd.active)
          BY DEF TypeInv
        <5> HIDE DEF new
        <5>2. IsFiniteSet(obexd.active \cup {new})
          BY <5>1, FS_AddElement
        <5> QED
          BY <4>7, <5>2
      <4>9. /\ [kind |-> "started", session |-> call.session, path |-> path] \in MessageSet
            /\ [kind |-> "sendfailed", session |-> call.session] \in MessageSet
        BY <3>0, <4>1 DEF MessageSet
      <4>10. /\ <<[kind |-> "started", session |-> call.session, path |-> path]>> \in Seq(MessageSet)
             /\ <<[kind |-> "sendfailed", session |-> call.session]>> \in Seq(MessageSet)
        BY <4>9
      <4>11. calls' \in Seq(CallSet) /\ UNCHANGED <<world, device, sender, wired, skipped>>
        BY <1>1, <2>1 DEF ObexdHandles
      <4> HIDE DEF path, call
      <4> QED
        BY <3>1, <4>6, <4>8, <4>10, <4>11, ObexdTypes
    <3>2. ASSUME Tell(<<[kind |-> "sendfailed", session |-> call.session]>>), UNCHANGED obexd
          PROVE  TypeInv'
      <4>1. [kind |-> "sendfailed", session |-> call.session] \in MessageSet
        BY <3>0 DEF MessageSet
      <4>2. <<[kind |-> "sendfailed", session |-> call.session]>> \in Seq(MessageSet)
        BY <4>1
      <4> QED
        BY <1>1, <2>1, <3>2, <4>2, ObexdTypes DEF ObexdHandles, TypeInv
    <3>3. obexd.noise \in Nat /\ obexd.noise + 1 \in Nat
      BY ObexdFields DEF TypeInv
    <3> HIDE DEF Tell
    <3> QED
      BY <2>4, <3>1, <3>2, <3>3 DEF HandleSend
  <2> QED
    BY <1>1, <2>2, <2>3, <2>4 DEF ObexdHandles
<1>l. CASE LateSession
  <2> DEFINE o == [[obexd EXCEPT !.sessions = @ \cup {obexd.nextSession}] EXCEPT !.nextSession = @ + 1]
             q == [o EXCEPT !.late = @ - 1]
  <2>1. obexd.nextSession \in Owners /\ obexd.nextSession + 1 \in Nat \ {0} /\ obexd.late - 1 \in Nat
        /\ obexd.noise + 1 \in Nat /\ obexd.sessions \cup {obexd.nextSession} \in SUBSET Owners
    BY <1>l, ObexdFields, SendingConstants DEF LateSession, TypeInv, Owners, Sessions
  <2>2. [obexd EXCEPT !.sessions = @ \cup {obexd.nextSession}] \in ObexdState
    BY <2>1, ObexdUpdates DEF TypeInv
  <2>3. o \in ObexdState /\ o.late = obexd.late /\ o.noise = obexd.noise
    BY <2>1, <2>2, ObexdUpdates DEF TypeInv, ObexdState
  <2>4. q \in ObexdState /\ q.noise = obexd.noise
    BY <2>1, <2>3, ObexdUpdates DEF ObexdState
  <2>5. obexd' = [q EXCEPT !.noise = @ + 1]
    BY <1>l DEF LateSession, TypeInv, ObexdState
  <2>6. obexd' \in ObexdState
    BY <2>1, <2>4, <2>5, ObexdUpdates
  <2>7. obexd'.active = obexd.active
    BY <1>l DEF LateSession, TypeInv, ObexdState
  <2>8. [kind |-> "added", session |-> obexd.nextSession] \in MessageSet
    BY <2>1 DEF MessageSet
  <2>9. <<[kind |-> "added", session |-> obexd.nextSession]>> \in Seq(MessageSet)
    BY <2>8
  <2> HIDE DEF q, o
  <2> QED
    BY <1>l, <2>6, <2>7, <2>9, ObexdTypes DEF LateSession, TypeInv
<1>2. CASE OtherSession
  <2>1. CASE Other \in obexd.sessions
    BY <1>2, <2>1, DropTypes DEF OtherSession, TypeInv, Owners
  <2>2. CASE Other \notin obexd.sessions
    <3> DEFINE o == [obexd EXCEPT !.sessions = @ \cup {Other}]
    <3>1. o \in ObexdState
      BY ObexdFields, ObexdUpdates DEF TypeInv, Owners
    <3>2. o.noise = obexd.noise /\ o.noise + 1 \in Nat
      BY DEF TypeInv, ObexdState
    <3>3. obexd' = [o EXCEPT !.noise = @ + 1]
      BY <1>2, <2>2, <3>2 DEF OtherSession
    <3>4. obexd' \in ObexdState
      BY <3>1, <3>2, <3>3, ObexdUpdates
    <3>5. obexd'.active = obexd.active
      BY <1>2, <2>2 DEF OtherSession, TypeInv, ObexdState
    <3>6. [kind |-> "added", session |-> Other] \in MessageSet
      BY DEF MessageSet, Owners
    <3>7. <<[kind |-> "added", session |-> Other]>> \in Seq(MessageSet)
      BY <3>6
    <3> QED
      BY <1>2, <2>2, <3>4, <3>5, <3>7, ObexdTypes DEF OtherSession, TypeInv
  <2> QED
    BY <2>1, <2>2
<1>3. CASE ObexdDies
  <2> DEFINE order == SetToSeq(obexd.sessions)
             ms == [n \in 1 .. Len(order) |-> [kind |-> "removed", session |-> order[n]]]
  <2>1. IsFiniteSet(obexd.sessions)
    BY SendingConstants, ObexdFields, FS_Subset DEF TypeInv
  <2>2. Len(order) \in Nat /\ \A n \in 1 .. Len(order) : order[n] \in obexd.sessions
    BY <2>1, OrderOf
  <2> HIDE DEF order
  <2>3. \A n \in 1 .. Len(order) : [kind |-> "removed", session |-> order[n]] \in MessageSet
    BY <2>2, ObexdFields DEF MessageSet, TypeInv
  <2>4. ms \in Seq(MessageSet)
    BY <2>2, <2>3
  <2>5. Tell(ms)
    BY <1>3 DEF ObexdDies, order
  <2>6. FreshObexd \in ObexdState /\ FreshObexd.active = {}
    BY DEF FreshObexd, ObexdState
  <2>7. obexd' \in ObexdState /\ obexd'.active = {}
    <3>1. obexd' = [FreshObexd EXCEPT !.noise = obexd.noise + 1]
      BY <1>3 DEF ObexdDies
    <3>2. obexd.noise + 1 \in Nat
      BY ObexdFields DEF TypeInv
    <3>3. obexd' \in ObexdState
      BY <2>6, <3>1, <3>2, ObexdUpdates
    <3> QED
      BY <3>1, <3>3 DEF FreshObexd
  <2>8. IsFiniteSet(obexd'.active)
    BY <2>7, FS_EmptySet
  <2> HIDE DEF ms
  <2> QED
    BY <1>3, <2>4, <2>5, <2>7, <2>8, ObexdTypes DEF ObexdDies, TypeInv
<1>4. ASSUME NEW a \in obexd.active, TransferMoves(a) \/ TransferEnds(a) PROVE TypeInv'
  <2>0. a.path \in Paths /\ [a EXCEPT !.moved = TRUE] \in [path : Paths, file : Payload, moved : BOOLEAN]
    BY DEF TypeInv, ObexdState
  <2> DEFINE A == IF TransferMoves(a) THEN (obexd.active \ {a}) \cup {[a EXCEPT !.moved = TRUE]}
                  ELSE obexd.active \ {a}
  <2>1. obexd' = [obexd EXCEPT !.active = A]
    BY <1>4 DEF TransferMoves, TransferEnds
  <2>2. A \in SUBSET [path : Paths, file : Payload, moved : BOOLEAN]
    BY <2>0, ObexdFields DEF TypeInv
  <2>3. IsFiniteSet(A)
    <3>1. IsFiniteSet(obexd.active \ {a})
      BY FS_RemoveElement DEF TypeInv
    <3> QED
      BY <3>1, FS_AddElement
  <2> HIDE DEF A
  <2>4. obexd' \in ObexdState /\ obexd'.active = A
    <3>1. obexd' \in ObexdState
      BY <2>1, <2>2, ObexdUpdates DEF TypeInv
    <3> QED
      BY <2>1, <3>1 DEF TypeInv, ObexdState
  <2>5. PICK kind \in {"progress", "done", "error"} : Tell(<<[kind |-> kind, path |-> a.path]>>)
    BY <1>4 DEF TransferMoves, TransferEnds
  <2>6. [kind |-> kind, path |-> a.path] \in MessageSet
    BY <2>0 DEF MessageSet
  <2>7. <<[kind |-> kind, path |-> a.path]>> \in Seq(MessageSet)
    BY <2>6
  <2> QED
    BY <1>4, <2>3, <2>4, <2>5, <2>7, ObexdTypes DEF TransferMoves, TransferEnds, TypeInv
<1>5. ASSUME NEW session \in obexd.sessions \cap Sessions, LinkLost(session) PROVE TypeInv'
  <2>1. session \in Owners
    BY DEF Owners
  <2> QED
    BY <1>5, <2>1, DropTypes DEF LinkLost, TypeInv
<1> QED
  BY <1>1, <1>l, <1>2, <1>3, <1>4, <1>5

LEMMA SenderStepTypes ==
    ASSUME TypeInv,
           \/ StartSendSession \/ DeviceReady \/ DeviceConnectAnswers
           \/ RetryTimeout \/ SessionAdded \/ SessionRemoved \/ SessionFailed
           \/ TransferStarted \/ TransferFailed \/ TransferProgress
           \/ TransferError \/ TransferCompleted
           \/ Retry \/ Skip \/ Cancel \/ FatalClosed
    PROVE  TypeInv'
<1>0. /\ sender \in SenderState /\ queue \in Seq(MessageSet) /\ wired \in [Paths -> Nat]
      /\ device \in [ready : BOOLEAN, connecting : BOOLEAN] /\ Message = Head(queue)
      /\ Len(sender.files) \in Nat
  BY ListFacts, SenderFields DEF TypeInv, Message
<1>a. \A s \in SenderState : s.files = sender.files =>
         StepOK(Step(s, <<>>), sender) /\ StepOK(CreateSession(s), sender)
  BY HandlerTypes DEF StepOK
<1>b. StepOK(Step(sender, <<>>), sender)
  BY <1>0, HandlerTypes
<1>c. ASSUME NEW kind, Receive(kind)
      PROVE  /\ queue' \in Seq(MessageSet) /\ Message.kind = kind
             /\ kind \in {"added", "removed", "sendfailed", "started"} => Message.session \in Owners
             /\ kind \in {"started", "progress", "done", "error"} => Message.path \in Paths
  BY <1>c, ReceiveTypes, SentFields
<1>1. CASE StartSendSession
  <2> DEFINE r == [sender EXCEPT !.start = FALSE]
             s == [r EXCEPT !.awaiting = ~device.ready]
  <2>1. s \in SenderState
    <3>1. r \in SenderState
      BY <1>0, SenderUpdates
    <3>2. (~device.ready) \in BOOLEAN
      BY <1>0
    <3> QED
      BY <3>1, <3>2, SenderUpdates
  <2>2. s.files = sender.files
    BY <1>0 DEF SenderState, SenderRecords
  <2>3. Do(IF device.ready THEN CreateSession(s) ELSE Step(s, <<>>))
    BY <1>1 DEF StartSendSession
  <2>4. device' \in [ready : BOOLEAN, connecting : BOOLEAN]
    BY <1>0, <1>1 DEF StartSendSession
  <2> HIDE DEF s
  <2>5. StepOK(IF device.ready THEN CreateSession(s) ELSE Step(s, <<>>), sender)
    BY <1>a, <2>1, <2>2
  <2> QED
    BY <1>0, <1>1, <2>3, <2>4, <2>5, HandlerStep DEF StartSendSession
<1>2. CASE DeviceReady
  <2> DEFINE s == [sender EXCEPT !.awaiting = FALSE]
  <2>1. s \in SenderState
    BY <1>0, SenderUpdates
  <2>2. s.files = sender.files
    BY <1>0 DEF SenderState, SenderRecords
  <2>3. Do(IF sender.awaiting THEN CreateSession(s) ELSE Step(sender, <<>>))
    BY <1>2 DEF DeviceReady
  <2>4. device' \in [ready : BOOLEAN, connecting : BOOLEAN]
    BY <1>0, <1>2 DEF DeviceReady
  <2> HIDE DEF s
  <2>5. StepOK(IF sender.awaiting THEN CreateSession(s) ELSE Step(sender, <<>>), sender)
    BY <1>a, <1>b, <2>1, <2>2
  <2> QED
    BY <1>0, <1>2, <2>3, <2>4, <2>5, HandlerStep DEF DeviceReady
<1>3. CASE DeviceConnectAnswers
  <2> DEFINE r == [sender EXCEPT !.awaiting = FALSE]
             s == [r EXCEPT !.fatal = TRUE]
  <2>1. r \in SenderState /\ s \in SenderState
    BY <1>0, SenderUpdates
  <2>2. s.files = sender.files
    BY <1>0 DEF SenderState, SenderRecords
  <2>3. sender' \in {sender, s}
    BY <1>3 DEF DeviceConnectAnswers
  <2>4. device' \in [ready : BOOLEAN, connecting : BOOLEAN]
    BY <1>0, <1>3 DEF DeviceConnectAnswers
  <2> HIDE DEF s
  <2>5. sender' \in SenderState /\ sender'.files = sender.files
    BY <1>0, <2>1, <2>2, <2>3
  <2> QED
    BY <1>3, <2>4, <2>5 DEF DeviceConnectAnswers, TypeInv
<1>4. CASE RetryTimeout
  <2> DEFINE s == [sender EXCEPT !.retry = FALSE]
  <2>1. s \in SenderState
    BY <1>0, SenderUpdates
  <2>2. s.files = sender.files
    BY <1>0 DEF SenderState, SenderRecords
  <2>3. Do(CreateSession(s))
    BY <1>4 DEF RetryTimeout
  <2> HIDE DEF s
  <2> QED
    BY <1>0, <1>4, <1>a, <2>1, <2>2, <2>3, HandlerStep DEF RetryTimeout
<1>5. CASE SessionAdded
  <2>1. Do(OnSessionAdded(sender, Message.session)) /\ Receive("added")
    BY <1>5 DEF SessionAdded
  <2>2. StepOK(OnSessionAdded(sender, Message.session), sender)
    BY <1>0, <1>c, <2>1, ReceiverTypes
  <2> QED
    BY <1>0, <1>5, <1>c, <2>1, <2>2, HandlerStep DEF SessionAdded
<1>6. CASE SessionRemoved
  <2>1. Do(OnSessionRemoved(sender, Message.session)) /\ Receive("removed")
    BY <1>6 DEF SessionRemoved
  <2>2. StepOK(OnSessionRemoved(sender, Message.session), sender)
    BY <1>0, <1>c, <2>1, ReceiverTypes
  <2> QED
    BY <1>0, <1>6, <1>c, <2>1, <2>2, HandlerStep DEF SessionRemoved
<1>7. CASE SessionFailed
  <2>1. PICK n \in Fallbacks : Do(OnSessionFailed(sender, n))
    BY <1>7 DEF SessionFailed
  <2>2. Receive("failed") /\ Other \in Owners
    BY <1>7 DEF SessionFailed, Owners
  <2>3. StepOK(OnSessionFailed(sender, n), sender)
    BY <1>0, <2>2, ReceiverTypes
  <2> QED
    BY <1>0, <1>7, <1>c, <2>1, <2>2, <2>3, HandlerStep DEF SessionFailed
<1>8. CASE TransferStarted
  <2>1. Receive("started") /\ Other \in Owners
    BY <1>8 DEF TransferStarted, Owners
  <2>2. Message.path \in Paths /\ queue' \in Seq(MessageSet)
    BY <1>c, <2>1
  <2>3. CASE sender.push = Message.session
    <3>1. Do(Step(OnTransferStarted(sender), <<>>)) /\ wired' = [wired EXCEPT ![Message.path] = @ + 1]
      BY <1>8, <2>3 DEF TransferStarted
    <3>2. wired' \in [Paths -> Nat]
      BY <1>0, <2>2, <3>1
    <3>3. StepOK(Step(OnTransferStarted(sender), <<>>), sender)
      BY <1>0, <2>1, ReceiverTypes
    <3> QED
      BY <1>0, <1>8, <2>2, <3>1, <3>2, <3>3, HandlerStep DEF TransferStarted
  <2>4. CASE sender.push # Message.session
    BY <1>8, <2>2, <2>4 DEF TransferStarted, TypeInv
  <2> QED
    BY <2>3, <2>4
<1>9. CASE TransferFailed
  <2>1. Receive("sendfailed") /\ Other \in Owners
    BY <1>9 DEF TransferFailed, Owners
  <2> DEFINE step == IF sender.push = Message.session THEN OnTransferError(sender) ELSE Step(sender, <<>>)
  <2>2. Do(step)
    BY <1>9 DEF TransferFailed
  <2>3. StepOK(step, sender)
    BY <1>0, <1>b, <2>1, ReceiverTypes
  <2> HIDE DEF step
  <2> QED
    BY <1>0, <1>9, <1>c, <2>1, <2>2, <2>3, HandlerStep DEF TransferFailed
<1>10. CASE TransferProgress
  <2>1. Receive("progress") /\ Other \in Owners
    BY <1>10 DEF TransferProgress, TransferSignal, Owners
  <2> DEFINE step == IF wired[Message.path] = 0 THEN Step(sender, <<>>)
                     ELSE Step(OnTransferProgress(sender), <<>>)
  <2>2. Do(step)
    BY <1>10 DEF TransferProgress, TransferSignal
  <2>3. StepOK(step, sender)
    BY <1>0, <1>b, <2>1, ReceiverTypes
  <2> HIDE DEF step
  <2> QED
    BY <1>0, <1>10, <1>c, <2>1, <2>2, <2>3, HandlerStep DEF TransferProgress, TransferSignal
<1>11. CASE TransferError
  <2>1. Receive("error") /\ Other \in Owners
    BY <1>11 DEF TransferError, TransferSignal, Owners
  <2> DEFINE step == IF wired[Message.path] = 0 THEN Step(sender, <<>>) ELSE OnTransferError(sender)
  <2>2. Do(step)
    BY <1>11 DEF TransferError, TransferSignal
  <2>3. StepOK(step, sender)
    BY <1>0, <1>b, <2>1, ReceiverTypes
  <2> HIDE DEF step
  <2> QED
    BY <1>0, <1>11, <1>c, <2>1, <2>2, <2>3, HandlerStep DEF TransferError, TransferSignal
<1>12. CASE TransferCompleted
  <2>1. Receive("done") /\ Other \in Owners
    BY <1>12 DEF TransferCompleted, TransferSignal, Owners
  <2> DEFINE once == OnTransferCompleted(sender)
             twice == Then(once, OnTransferCompleted)
             step == IF wired[Message.path] = 0 THEN Step(sender, <<>>)
                     ELSE IF wired[Message.path] = 1 THEN once ELSE twice
  <2>2. Do(step)
    BY <1>12 DEF TransferCompleted, TransferSignal
  <2>3. StepOK(once, sender)
    BY <1>0, <2>1, ReceiverTypes
  <2>4. StepOK(OnTransferCompleted(once.s), once.s)
    BY <2>1, <2>3, ReceiverTypes DEF StepOK
  <2> HIDE DEF once
  <2>5. StepOK(twice, sender)
    BY <1>0, <2>3, <2>4, ChainTypes DEF StepOK
  <2>6. StepOK(step, sender)
    BY <1>b, <2>3, <2>5
  <2> HIDE DEF step
  <2> QED
    BY <1>0, <1>12, <1>c, <2>1, <2>2, <2>6, HandlerStep DEF TransferCompleted, TransferSignal
<1>13. CASE Retry
  <2>1. StepOK(AfterDialog(sender), sender)
    BY <1>0, ReceiverTypes DEF Owners
  <2> QED
    BY <1>0, <1>13, <2>1, HandlerStep DEF Retry
<1>14. CASE Skip
  <2> DEFINE step == AfterDialog(DropFile(sender))
  <2>1. Do(step) /\ sender.files # <<>>
    BY <1>14 DEF Skip
  <2>2. StepOK(step, sender) /\ Len(step.s.files) < Len(sender.files)
    BY <1>0, <2>1, ReceiverTypes DEF Owners
  <2>3. sender' = step.s /\ sender' \in SenderState /\ calls' \in Seq(CallSet)
    BY <2>1, <2>2, DoTypes DEF Do
  <2>4. IsFiniteSet(skipped') /\ Cardinality(skipped') <= Cardinality(skipped) + 1
    <3>1. IsFiniteSet(skipped) /\ Cardinality(skipped) \in Nat
      BY FS_CardinalityType DEF TypeInv
    <3> QED
      BY <1>14, <3>1, FS_AddElement DEF Skip
  <2>5. Len(sender'.files) + Cardinality(skipped') <= Len(Files)
    <3>1. Len(sender'.files) \in Nat /\ Cardinality(skipped) \in Nat /\ Cardinality(skipped') \in Nat
      BY <2>3, <2>4, ListFacts, SenderFields, FS_CardinalityType DEF TypeInv
    <3>2. Len(sender.files) + Cardinality(skipped) <= Len(Files)
      BY DEF TypeInv
    <3> QED
      BY <1>0, <2>2, <2>3, <2>4, <3>1, <3>2, SendingConstants
  <2> HIDE DEF step
  <2> QED
    BY <1>14, <2>3, <2>4, <2>5 DEF Skip, TypeInv
<1>15. CASE Cancel
  <2>1. StepOK(OnCancel(sender), sender)
    BY <1>0, ReceiverTypes DEF Owners
  <2> QED
    BY <1>0, <1>15, <2>1, HandlerStep DEF Cancel
<1>16. CASE FatalClosed
  <2>1. StepOK(Emit(sender, "failed"), sender)
    BY <1>0, HandlerTypes
  <2> QED
    BY <1>0, <1>16, <2>1, HandlerStep DEF FatalClosed
<1> QED
  BY <1>1, <1>2, <1>3, <1>4, <1>5, <1>6, <1>7, <1>8, <1>9, <1>10, <1>11, <1>12, <1>13, <1>14, <1>15, <1>16

LEMMA SendingTypes == SenderSpec => []TypeInv
<1>1. SenderInit => TypeInv
  <2> SUFFICES ASSUME SenderInit PROVE TypeInv
    OBVIOUS
  <2>1. Files \in Lists
    <3>1. Len(Files) \in 0 .. Len(Files) /\ Len(Files) \in Nat
      BY SendtoAssumption
    <3>2. Files = SubSeq(Files, 1, Len(Files))
      <4>1. SubSeq(Files, 1, Len(Files)) \in Seq(Range(Files)) /\ Len(SubSeq(Files, 1, Len(Files))) = Len(Files)
        BY <3>1, SendtoAssumption
      <4>2. \A i \in 1 .. Len(Files) : SubSeq(Files, 1, Len(Files))[i] = Files[i]
        BY <3>1, SendtoAssumption
      <4> QED
        BY <4>1, <4>2, SendtoAssumption
    <3> QED
      BY <3>1, <3>2 DEF Lists
  <2>2. sender \in SenderState
    BY <2>1, SendingConstants DEF SenderInit, SenderState, SenderRecords
  <2>3. obexd \in ObexdState /\ obexd.active = {}
    BY DEF SenderInit, FreshObexd, ObexdState
  <2>4. IsFiniteSet(obexd.active) /\ IsFiniteSet(skipped) /\ Cardinality(skipped) = 0
    BY <2>3, FS_EmptySet DEF SenderInit
  <2>5. Len(sender.files) + Cardinality(skipped) <= Len(Files)
    BY <2>4, SendingConstants DEF SenderInit
  <2> QED
    <3>1. queue \in Seq(MessageSet) /\ calls \in Seq(CallSet)
      BY DEF SenderInit
    <3> QED
      BY <2>2, <2>3, <2>4, <2>5, <3>1 DEF SenderInit, TypeInv
<1>2. TypeInv /\ [SenderNext]_senderVars => TypeInv'
  <2> SUFFICES ASSUME TypeInv, [SenderNext]_senderVars PROVE TypeInv'
    OBVIOUS
  <2>1. CASE UNCHANGED senderVars
    BY <2>1 DEF TypeInv, senderVars
  <2>2. CASE SenderNext
    BY <2>2, ObexdStepTypes, SenderStepTypes DEF SenderNext
  <2> QED
    BY <2>1, <2>2
<1> QED
  BY <1>1, <1>2, PTL DEF SenderSpec

\* What is asked for next is in the lists: the attempt among the ways to connect,
\* and no file is sent that was sent or skipped (AttemptsExist).
THEOREM AttemptsHold == SenderSpec => []AttemptsExist
<1>1. TypeInv => AttemptsExist
  BY SenderFields, ObexdFields DEF TypeInv, AttemptsExist, AttemptExists, SenderTypeOK, Owners
<1> QED
  BY <1>1, SendingTypes, PTL

-------------------------------------------------------------------------------
(* Sending files: what the Sender waits for *)

\* The messages on their way and the calls not handled yet, by position.
Kind(i) == queue[i].kind
Positions == 1 .. Len(queue)
Asked == {i \in 1 .. Len(calls) : calls[i].op = "create"}
Offered == {i \in Positions : Kind(i) \in {"added", "failed"}}
SendsTo(session) == {i \in 1 .. Len(calls) : calls[i].op = "send" /\ calls[i].session = session}

\* Later than position i obexd says that the transfer of path p, or the session, has ended.
EndsAfter(i, p) == \E j \in Positions : j > i /\ Kind(j) \in {"done", "error"} /\ queue[j].path = p
RemovedAfter(i, session) == \E j \in Positions : j > i /\ Kind(j) = "removed" /\ queue[j].session = session
IsActive(p) == \E a \in obexd.active : a.path = p

\* What the Sender waits for on its own side: the device, a timer or the user.
Local == sender.start \/ sender.awaiting \/ sender.retry \/ sender.dialog # "none" \/ sender.fatal

\* With a session: a call for it, an answer to one, its end, or a transfer the Sender
\* listens to or will listen to when it reads that it has started.
Working(session) ==
    \/ SendsTo(session) # {}
    \/ \E i \in Positions : Kind(i) \in {"sendfailed", "removed"} /\ queue[i].session = session
    \/ \E p \in Paths : wired[p] > 0 /\ (IsActive(p) \/ EndsAfter(0, p))
    \/ \E i \in Positions : /\ Kind(i) = "started" /\ queue[i].session = session
                            /\ IsActive(queue[i].path) \/ EndsAfter(i, queue[i].path)

Waiting == IF sender.push = NoSession THEN Local \/ Asked # {} \/ Offered # {}
           ELSE sender.dialog # "none" \/ Working(sender.push)

\* A session the Sender has, or is about to have, is there, or it will hear of its end.
SessionsKnown ==
    /\ sender.push # NoSession => sender.push \in obexd.sessions \/ RemovedAfter(0, sender.push)
    /\ \A i \in Positions : Kind(i) = "added" =>
           queue[i].session \in obexd.sessions \/ RemovedAfter(i, queue[i].session)
    /\ \A a \in obexd.active : a.path[1] \in obexd.sessions

WaitInv == SessionsKnown /\ (Running => sender.files # <<>> /\ Waiting)

LEMMA QueueGrows ==
    ASSUME TypeInv, NEW ms \in Seq(MessageSet), Tell(ms)
    PROVE  /\ Len(queue) \in Nat /\ Len(ms) \in Nat
           /\ \A i \in Positions : i \in Positions' /\ queue'[i] = queue[i] /\ i <= Len(queue) /\ i > 0
           /\ \A i \in 1 .. Len(ms) : Len(queue) + i \in Positions' /\ queue'[Len(queue) + i] = ms[i]
           /\ \A k \in Positions' : k \in Positions \/ \E i \in 1 .. Len(ms) : k = Len(queue) + i
<1>1. /\ Len(queue) \in Nat /\ Len(ms) \in Nat /\ Len(queue') = Len(queue) + Len(ms)
      /\ \A i \in 1 .. Len(queue) : queue'[i] = queue[i]
      /\ \A i \in 1 .. Len(ms) : queue'[Len(queue) + i] = ms[i]
  BY Joined DEF TypeInv, Tell
<1>2. ASSUME NEW k \in Positions', k \notin Positions
      PROVE  \E i \in 1 .. Len(ms) : k = Len(queue) + i
  <2>1. k - Len(queue) \in 1 .. Len(ms) /\ k = Len(queue) + (k - Len(queue))
    BY <1>1, <1>2 DEF Positions
  <2> QED
    BY <2>1
<1>3. \A i \in Positions : i \in Positions' /\ queue'[i] = queue[i] /\ i <= Len(queue) /\ i > 0
  BY <1>1 DEF Positions
<1>4. \A i \in 1 .. Len(ms) : Len(queue) + i \in Positions' /\ queue'[Len(queue) + i] = ms[i]
  BY <1>1 DEF Positions
<1> QED
  BY <1>1, <1>2, <1>3, <1>4

LEMMA QueueTaken ==
    ASSUME TypeInv, queue # <<>>, queue' = Tail(queue)
    PROVE  /\ 1 \in Positions /\ queue[1] = Message
           /\ \A i \in Positions' : i + 1 \in Positions /\ queue'[i] = queue[i + 1] /\ i > 0 /\ i \in Nat
           /\ \A k \in Positions : k = 1 \/ (k > 1 /\ k - 1 \in Positions' /\ queue'[k - 1] = queue[k])
           /\ \A k \in Positions : k \in Nat
BY FirstTaken DEF TypeInv, Positions, Message

LEMMA CallsGrow ==
    ASSUME TypeInv, NEW cs \in Seq(CallSet), calls' = calls \o cs
    PROVE  /\ \A i \in 1 .. Len(calls) : i \in 1 .. Len(calls') /\ calls'[i] = calls[i]
           /\ \A i \in 1 .. Len(cs) : Len(calls) + i \in 1 .. Len(calls') /\ calls'[Len(calls) + i] = cs[i]
           /\ \A k \in 1 .. Len(calls') : k \in 1 .. Len(calls) \/
                 \E i \in 1 .. Len(cs) : k = Len(calls) + i
           /\ Len(calls) \in Nat /\ Len(cs) \in Nat
<1>1. /\ Len(calls) \in Nat /\ Len(cs) \in Nat /\ Len(calls') = Len(calls) + Len(cs)
      /\ \A i \in 1 .. Len(calls) : calls'[i] = calls[i]
      /\ \A i \in 1 .. Len(cs) : calls'[Len(calls) + i] = cs[i]
  BY Joined DEF TypeInv
<1>2. ASSUME NEW k \in 1 .. Len(calls'), k \notin 1 .. Len(calls)
      PROVE  \E i \in 1 .. Len(cs) : k = Len(calls) + i
  <2>1. k - Len(calls) \in 1 .. Len(cs) /\ k = Len(calls) + (k - Len(calls))
    BY <1>1, <1>2
  <2> QED
    BY <2>1
<1> QED
  BY <1>1, <1>2

\* What obexd says adds to what is waited for, if the transfers that are gone have ended
\* with a message.
LEMMA WorkingGrows ==
    ASSUME TypeInv, NEW ms \in Seq(MessageSet), Tell(ms), UNCHANGED wired, NEW session,
           \A a \in obexd.active : \/ IsActive(a.path)'
                                   \/ \E i \in 1 .. Len(ms) : /\ ms[i].kind \in {"done", "error"}
                                                              /\ ms[i].path = a.path,
           SendsTo(session) # {} => Working(session)',
           Working(session)
    PROVE  Working(session)'
<1>0. /\ Len(queue) \in Nat
      /\ \A i \in Positions : i \in Positions' /\ queue'[i] = queue[i] /\ i <= Len(queue) /\ i > 0
      /\ \A i \in 1 .. Len(ms) : Len(queue) + i \in Positions' /\ queue'[Len(queue) + i] = ms[i]
  BY QueueGrows
<1>1. \A i \in Positions : Kind(i)' = Kind(i)
  BY <1>0 DEF Kind
<1>2. ASSUME NEW p, NEW k \in Nat, k <= Len(queue), IsActive(p) \/ EndsAfter(k, p)
      PROVE  IsActive(p)' \/ EndsAfter(k, p)'
  <2>1. CASE EndsAfter(k, p)
    <3>1. PICK j \in Positions : j > k /\ Kind(j) \in {"done", "error"} /\ queue[j].path = p
      BY <2>1 DEF EndsAfter
    <3>2. j \in Positions' /\ Kind(j)' \in {"done", "error"} /\ queue'[j].path = p
      BY <1>0, <1>1, <3>1
    <3> QED
      BY <3>1, <3>2 DEF EndsAfter
  <2>2. CASE IsActive(p)
    <3>1. PICK a \in obexd.active : a.path = p
      BY <2>2 DEF IsActive
    <3>2. CASE IsActive(a.path)'
      BY <3>1, <3>2
    <3>3. ASSUME NEW i \in 1 .. Len(ms), ms[i].kind \in {"done", "error"}, ms[i].path = a.path
          PROVE  EndsAfter(k, p)'
      <4>1. PICK j \in Positions' : j = Len(queue) + i /\ queue'[j] = ms[i] /\ j > k
        BY <1>0, <1>2
      <4>2. Kind(j)' \in {"done", "error"} /\ queue'[j].path = p
        BY <3>1, <3>3, <4>1 DEF Kind
      <4> QED
        BY <4>1, <4>2 DEF EndsAfter
    <3> QED
      BY <3>1, <3>2, <3>3
  <2> QED
    BY <1>2, <2>1, <2>2
<1>3. CASE \E i \in Positions : Kind(i) \in {"sendfailed", "removed"} /\ queue[i].session = session
  <2>1. PICK i \in Positions : Kind(i) \in {"sendfailed", "removed"} /\ queue[i].session = session
    BY <1>3
  <2>2. i \in Positions' /\ Kind(i)' \in {"sendfailed", "removed"} /\ queue'[i].session = session
    BY <1>0, <1>1, <2>1
  <2> QED
    BY <2>2 DEF Working
<1>4. CASE \E p \in Paths : wired[p] > 0 /\ (IsActive(p) \/ EndsAfter(0, p))
  <2>1. PICK p \in Paths : wired[p] > 0 /\ (IsActive(p) \/ EndsAfter(0, p))
    BY <1>4
  <2>2. IsActive(p)' \/ EndsAfter(0, p)'
    BY <1>0, <1>2, <2>1
  <2> QED
    BY <2>1, <2>2 DEF Working
<1>5. CASE \E i \in Positions : /\ Kind(i) = "started" /\ queue[i].session = session
                                /\ IsActive(queue[i].path) \/ EndsAfter(i, queue[i].path)
  <2>1. PICK i \in Positions : /\ Kind(i) = "started" /\ queue[i].session = session
                               /\ IsActive(queue[i].path) \/ EndsAfter(i, queue[i].path)
    BY <1>5
  <2>2. i \in Nat /\ i <= Len(queue)
    BY <1>0 DEF Positions
  <2>3. PICK p : p = queue[i].path
    OBVIOUS
  <2>5. IsActive(p)' \/ EndsAfter(i, p)'
    BY <1>2, <2>1, <2>2, <2>3
  <2>4. i \in Positions' /\ Kind(i)' = "started" /\ queue'[i].session = session /\ queue'[i].path = p
    BY <1>0, <1>1, <2>1, <2>3
  <2> QED
    BY <2>4, <2>5 DEF Working, IsActive, EndsAfter
<1> QED
  BY <1>3, <1>4, <1>5 DEF Working

LEMMA CallsTaken ==
    ASSUME TypeInv, calls # <<>>, calls' = Tail(calls)
    PROVE  /\ calls[1] = Head(calls) /\ 1 \in 1 .. Len(calls)
           /\ \A i \in 1 .. Len(calls') : i + 1 \in 1 .. Len(calls) /\ calls'[i] = calls[i + 1]
           /\ \A k \in 1 .. Len(calls) : k = 1 \/ (k - 1 \in 1 .. Len(calls') /\ calls'[k - 1] = calls[k])
BY FirstTaken DEF TypeInv

\* A step of obexd keeps the Sender waiting for something that comes.
LEMMA ObexdKeepsWaiting ==
    ASSUME TypeInv, WaitInv, NEW ms \in Seq(MessageSet), Tell(ms), UNCHANGED <<sender, wired>>,
           \/ sender.push # NoSession => RemovedAfter(0, sender.push)'
           \/ \A a \in obexd.active : \/ IsActive(a.path)'
                                      \/ \E i \in 1 .. Len(ms) : /\ ms[i].kind \in {"done", "error"}
                                                                 /\ ms[i].path = a.path,
           SendsTo(sender.push) # {} => Working(sender.push)',
           Asked # {} => Asked' # {} \/ \E i \in 1 .. Len(ms) : ms[i].kind \in {"added", "failed"},
           \A session \in obexd.sessions \ obexd'.sessions : \E i \in 1 .. Len(ms) :
               ms[i].kind = "removed" /\ ms[i].session = session,
           \A i \in 1 .. Len(ms) : ms[i].kind = "added" => ms[i].session \in obexd'.sessions,
           \A a \in obexd'.active : a.path[1] \in obexd'.sessions
    PROVE  WaitInv'
<1>0. /\ Len(queue) \in Nat
      /\ \A i \in Positions : i \in Positions' /\ queue'[i] = queue[i] /\ i <= Len(queue) /\ i > 0
      /\ \A i \in 1 .. Len(ms) : Len(queue) + i \in Positions' /\ queue'[Len(queue) + i] = ms[i]
      /\ \A k \in Positions' : k \in Positions \/ \E i \in 1 .. Len(ms) : k = Len(queue) + i
  BY QueueGrows
<1>1. ASSUME NEW k \in Nat, k <= Len(queue), NEW session,
             session \in obexd.sessions \/ RemovedAfter(k, session)
      PROVE  session \in obexd'.sessions \/ RemovedAfter(k, session)'
  <2>1. CASE RemovedAfter(k, session)
    BY <1>0, <2>1 DEF RemovedAfter, Kind
  <2>2. CASE session \in obexd.sessions \ obexd'.sessions
    <3>1. PICK i \in 1 .. Len(ms) : ms[i].kind = "removed" /\ ms[i].session = session
      BY <2>2
    <3>2. PICK j \in Positions' : j = Len(queue) + i /\ queue'[j] = ms[i] /\ j > k
      BY <1>0, <1>1
    <3> QED
      BY <3>1, <3>2 DEF RemovedAfter, Kind
  <2> QED
    BY <1>1, <2>1, <2>2
<1>2. SessionsKnown'
  <2>1. sender'.push # NoSession => sender'.push \in obexd'.sessions \/ RemovedAfter(0, sender.push)'
    BY <1>0, <1>1 DEF WaitInv, SessionsKnown
  <2>2. ASSUME NEW k \in Positions', Kind(k)' = "added"
        PROVE  queue'[k].session \in obexd'.sessions \/ RemovedAfter(k, queue[k].session)'
    <3>1. CASE k \in Positions
      <4>0. PICK session : session = queue[k].session
        OBVIOUS
      <4>1. queue'[k] = queue[k] /\ k \in Nat /\ k <= Len(queue)
        BY <1>0, <3>1 DEF Positions
      <4>2. session \in obexd.sessions \/ RemovedAfter(k, session)
        BY <2>2, <3>1, <4>0, <4>1 DEF WaitInv, SessionsKnown, Kind
      <4>3. session \in obexd'.sessions \/ RemovedAfter(k, session)'
        BY <1>1, <4>1, <4>2
      <4> QED
        BY <4>0, <4>1, <4>3 DEF RemovedAfter
    <3>2. ASSUME NEW i \in 1 .. Len(ms), k = Len(queue) + i
          PROVE  queue'[k].session \in obexd'.sessions
      BY <1>0, <2>2, <3>2 DEF Kind
    <3> QED
      BY <1>0, <3>1, <3>2
  <2> QED
    BY <2>1, <2>2 DEF SessionsKnown, RemovedAfter
<1>3. ASSUME Running' PROVE sender'.files # <<>> /\ Waiting'
  <2>1. sender.files # <<>> /\ Waiting
    BY <1>3 DEF WaitInv, Running
  <2>2. CASE sender.push = NoSession /\ Local
    BY <2>1, <2>2 DEF Waiting, Local
  <2>5. CASE sender.push # NoSession /\ sender.dialog # "none"
    BY <2>1, <2>5 DEF Waiting
  <2>3. CASE sender.push = NoSession /\ (Asked # {} \/ Offered # {})
    <3>1. CASE Offered # {}
      <4>1. Offered' # {}
        BY <1>0, <3>1 DEF Offered, Kind
      <4> QED
        BY <2>1, <2>3, <4>1 DEF Waiting
    <3>2. CASE Asked' # {}
      BY <2>1, <2>3, <3>2 DEF Waiting
    <3>3. ASSUME NEW i \in 1 .. Len(ms), ms[i].kind \in {"added", "failed"} PROVE Offered' # {}
      <4>1. PICK j \in Positions' : j = Len(queue) + i /\ queue'[j] = ms[i]
        BY <1>0
      <4> QED
        BY <3>3, <4>1 DEF Offered, Kind
    <3> QED
      BY <2>1, <2>3, <3>1, <3>2, <3>3 DEF Waiting
  <2>4. CASE sender.push # NoSession /\ Working(sender.push)
    <3> DEFINE push == sender.push
    <3>0. PICK p : p = sender.push /\ p = sender'.push
      OBVIOUS
    <3>1. CASE RemovedAfter(0, p)'
      <4>1. Working(p)'
        BY <3>1 DEF RemovedAfter, Working
      <4> QED
        BY <2>1, <2>4, <3>0, <4>1 DEF Waiting, Working, SendsTo
    <3>2. CASE \A a \in obexd.active : \/ IsActive(a.path)'
                                       \/ \E i \in 1 .. Len(ms) : /\ ms[i].kind \in {"done", "error"}
                                                                  /\ ms[i].path = a.path
      <4>1. SendsTo(p) # {} => Working(p)'
        BY <3>0 DEF SendsTo, Working
      <4>2. Working(p)
        BY <2>4, <3>0
      <4>3. Working(p)'
        BY <3>2, <4>1, <4>2, WorkingGrows
      <4> QED
        BY <2>1, <2>4, <3>0, <4>3 DEF Waiting, Working, SendsTo
    <3>3. RemovedAfter(0, sender.push)' => RemovedAfter(0, p)'
      BY <3>0 DEF RemovedAfter
    <3> QED
      BY <2>4, <3>1, <3>2, <3>3
  <2> QED
    BY <2>1, <2>2, <2>3, <2>4, <2>5 DEF Waiting
<1> QED
  BY <1>2, <1>3 DEF WaitInv, Running

LEMMA NothingTold == ASSUME TypeInv, UNCHANGED queue PROVE Tell(<<>>) /\ <<>> \in Seq(MessageSet)
BY DEF TypeInv, Tell

\* When a session goes, its transfers say so.
LEMMA DropKeepsWaiting ==
    ASSUME TypeInv, WaitInv, NEW session \in Owners, DropSession(session), UNCHANGED <<sender, wired>>,
           SendsTo(sender.push) # {} => Working(sender.push)',
           Asked # {} => Asked' # {}
    PROVE  WaitInv'
<1> DEFINE ms == Ended(session)
<1>1. Tell(ms) /\ ms \in Seq(MessageSet)
  BY EndedIs DEF DropSession
<1>2. obexd'.sessions = obexd.sessions \ {session} /\ obexd'.active = obexd.active \ Transfers(session)
  BY DEF DropSession, TypeInv, ObexdState
<1>3. /\ Len(ms) \in 1 .. Len(ms) /\ ms[Len(ms)].kind = "removed" /\ ms[Len(ms)].session = session
      /\ \A i \in 1 .. Len(ms) : ms[i].kind # "added"
      /\ \A a \in Transfers(session) : \E i \in 1 .. Len(ms) : ms[i].kind = "error" /\ ms[i].path = a.path
  <2>0. /\ Len(ms) \in Nat \ {0} /\ ms[Len(ms)] = [kind |-> "removed", session |-> session]
        /\ \A i \in 1 .. Len(ms) - 1 : \E a \in Transfers(session) : ms[i] = [kind |-> "error", path |-> a.path]
        /\ \A a \in Transfers(session) : \E i \in 1 .. Len(ms) - 1 : ms[i] = [kind |-> "error", path |-> a.path]
    BY EndedIs
  <2> HIDE DEF ms
  <2>1. \A i \in 1 .. Len(ms) : i = Len(ms) \/ i \in 1 .. Len(ms) - 1
    BY <2>0
  <2>2. ASSUME NEW i \in 1 .. Len(ms) - 1 PROVE ms[i].kind = "error"
    <3>1. PICK a \in Transfers(session) : ms[i] = [kind |-> "error", path |-> a.path]
      BY <2>0
    <3> QED
      BY <3>1
  <2>3. ASSUME NEW a \in Transfers(session)
        PROVE  \E i \in 1 .. Len(ms) : ms[i].kind = "error" /\ ms[i].path = a.path
    <3>1. PICK i \in 1 .. Len(ms) - 1 : ms[i] = [kind |-> "error", path |-> a.path]
      BY <2>0
    <3>2. i \in 1 .. Len(ms)
      BY <2>0
    <3>3. ms[i].kind = "error" /\ ms[i].path = a.path
      BY <3>1
    <3> QED
      BY <3>2, <3>3
  <2>4. Len(ms) \in 1 .. Len(ms) /\ ms[Len(ms)].kind = "removed" /\ ms[Len(ms)].session = session
    BY <2>0
  <2>5. \A i \in 1 .. Len(ms) : ms[i].kind # "added"
    BY <2>1, <2>2, <2>4
  <2> QED
    BY <2>3, <2>4, <2>5
<1> HIDE DEF ms
<1>4. \A a \in obexd.active : \/ IsActive(a.path)'
                              \/ \E i \in 1 .. Len(ms) : ms[i].kind \in {"done", "error"} /\ ms[i].path = a.path
  BY <1>2, <1>3 DEF IsActive
<1>5. \A a \in obexd'.active : a.path[1] \in obexd'.sessions
  BY <1>2 DEF WaitInv, SessionsKnown, Transfers
<1>6. \A lost \in obexd.sessions \ obexd'.sessions : \E i \in 1 .. Len(ms) :
          ms[i].kind = "removed" /\ ms[i].session = lost
  BY <1>2, <1>3
<1> QED
  BY <1>1, <1>3, <1>4, <1>5, <1>6, ObexdKeepsWaiting

LEMMA ObexdWaitStep ==
    ASSUME TypeInv, WaitInv,
           ObexdHandles \/ LateSession \/ OtherSession \/ ObexdDies
           \/ (\E a \in obexd.active : TransferMoves(a) \/ TransferEnds(a))
           \/ (\E session \in obexd.sessions \cap Sessions : LinkLost(session))
    PROVE  WaitInv'
<1>0. \A a \in obexd.active : a.path[1] \in obexd.sessions
  BY DEF WaitInv, SessionsKnown
<1>a. UNCHANGED calls => /\ SendsTo(sender.push) # {} /\ UNCHANGED sender => Working(sender.push)'
                         /\ Asked # {} => Asked' # {}
  BY DEF SendsTo, Working, Asked
<1>1. CASE ObexdHandles
  <2> DEFINE call == Head(calls)
  <2>0. /\ calls # <<>> /\ calls' = Tail(calls) /\ UNCHANGED <<world, device, sender, wired>>
        /\ calls[1] = call
        /\ \A k \in 1 .. Len(calls) : k = 1 \/ (k - 1 \in 1 .. Len(calls') /\ calls'[k - 1] = calls[k])
    BY <1>1, CallsTaken DEF ObexdHandles
  <2>1. call \in CallSet
    BY <2>0, FirstTaken DEF TypeInv
  <2>2. Asked # {} => call.op = "create" \/ Asked' # {}
    BY <2>0 DEF Asked
  <2>3. SendsTo(sender.push) # {} => (call.op = "send" /\ call.session = sender.push) \/ Working(sender.push)'
    BY <2>0 DEF SendsTo, Working
  <2>4. CASE call.op = "create" /\ HandleCreate
    <3>1. ASSUME obexd.nextSession <= MaxSessions,
                 obexd' = [obexd EXCEPT !.sessions = @ \cup {obexd.nextSession}, !.nextSession = @ + 1],
                 Tell(<<[kind |-> "added", session |-> obexd.nextSession]>>)
          PROVE  WaitInv'
      <4> DEFINE ms == <<[kind |-> "added", session |-> obexd.nextSession]>>
      <4>1. obexd'.sessions = obexd.sessions \cup {obexd.nextSession} /\ obexd'.active = obexd.active
        BY <3>1 DEF TypeInv, ObexdState
      <4>2. obexd.nextSession \in Owners
        BY <3>1, ObexdFields, SendingConstants DEF TypeInv, Owners, Sessions
      <4>3. [kind |-> "added", session |-> obexd.nextSession] \in MessageSet
        BY <4>2 DEF MessageSet
      <4>4. ms \in Seq(MessageSet) /\ Len(ms) = 1 /\ ms[1].kind = "added" /\ ms[1].session = obexd.nextSession
        BY <4>3
      <4>5. \A i \in 1 .. Len(ms) : ms[i].kind = "added" => ms[i].session \in obexd'.sessions
        BY <4>1, <4>4
      <4>6. \E i \in 1 .. Len(ms) : ms[i].kind \in {"added", "failed"}
        BY <4>4
      <4> HIDE DEF ms
      <4>7. \A a \in obexd.active : IsActive(a.path)'
        BY <4>1 DEF IsActive
      <4>8. Tell(ms)
        BY <3>1 DEF ms
      <4> QED
        BY <1>0, <2>0, <2>3, <2>4, <4>1, <4>4, <4>5, <4>6, <4>7, <4>8, ObexdKeepsWaiting
    <3>2. ASSUME Tell(<<[kind |-> "failed"]>>), obexd'.sessions = obexd.sessions, obexd'.active = obexd.active
          PROVE  WaitInv'
      <4> DEFINE ms == <<[kind |-> "failed"]>>
      <4>1. [kind |-> "failed"] \in MessageSet
        BY DEF MessageSet
      <4>2. ms \in Seq(MessageSet) /\ Len(ms) = 1 /\ ms[1].kind = "failed"
        BY <4>1
      <4> HIDE DEF ms
      <4>3. \A a \in obexd.active : IsActive(a.path)'
        BY <3>2 DEF IsActive
      <4>4. \E i \in 1 .. Len(ms) : ms[i].kind \in {"added", "failed"}
        BY <4>2
      <4>5. \A i \in 1 .. Len(ms) : ms[i].kind # "added"
        BY <4>2
      <4>8. Tell(ms)
        BY <3>2 DEF ms
      <4> QED
        BY <1>0, <2>0, <2>3, <2>4, <3>2, <4>2, <4>3, <4>4, <4>5, <4>8, ObexdKeepsWaiting
    <3>3. UNCHANGED obexd \/ obexd' = [obexd EXCEPT !.late = @ + 1]
          => obexd'.sessions = obexd.sessions /\ obexd'.active = obexd.active
      BY DEF TypeInv, ObexdState
    <3> QED
      BY <2>4, <3>1, <3>2, <3>3 DEF HandleCreate
  <2>5. CASE call.op = "remove" /\ HandleRemove(call.session)
    <3>0. call.session \in Owners
      BY <2>1, <2>5, SentFields
    <3>1. CASE DropSession(call.session)
      BY <2>0, <2>2, <2>3, <2>5, <3>0, <3>1, DropKeepsWaiting
    <3>2. CASE UNCHANGED <<obexd, queue>>
      <4> DEFINE ms == <<>>
      <4>1. Tell(ms) /\ ms \in Seq(MessageSet) /\ 1 .. Len(ms) = {}
        BY <3>2, NothingTold
      <4> HIDE DEF ms
      <4>2. \A a \in obexd.active : IsActive(a.path)'
        BY <3>2 DEF IsActive
      <4> QED
        BY <1>0, <2>0, <2>2, <2>3, <2>5, <3>2, <4>1, <4>2, ObexdKeepsWaiting
    <3> QED
      BY <2>5, <3>1, <3>2 DEF HandleRemove
  <2>6. CASE call.op = "send" /\ HandleSend(call.session, call.file)
    <3>0. PICK session \in Owners, file \in Payload : session = call.session /\ file = call.file
      BY <2>1, <2>6, SentFields
    <3>b. PICK path : path = <<session, obexd.nextTransfer>> /\ path = NextPath(session)
      BY DEF NextPath
    <3> DEFINE new == [path |-> path, file |-> file, moved |-> FALSE]
    <3>a. SendsTo(sender.push) # {} => session = sender.push \/ Working(sender.push)'
      BY <2>3, <3>0
    <3>c. ASSUME NEW noise, BeginTransfer(session, file, noise)
          PROVE  /\ session \in obexd.sessions /\ obexd.nextTransfer <= MaxTransfers
                 /\ obexd'.sessions = obexd.sessions /\ obexd'.active = obexd.active \cup {new}
      BY <3>b, <3>c DEF BeginTransfer, TypeInv, ObexdState
    <3>1. ASSUME BeginTransfer(session, file, obexd.noise),
                 Tell(<<[kind |-> "started", session |-> session, path |-> path]>>)
          PROVE  WaitInv'
      <4> DEFINE ms == <<[kind |-> "started", session |-> session, path |-> path]>>
      <4>1. /\ obexd'.sessions = obexd.sessions /\ obexd'.active = obexd.active \cup {new}
            /\ session \in obexd.sessions /\ obexd.nextTransfer <= MaxTransfers
        BY <3>1, <3>c
      <4>2. path \in Paths
        BY <3>0, <3>b, <4>1, ObexdFields, SendingConstants DEF TypeInv, Paths, Owners
      <4>3. [kind |-> "started", session |-> session, path |-> path] \in MessageSet
        BY <3>0, <4>2 DEF MessageSet
      <4>4. /\ ms \in Seq(MessageSet) /\ Len(ms) = 1 /\ ms[1].kind = "started"
            /\ ms[1].session = session /\ ms[1].path = path
        BY <4>3
      <4> HIDE DEF ms
      <4>5. \A a \in obexd.active : IsActive(a.path)'
        BY <4>1 DEF IsActive
      <4>6. \A a \in obexd'.active : a.path[1] \in obexd'.sessions
        BY <1>0, <3>b, <4>1
      <4>7. \A i \in 1 .. Len(ms) : ms[i].kind # "added"
        BY <4>4
      <4>8. Tell(ms)
        BY <3>1 DEF ms
      <4>9. Working(session)'
        <5>1. PICK j \in Positions' : queue'[j] = ms[1]
          BY <4>4, <4>8, QueueGrows
        <5>2. IsActive(path)'
          <6>1. new \in obexd'.active
            BY <4>1
          <6>2. new.path = path
            OBVIOUS
          <6> HIDE DEF new
          <6> QED
            BY <6>1, <6>2 DEF IsActive
        <5>3. Kind(j)' = "started" /\ queue'[j].session = session /\ queue'[j].path = path
          BY <4>4, <5>1 DEF Kind
        <5> QED
          BY <5>2, <5>3 DEF Working, IsActive
      <4>b. session = sender.push => Working(sender.push)'
        BY <2>0, <4>9 DEF Working, SendsTo
      <4> QED
        BY <1>0, <2>0, <2>2, <3>a, <4>b, <2>6, <4>1, <4>4, <4>5, <4>6, <4>7, <4>8, <4>9, ObexdKeepsWaiting
    <3>2. ASSUME Tell(<<[kind |-> "sendfailed", session |-> session]>>),
                 obexd'.sessions = obexd.sessions, obexd.active \subseteq obexd'.active,
                 \A a \in obexd'.active : a.path[1] \in obexd'.sessions
          PROVE  WaitInv'
      <4> DEFINE ms == <<[kind |-> "sendfailed", session |-> session]>>
      <4>1. [kind |-> "sendfailed", session |-> session] \in MessageSet
        BY <3>0 DEF MessageSet
      <4>2. ms \in Seq(MessageSet) /\ Len(ms) = 1 /\ ms[1].kind = "sendfailed" /\ ms[1].session = session
        BY <4>1
      <4> HIDE DEF ms
      <4>3. \A a \in obexd.active : IsActive(a.path)'
        BY <3>2 DEF IsActive
      <4>7. \A i \in 1 .. Len(ms) : ms[i].kind # "added"
        BY <4>2
      <4>8. Tell(ms)
        BY <3>2 DEF ms
      <4>9. Working(session)'
        BY <4>2, <4>8, QueueGrows DEF Working, Kind
      <4>b. session = sender.push => Working(sender.push)'
        BY <2>0, <4>9 DEF Working, SendsTo
      <4> QED
        BY <1>0, <2>0, <2>2, <3>a, <4>b, <2>6, <3>2, <4>2, <4>3, <4>7, <4>8, <4>9, ObexdKeepsWaiting
    <3>3. ASSUME BeginTransfer(session, file, obexd.noise + 1)
          PROVE  /\ obexd'.sessions = obexd.sessions /\ obexd.active \subseteq obexd'.active
                 /\ \A a \in obexd'.active : a.path[1] \in obexd'.sessions
      BY <1>0, <3>b, <3>c, <3>3
    <3>4. HandleSend(session, file)
      BY <2>6, <3>0
    <3> QED
      BY <1>0, <3>4, <3>b, <3>1, <3>2, <3>3 DEF HandleSend
  <2> QED
    BY <1>1, <2>4, <2>5, <2>6 DEF ObexdHandles
<1>l. CASE LateSession
  <2>0. UNCHANGED <<sender, wired, calls>>
    BY <1>l DEF LateSession
  <2> DEFINE ms == <<[kind |-> "added", session |-> obexd.nextSession]>>
  <2>1. obexd'.sessions = obexd.sessions \cup {obexd.nextSession} /\ obexd'.active = obexd.active
    BY <1>l DEF LateSession, TypeInv, ObexdState
  <2>2. obexd.nextSession \in Owners
    BY <1>l, ObexdFields, SendingConstants DEF LateSession, TypeInv, Owners, Sessions
  <2>3. [kind |-> "added", session |-> obexd.nextSession] \in MessageSet
    BY <2>2 DEF MessageSet
  <2>4. ms \in Seq(MessageSet) /\ Len(ms) = 1 /\ ms[1].kind = "added" /\ ms[1].session = obexd.nextSession
    BY <2>3
  <2>5. Tell(ms)
    BY <1>l DEF LateSession
  <2> HIDE DEF ms
  <2>6. \A i \in 1 .. Len(ms) : ms[i].kind = "added" => ms[i].session \in obexd'.sessions
    BY <2>1, <2>4
  <2>7. \A a \in obexd.active : IsActive(a.path)'
    BY <2>1 DEF IsActive
  <2> QED
    BY <1>0, <1>a, <2>0, <2>1, <2>4, <2>5, <2>6, <2>7, ObexdKeepsWaiting
<1>2. CASE OtherSession
  <2>0. UNCHANGED <<sender, wired, calls>>
    BY <1>2 DEF OtherSession
  <2>1. CASE Other \in obexd.sessions
    BY <1>2, <1>a, <2>0, <2>1, DropKeepsWaiting DEF OtherSession, Owners
  <2>2. CASE Other \notin obexd.sessions
    <3> DEFINE ms == <<[kind |-> "added", session |-> Other]>>
    <3>1. obexd'.sessions = obexd.sessions \cup {Other} /\ obexd'.active = obexd.active
      BY <1>2, <2>2 DEF OtherSession, TypeInv, ObexdState
    <3>2. [kind |-> "added", session |-> Other] \in MessageSet
      BY DEF MessageSet, Owners
    <3>3. ms \in Seq(MessageSet) /\ Len(ms) = 1 /\ ms[1].kind = "added" /\ ms[1].session = Other
      BY <3>2
    <3>4. Tell(ms)
      BY <1>2, <2>2 DEF OtherSession
    <3> HIDE DEF ms
    <3>5. \A i \in 1 .. Len(ms) : ms[i].kind = "added" => ms[i].session \in obexd'.sessions
      BY <3>1, <3>3
    <3>6. \A a \in obexd.active : IsActive(a.path)'
      BY <3>1 DEF IsActive
    <3> QED
      BY <1>0, <1>a, <2>0, <3>1, <3>3, <3>4, <3>5, <3>6, ObexdKeepsWaiting
  <2> QED
    BY <2>1, <2>2
<1>3. CASE ObexdDies
  <2> DEFINE order == SetToSeq(obexd.sessions)
             ms == [n \in 1 .. Len(order) |-> [kind |-> "removed", session |-> order[n]]]
  <2>1. IsFiniteSet(obexd.sessions)
    BY SendingConstants, ObexdFields, FS_Subset DEF TypeInv
  <2>2. /\ Len(order) \in Nat /\ \A n \in 1 .. Len(order) : order[n] \in obexd.sessions
        /\ \A session \in obexd.sessions : \E n \in 1 .. Len(order) : order[n] = session
    BY <2>1, OrderOf
  <2> HIDE DEF order
  <2>3. \A n \in 1 .. Len(order) : [kind |-> "removed", session |-> order[n]] \in MessageSet
    BY <2>2, ObexdFields DEF MessageSet, TypeInv
  <2>4. ms \in Seq(MessageSet) /\ Len(ms) = Len(order)
    BY <2>2, <2>3
  <2>5. \A n \in 1 .. Len(ms) : ms[n].kind = "removed" /\ ms[n].session = order[n]
    BY <2>4
  <2>6. Tell(ms)
    BY <1>3 DEF ObexdDies, order
  <2> HIDE DEF ms
  <2>7. \A session \in obexd.sessions : \E i \in 1 .. Len(ms) : ms[i].kind = "removed" /\ ms[i].session = session
    BY <2>2, <2>4, <2>5
  <2>8. obexd'.active = {}
    BY <1>3 DEF ObexdDies, FreshObexd
  <2>9. sender.push # NoSession => RemovedAfter(0, sender.push)'
    <3> SUFFICES ASSUME sender.push # NoSession PROVE RemovedAfter(0, sender.push)'
      OBVIOUS
    <3>0. PICK p : p = sender.push /\ p = sender'.push
      BY <1>3 DEF ObexdDies
    <3>1. CASE RemovedAfter(0, sender.push)
      <4>1. RemovedAfter(0, p)'
        BY <2>4, <2>6, <3>0, <3>1, QueueGrows DEF RemovedAfter, Kind
      <4> QED
        BY <3>0, <4>1 DEF RemovedAfter
    <3>2. CASE sender.push \in obexd.sessions
      <4>1. PICK i \in 1 .. Len(ms) : ms[i].kind = "removed" /\ ms[i].session = p
        BY <2>7, <3>0, <3>2
      <4>2. PICK j \in Positions' : queue'[j] = ms[i] /\ j > 0
        BY <2>4, <2>6, QueueGrows
      <4>3. RemovedAfter(0, p)'
        BY <4>1, <4>2 DEF RemovedAfter, Kind
      <4> QED
        BY <3>0, <4>3 DEF RemovedAfter
    <3> QED
      BY <3>1, <3>2 DEF WaitInv, SessionsKnown
  <2>10. UNCHANGED <<sender, wired, calls>>
    BY <1>3 DEF ObexdDies
  <2>11. \A i \in 1 .. Len(ms) : ms[i].kind # "added"
    BY <2>5
  <2> QED
    BY <1>a, <2>4, <2>6, <2>7, <2>8, <2>9, <2>10, <2>11, ObexdKeepsWaiting
<1>4. ASSUME NEW a \in obexd.active, TransferMoves(a) \/ TransferEnds(a) PROVE WaitInv'
  <2>0. UNCHANGED <<sender, wired, calls>> /\ a.path \in Paths
    BY <1>4, ObexdFields DEF TransferMoves, TransferEnds, TypeInv
  <2>1. PICK kind \in {"progress", "done", "error"} :
            /\ Tell(<<[kind |-> kind, path |-> a.path]>>)
            /\ TransferEnds(a) => kind \in {"done", "error"}
    BY <1>4 DEF TransferMoves, TransferEnds
  <2> DEFINE ms == <<[kind |-> kind, path |-> a.path]>>
  <2>2. [kind |-> kind, path |-> a.path] \in MessageSet
    BY <2>0 DEF MessageSet
  <2>3. ms \in Seq(MessageSet) /\ Len(ms) = 1 /\ ms[1].kind = kind /\ ms[1].path = a.path
    BY <2>2
  <2>4. Tell(ms)
    BY <2>1
  <2> HIDE DEF ms
  <2>5. /\ obexd'.sessions = obexd.sessions
        /\ TransferMoves(a) => obexd'.active = (obexd.active \ {a}) \cup {[a EXCEPT !.moved = TRUE]}
        /\ TransferEnds(a) => obexd'.active = obexd.active \ {a}
    BY <1>4 DEF TransferMoves, TransferEnds, TypeInv, ObexdState
  <2>6. [a EXCEPT !.moved = TRUE].path = a.path
    BY ObexdFields DEF TypeInv
  <2>7. \A b \in obexd.active : \/ IsActive(b.path)'
                                \/ \E i \in 1 .. Len(ms) : ms[i].kind \in {"done", "error"} /\ ms[i].path = b.path
    <3>1. ASSUME NEW b \in obexd.active, b # a PROVE IsActive(b.path)'
      BY <1>4, <2>5, <3>1 DEF IsActive
    <3>2. CASE TransferMoves(a)
      <4>1. [a EXCEPT !.moved = TRUE] \in obexd'.active
        BY <2>5, <3>2
      <4>2. IsActive(a.path)'
        BY <2>6, <4>1 DEF IsActive
      <4> QED
        BY <3>1, <4>2
    <3>3. CASE TransferEnds(a)
      <4>1. 1 \in 1 .. Len(ms) /\ ms[1].kind \in {"done", "error"} /\ ms[1].path = a.path
        BY <2>1, <2>3, <3>3
      <4> QED
        BY <3>1, <4>1
    <3> QED
      BY <1>4, <3>2, <3>3
  <2>8. \A b \in obexd'.active : b.path[1] \in obexd'.sessions
    BY <1>0, <1>4, <2>5, <2>6
  <2>9. \A i \in 1 .. Len(ms) : ms[i].kind # "added"
    BY <2>3
  <2> QED
    BY <1>a, <2>0, <2>3, <2>4, <2>5, <2>7, <2>8, <2>9, ObexdKeepsWaiting
<1>5. ASSUME NEW session \in obexd.sessions \cap Sessions, LinkLost(session) PROVE WaitInv'
  <2>1. session \in Owners /\ UNCHANGED <<sender, wired, calls>> /\ DropSession(session)
    BY <1>5 DEF Owners, LinkLost
  <2> QED
    BY <1>a, <2>1, DropKeepsWaiting
<1> QED
  BY <1>1, <1>l, <1>2, <1>3, <1>4, <1>5

\* What the handlers that go on with the list do.
SendCall(session, file) == [op |-> "send", session |-> session, file |-> file]
NextSend(push, files) == IF push = NoSession \/ files = <<>> THEN <<>>
                         ELSE <<SendCall(push, NextFile(files))>>
ResultOf(result, files) == IF files = <<>> /\ result = "none" THEN "sent" ELSE result
SameWaits(s, t) == /\ t.start = s.start /\ t.awaiting = s.awaiting /\ t.retry = s.retry
                   /\ t.dialog = s.dialog /\ t.fatal = s.fatal /\ t.push = s.push
SameCounts(s, t) == /\ t.bytes = s.bytes /\ t.total = s.total
                    /\ t.transferred = s.transferred /\ t.last = s.last

LEMMA ProcessQueueIs ==
    ASSUME NEW s \in SenderState
    PROVE  /\ SameWaits(s, ProcessQueue(s).s) /\ SameCounts(s, ProcessQueue(s).s)
           /\ ProcessQueue(s).s.files = s.files
           /\ ProcessQueue(s).s.result = ResultOf(s.result, s.files)
           /\ ProcessQueue(s).calls = NextSend(s.push, s.files)
BY DEF ProcessQueue, SendFile, Emit, Step, SenderState, SenderRecords, SameWaits, SameCounts, ResultOf,
       NextSend, SendCall

LEMMA CompletedIs ==
    ASSUME NEW s \in SenderState, s.files # <<>>
    PROVE  LET t == OnTransferCompleted(s) IN
           /\ SameWaits(s, t.s)
           /\ t.s.files = Front(s.files) /\ t.s.bytes = s.bytes /\ t.s.total = s.total
           /\ t.s.transferred = 0 /\ t.s.last = 0
           /\ t.s.result = ResultOf(s.result, Front(s.files))
           /\ t.calls = NextSend(s.push, Front(s.files))
<1> DEFINE a == [s EXCEPT !.files = Front(@)]
           b == [a EXCEPT !.transferred = 0]
           u == [b EXCEPT !.last = 0]
<1>1. Front(s.files) \in Lists
  BY ListFacts, SenderFields
<1>2. a \in SenderState
  BY <1>1, SenderUpdates
<1>3. u \in SenderState
  <2>1. b \in SenderState
    BY <1>2, SenderUpdates
  <2> QED
    BY <2>1, SenderUpdates
<1>4. /\ SameWaits(s, u) /\ u.files = Front(s.files) /\ u.bytes = s.bytes /\ u.total = s.total
      /\ u.transferred = 0 /\ u.last = 0 /\ u.result = s.result
  BY DEF SenderState, SenderRecords, SameWaits
<1>5. OnTransferCompleted(s) = ProcessQueue(u)
  BY DEF OnTransferCompleted
<1> HIDE DEF u
<1> QED
  BY <1>3, <1>4, <1>5, ProcessQueueIs DEF SameWaits, SameCounts

LEMMA AfterDialogIs ==
    ASSUME NEW s \in SenderState
    PROVE  LET t == AfterDialog(s) IN
           /\ t.s.start = s.start /\ t.s.awaiting = s.awaiting /\ t.s.retry = s.retry
           /\ t.s.fatal = s.fatal /\ t.s.push = s.push /\ t.s.dialog = "none"
           /\ t.s.files = s.files /\ t.s.bytes = s.bytes /\ t.s.total = s.total - s.transferred
           /\ t.s.transferred = 0 /\ t.s.last = s.last
           /\ t.s.result = ResultOf(s.result, s.files)
           /\ t.calls = IF s.push = NoSession THEN <<[op |-> "create"]>> ELSE NextSend(s.push, s.files)
<1> DEFINE a == [s EXCEPT !.dialog = "none"]
           b == [a EXCEPT !.total = @ - s.transferred]
           u == [b EXCEPT !.transferred = 0]
           v == IF s.push = NoSession THEN CreateSession(u) ELSE Step(u, <<>>)
<1>1. a \in SenderState
  BY SenderUpdates
<1>2. a.total = s.total /\ s.total - s.transferred \in Int
  <2>1. a.total = s.total
    BY DEF SenderState, SenderRecords
  <2> QED
    BY <2>1, SenderFields
<1>3. u \in SenderState
  <2>1. b \in SenderState
    BY <1>1, <1>2, SenderUpdates
  <2> QED
    BY <2>1, SenderUpdates
<1>4. /\ u.start = s.start /\ u.awaiting = s.awaiting /\ u.retry = s.retry
      /\ u.fatal = s.fatal /\ u.push = s.push /\ u.dialog = "none"
      /\ u.files = s.files /\ u.bytes = s.bytes /\ u.total = s.total - s.transferred
      /\ u.transferred = 0 /\ u.last = s.last /\ u.result = s.result
  BY DEF SenderState, SenderRecords
<1>5. AfterDialog(s) = Then(v, ProcessQueue)
  BY DEF AfterDialog
<1> HIDE DEF u
<1>6. v.s = u /\ v.calls = IF s.push = NoSession THEN <<[op |-> "create"]>> ELSE <<>>
  BY DEF CreateSession, Step
<1> HIDE DEF v
<1>7. AfterDialog(s).s = ProcessQueue(u).s /\ AfterDialog(s).calls = v.calls \o ProcessQueue(u).calls
  <2>1. Then(v, ProcessQueue) = Step(ProcessQueue(v.s).s, v.calls \o ProcessQueue(v.s).calls)
    BY DEF Then
  <2>2. ProcessQueue(v.s) = ProcessQueue(u)
    BY <1>6
  <2>3. AfterDialog(s) = Step(ProcessQueue(u).s, v.calls \o ProcessQueue(u).calls)
    BY <1>5, <2>1, <2>2
  <2>4. \A x, y : Step(x, y).s = x /\ Step(x, y).calls = y
    BY DEF Step
  <2> QED
    BY <2>3, <2>4, Zenon
<1>8. AfterDialog(s).calls = IF s.push = NoSession THEN <<[op |-> "create"]>> ELSE NextSend(s.push, s.files)
  <2>1. ProcessQueue(u).calls = NextSend(s.push, s.files)
    BY <1>3, <1>4, ProcessQueueIs
  <2>2. CASE s.push = NoSession
    BY <1>6, <1>7, <2>1, <2>2 DEF NextSend
  <2>3. CASE s.push # NoSession
    <3> DEFINE call == SendCall(s.push, NextFile(s.files))
    <3>1. NextSend(s.push, s.files) \in {<<>>, <<call>>}
      BY DEF NextSend
    <3> HIDE DEF call
    <3>3. <<>> \in Seq({call}) /\ <<call>> \in Seq({call})
      OBVIOUS
    <3>2. <<>> \o NextSend(s.push, s.files) = NextSend(s.push, s.files)
      BY <3>1, <3>3
    <3> QED
      BY <1>6, <1>7, <2>1, <2>3, <3>2
  <2> QED
    BY <2>2, <2>3
<1> QED
  BY <1>3, <1>4, <1>7, <1>8, ProcessQueueIs DEF SameWaits, SameCounts

LEMMA SendIsCalled ==
    ASSUME TypeInv, NEW push \in Owners, NEW files \in Lists, files # <<>>,
           calls' = calls \o NextSend(push, files)
    PROVE  \E i \in 1 .. Len(calls') : calls'[i] = SendCall(push, NextFile(files))
<1>1. push # NoSession
  BY SendingConstants
<1>2. SendCall(push, NextFile(files)) \in CallSet
  BY ListFacts DEF SendCall, CallSet
<1>3. NextSend(push, files) = <<SendCall(push, NextFile(files))>>
  BY <1>1 DEF NextSend
<1>4. <<SendCall(push, NextFile(files))>> \in Seq(CallSet) /\ 1 \in 1 .. Len(<<SendCall(push, NextFile(files))>>)
  BY <1>2
<1> QED
  BY <1>3, <1>4, CallsGrow

\* What is known of sessions when a message is read.
LEMMA TakenKnown ==
    ASSUME TypeInv, WaitInv, NEW kind, Receive(kind), UNCHANGED obexd
    PROVE  /\ \A session : RemovedAfter(0, session) =>
                  RemovedAfter(0, session)' \/ (kind = "removed" /\ Message.session = session)
           /\ \A i \in Positions' : Kind(i)' = "added" =>
                  queue'[i].session \in obexd.sessions \/ RemovedAfter(i, queue[i].session)'
           /\ \A session : kind = "added" /\ Message.session = session =>
                  session \in obexd.sessions \/ RemovedAfter(0, session)'
<1>1. /\ 1 \in Positions /\ queue[1] = Message /\ Message.kind = kind
      /\ \A i \in Positions' : i + 1 \in Positions /\ queue'[i] = queue[i + 1] /\ i > 0 /\ i \in Nat
      /\ \A k \in Positions : k = 1 \/ (k > 1 /\ k - 1 \in Positions' /\ queue'[k - 1] = queue[k])
      /\ \A k \in Positions : k \in Nat
  BY QueueTaken DEF Receive, Message
<1>2. ASSUME NEW k \in Nat, NEW session, RemovedAfter(k + 1, session)
      PROVE  RemovedAfter(k, session)'
  <2>1. PICK j \in Positions : j > k + 1 /\ Kind(j) = "removed" /\ queue[j].session = session
    BY <1>2 DEF RemovedAfter
  <2>2. PICK i \in Positions' : i = j - 1 /\ queue'[i] = queue[j]
    BY <1>1, <2>1
  <2>3. i > k
    BY <1>1, <2>1, <2>2
  <2> QED
    BY <2>1, <2>2, <2>3 DEF RemovedAfter, Kind
<1>3. ASSUME NEW session, RemovedAfter(0, session), ~(kind = "removed" /\ Message.session = session)
      PROVE  RemovedAfter(0, session)'
  <2>1. PICK j \in Positions : j > 0 /\ Kind(j) = "removed" /\ queue[j].session = session
    BY <1>3 DEF RemovedAfter
  <2>2. j > 0 + 1
    BY <1>1, <1>3, <2>1 DEF Kind
  <2> QED
    BY <1>2, <2>1, <2>2 DEF RemovedAfter
<1>4. ASSUME NEW i \in Positions', Kind(i)' = "added"
      PROVE  queue'[i].session \in obexd.sessions \/ RemovedAfter(i, queue[i].session)'
  <2>0. PICK session : session = queue'[i].session
    OBVIOUS
  <2>1. session \in obexd.sessions \/ RemovedAfter(i + 1, session)
    <3>1. i + 1 \in Positions /\ Kind(i + 1) = "added" /\ queue[i + 1].session = session
      BY <1>1, <1>4, <2>0 DEF Kind
    <3> QED
      BY <3>1 DEF WaitInv, SessionsKnown
  <2>2. session \in obexd.sessions \/ RemovedAfter(i, session)'
    BY <1>1, <1>2, <2>1
  <2> QED
    BY <2>0, <2>2 DEF RemovedAfter
<1>5. ASSUME NEW session, kind = "added", Message.session = session
      PROVE  session \in obexd.sessions \/ RemovedAfter(0, session)'
  <2>1. session \in obexd.sessions \/ RemovedAfter(0 + 1, session)
    BY <1>1, <1>5 DEF WaitInv, SessionsKnown, Kind
  <2> QED
    BY <1>2, <2>1
<1> QED
  BY <1>3, <1>4, <1>5

\* What is waited for when a message is read that was not it.
LEMMA TakenWorking ==
    ASSUME TypeInv, NEW kind, Receive(kind), UNCHANGED obexd, NEW cs \in Seq(CallSet), calls' = calls \o cs,
           \A p \in Paths : wired[p] > 0 => wired'[p] > 0,
           NEW session, Working(session)
    PROVE  \/ Working(session)'
           \/ kind \in {"sendfailed", "removed"} /\ Message.session = session
           \/ kind \in {"done", "error"} /\ wired[Message.path] > 0
           \/ kind = "started" /\ Message.session = session
              /\ \E p \in Paths : p = Message.path /\ (IsActive(p)' \/ EndsAfter(0, p)')
<1>1. /\ 1 \in Positions /\ queue[1] = Message /\ Message.kind = kind
      /\ \A k \in Positions : k = 1 \/ (k > 1 /\ k - 1 \in Positions' /\ queue'[k - 1] = queue[k])
      /\ \A k \in Positions : k \in Nat
      /\ kind \in {"started", "progress", "done", "error"} => Message.path \in Paths
  BY QueueTaken, ReceiveTypes, SentFields DEF Receive, Message
<1>2. ASSUME NEW k \in Nat, NEW p, EndsAfter(k + 1, p) PROVE EndsAfter(k, p)'
  <2>1. PICK j \in Positions : j > k + 1 /\ Kind(j) \in {"done", "error"} /\ queue[j].path = p
    BY <1>2 DEF EndsAfter
  <2>2. PICK i \in Positions' : i = j - 1 /\ queue'[i] = queue[j] /\ i > k
    BY <1>1, <2>1
  <2> QED
    BY <2>1, <2>2 DEF EndsAfter, Kind
<1>3. \A p : IsActive(p) => IsActive(p)'
  BY DEF IsActive
<1>4. CASE SendsTo(session) # {}
  <2>1. SendsTo(session)' # {}
    BY <1>4, CallsGrow DEF SendsTo
  <2> QED
    BY <2>1 DEF Working
<1>5. CASE \E i \in Positions : Kind(i) \in {"sendfailed", "removed"} /\ queue[i].session = session
  <2>1. PICK i \in Positions : Kind(i) \in {"sendfailed", "removed"} /\ queue[i].session = session
    BY <1>5
  <2>2. CASE i = 1
    BY <1>1, <2>1, <2>2 DEF Kind
  <2>3. CASE i # 1
    <3>1. PICK j \in Positions' : queue'[j] = queue[i]
      BY <1>1, <2>3
    <3> QED
      BY <2>1, <3>1 DEF Working, Kind
  <2> QED
    BY <2>2, <2>3
<1>6. CASE \E p \in Paths : wired[p] > 0 /\ (IsActive(p) \/ EndsAfter(0, p))
  <2>1. PICK p \in Paths : wired[p] > 0 /\ (IsActive(p) \/ EndsAfter(0, p))
    BY <1>6
  <2>2. CASE IsActive(p)' \/ EndsAfter(0, p)'
    BY <2>1, <2>2 DEF Working
  <2>3. CASE EndsAfter(0, p) /\ ~EndsAfter(0, p)'
    <3>1. PICK j \in Positions : j > 0 /\ Kind(j) \in {"done", "error"} /\ queue[j].path = p
      BY <2>3 DEF EndsAfter
    <3>2. CASE j = 1
      <4>1. kind \in {"done", "error"} /\ Message.path = p
        BY <1>1, <3>1, <3>2 DEF Kind
      <4> QED
        BY <2>1, <4>1
    <3>3. CASE j # 1
      <4>1. j > 0 + 1
        BY <1>1, <3>1, <3>3
      <4>2. EndsAfter(0 + 1, p)
        BY <3>1, <4>1 DEF EndsAfter
      <4> QED
        BY <1>2, <2>3, <4>2
    <3> QED
      BY <3>2, <3>3
  <2> QED
    BY <1>3, <2>1, <2>2, <2>3
<1>7. CASE \E i \in Positions : /\ Kind(i) = "started" /\ queue[i].session = session
                                /\ IsActive(queue[i].path) \/ EndsAfter(i, queue[i].path)
  <2>1. PICK i \in Positions : /\ Kind(i) = "started" /\ queue[i].session = session
                               /\ IsActive(queue[i].path) \/ EndsAfter(i, queue[i].path)
    BY <1>7
  <2>2. PICK p : p = queue[i].path
    OBVIOUS
  <2>3. PICK k \in Nat : i = k + 1
    <3>1. i \in Nat /\ i >= 1
      BY <1>1
    <3>2. i - 1 \in Nat /\ i = (i - 1) + 1
      BY <3>1
    <3> QED
      BY <3>2
  <2>4. IsActive(p)' \/ EndsAfter(k, p)'
    BY <1>2, <1>3, <2>1, <2>2, <2>3
  <2>5. CASE i = 1
    <3>1. kind = "started" /\ Message.session = session /\ p = Message.path
      BY <1>1, <2>1, <2>2, <2>5 DEF Kind
    <3>2. k = 0
      BY <2>3, <2>5
    <3> QED
      BY <1>1, <2>4, <3>1, <3>2
  <2>6. CASE i # 1
    <3>1. k \in Positions' /\ queue'[k] = queue[i]
      BY <1>1, <2>3, <2>6
    <3>2. Kind(k)' = "started" /\ queue'[k].session = session /\ queue'[k].path = p
      BY <2>1, <2>2, <3>1 DEF Kind
    <3> QED
      BY <2>4, <3>1, <3>2 DEF Working, IsActive, EndsAfter
  <2> QED
    BY <2>5, <2>6
<1> QED
  BY <1>4, <1>5, <1>6, <1>7 DEF Working

\* What is waited for when the Sender only calls.
LEMMA CallingWorking ==
    ASSUME TypeInv, UNCHANGED <<obexd, queue, wired>>, NEW cs \in Seq(CallSet), calls' = calls \o cs
    PROVE  /\ \A session : Working(session) => Working(session)'
           /\ \A k, session : RemovedAfter(k, session) => RemovedAfter(k, session)'
           /\ Asked # {} => Asked' # {}
           /\ Offered # {} => Offered' # {}
           /\ \A i \in 1 .. Len(cs) : cs[i].op = "create" => Asked' # {}
           /\ \A session : \A i \in 1 .. Len(cs) : cs[i].op = "send" /\ cs[i].session = session => Working(session)'
<1>1. \A session : SendsTo(session) # {} => SendsTo(session)' # {}
  BY CallsGrow DEF SendsTo
<1>2. \A session : Working(session) => Working(session)'
  BY <1>1 DEF Working, IsActive, EndsAfter, Positions, Kind
<1>3. \A k, session : RemovedAfter(k, session) => RemovedAfter(k, session)'
  BY DEF RemovedAfter, Positions, Kind
<1>4. Asked # {} => Asked' # {}
  BY CallsGrow DEF Asked
<1>5. Offered # {} => Offered' # {}
  BY DEF Offered, Positions, Kind
<1>6. \A i \in 1 .. Len(cs) : cs[i].op = "create" => Asked' # {}
  BY CallsGrow DEF Asked
<1>7. \A session : \A i \in 1 .. Len(cs) : cs[i].op = "send" /\ cs[i].session = session => Working(session)'
  BY CallsGrow DEF Working, SendsTo
<1> QED
  BY <1>2, <1>3, <1>4, <1>5, <1>6, <1>7

\* A step of the Sender that only calls, and keeps its session.
LEMMA CallingWaits ==
    ASSUME TypeInv, WaitInv, UNCHANGED <<obexd, queue, wired>>, NEW cs \in Seq(CallSet), calls' = calls \o cs,
           sender'.push = sender.push,
           Running' =>
               /\ sender'.files # <<>>
               /\ \/ sender.push = NoSession /\ Local'
                  \/ sender.push = NoSession /\ Running /\ ~Local
                  \/ sender.push = NoSession /\ \E i \in 1 .. Len(cs) : cs[i].op = "create"
                  \/ sender.push # NoSession /\ Running /\ sender.dialog = "none"
                  \/ sender.push # NoSession /\ sender'.dialog # "none"
                  \/ /\ sender.push # NoSession
                     /\ \E i \in 1 .. Len(cs) : cs[i].op = "send" /\ cs[i].session = sender.push
    PROVE  WaitInv'
<1>0. PICK push : push = sender.push /\ push = sender'.push
  OBVIOUS
<1>1. SessionsKnown'
  <2>1. push # NoSession => push \in obexd'.sessions \/ RemovedAfter(0, push)'
    BY <1>0, CallingWorking DEF WaitInv, SessionsKnown
  <2>2. \A i \in Positions' : Kind(i)' = "added" =>
           queue'[i].session \in obexd'.sessions \/ RemovedAfter(i, queue[i].session)'
    BY DEF WaitInv, SessionsKnown, RemovedAfter, Positions, Kind
  <2> QED
    BY <1>0, <2>1, <2>2 DEF WaitInv, SessionsKnown, RemovedAfter
<1>2. ASSUME Running' PROVE Waiting'
  <2>1. CASE sender.push = NoSession /\ Local'
    BY <1>0, <2>1 DEF Waiting
  <2>2. CASE sender.push = NoSession /\ Running /\ ~Local
    BY <1>0, <2>2, CallingWorking DEF WaitInv, Waiting
  <2>5. CASE sender.push # NoSession /\ Running /\ sender.dialog = "none"
    <3>1. Working(push)'
      BY <1>0, <2>5, CallingWorking DEF WaitInv, Waiting
    <3> QED
      BY <1>0, <2>5, <3>1 DEF Waiting, Working, SendsTo
  <2>6. CASE sender.push # NoSession /\ sender'.dialog # "none"
    BY <1>0, <2>6 DEF Waiting
  <2>3. CASE sender.push = NoSession /\ \E i \in 1 .. Len(cs) : cs[i].op = "create"
    BY <1>0, <2>3, CallingWorking DEF Waiting
  <2>4. CASE /\ sender.push # NoSession
             /\ \E i \in 1 .. Len(cs) : cs[i].op = "send" /\ cs[i].session = sender.push
    <3>1. Working(push)'
      BY <1>0, <2>4, CallingWorking
    <3> QED
      BY <1>0, <2>4, <3>1 DEF Waiting, Working, SendsTo
  <2> QED
    BY <1>2, <2>1, <2>2, <2>3, <2>4, <2>5, <2>6
<1> QED
  BY <1>1, <1>2 DEF WaitInv, Running

\* A step of the Sender that reads a message and keeps its session.
LEMMA ReadingWaits ==
    ASSUME TypeInv, WaitInv, NEW kind, Receive(kind), kind # "removed", UNCHANGED obexd,
           NEW cs \in Seq(CallSet), calls' = calls \o cs,
           \A p \in Paths : wired[p] > 0 => wired'[p] > 0,
           sender'.push = sender.push,
           Running' =>
               /\ sender'.files # <<>>
               /\ \/ sender.push = NoSession /\ Local'
                  \/ sender.push = NoSession /\ ~Local /\ kind \notin {"added", "failed"}
                  \/ sender.push # NoSession /\ sender'.dialog # "none"
                  \/ /\ sender.push # NoSession /\ sender.dialog = "none"
                     /\ (kind = "sendfailed" => Message.session # sender.push)
                     /\ (kind \in {"done", "error"} => wired[Message.path] = 0)
                     /\ (kind = "started" /\ Message.session = sender.push =>
                           \A p \in Paths : p = Message.path => wired'[p] > 0)
                  \/ /\ sender.push # NoSession
                     /\ \E i \in 1 .. Len(cs) : cs[i].op = "send" /\ cs[i].session = sender.push
    PROVE  WaitInv'
<1>0. PICK push : push = sender.push /\ push = sender'.push
  OBVIOUS
<1>1. SessionsKnown'
  <2>1. push # NoSession => push \in obexd'.sessions \/ RemovedAfter(0, push)'
    BY <1>0, TakenKnown DEF WaitInv, SessionsKnown
  <2>2. \A i \in Positions' : Kind(i)' = "added" =>
           queue'[i].session \in obexd'.sessions \/ RemovedAfter(i, queue[i].session)'
    BY TakenKnown
  <2>3. \A a \in obexd'.active : a.path[1] \in obexd'.sessions
    BY DEF WaitInv, SessionsKnown
  <2> QED
    BY <1>0, <2>1, <2>2, <2>3 DEF SessionsKnown, RemovedAfter
<1>2. ASSUME Running' PROVE Waiting'
  <2>0. Running
    BY DEF Receive
  <2>1. CASE sender.push = NoSession /\ Local'
    BY <1>0, <2>1 DEF Waiting
  <2>5. CASE sender.push # NoSession /\ sender'.dialog # "none"
    BY <1>0, <2>5 DEF Waiting
  <2>2. ASSUME ~Local, push = NoSession, kind \notin {"added", "failed"}
        PROVE  Waiting'
    <3>1. Asked # {} \/ Offered # {}
      BY <1>0, <2>0, <2>2 DEF WaitInv, Waiting
    <3>2. Asked # {} => Asked' # {}
      BY CallsGrow DEF Asked
    <3>3. Offered # {} => Offered' # {}
      <4> SUFFICES ASSUME NEW i \in Offered PROVE Offered' # {}
        OBVIOUS
      <4>1. i \in Positions /\ i # 1
        BY <2>2, QueueTaken DEF Offered, Kind, Receive, Message
      <4>2. PICK j \in Positions' : queue'[j] = queue[i]
        BY <4>1, QueueTaken DEF Receive
      <4> QED
        BY <4>2 DEF Offered, Kind
    <3> QED
      BY <1>0, <2>2, <3>1, <3>2, <3>3 DEF Waiting
  <2>3. ASSUME sender.dialog = "none", push # NoSession,
               kind = "sendfailed" => Message.session # push,
               kind \in {"done", "error"} => wired[Message.path] = 0,
               kind = "started" /\ Message.session = push => \A p \in Paths : p = Message.path => wired'[p] > 0
        PROVE  Waiting'
    <3>1. Working(push)
      BY <1>0, <2>0, <2>3 DEF WaitInv, Waiting
    <3>4. \/ Working(push)'
          \/ kind \in {"sendfailed", "removed"} /\ Message.session = push
          \/ kind \in {"done", "error"} /\ wired[Message.path] > 0
          \/ kind = "started" /\ Message.session = push
             /\ \E p \in Paths : p = Message.path /\ (IsActive(p)' \/ EndsAfter(0, p)')
      BY <3>1, TakenWorking
    <3>5. kind \in {"done", "error"} => ~(wired[Message.path] > 0)
      BY <2>3
    <3>2. Working(push)' \/ \E p \in Paths : wired'[p] > 0 /\ (IsActive(p)' \/ EndsAfter(0, p)')
      BY <2>3, <3>4, <3>5
    <3>3. Working(push)'
      BY <3>2 DEF Working
    <3> QED
      BY <1>0, <2>3, <3>3 DEF Waiting, Working, SendsTo
  <2>4. CASE /\ sender.push # NoSession
             /\ \E i \in 1 .. Len(cs) : cs[i].op = "send" /\ cs[i].session = sender.push
    <3>1. SendsTo(push)' # {}
      <4>1. PICK i \in 1 .. Len(cs) : cs[i].op = "send" /\ cs[i].session = push
        BY <1>0, <2>4
      <4>2. PICK j \in 1 .. Len(calls') : calls'[j] = cs[i]
        BY CallsGrow
      <4> QED
        BY <4>1, <4>2 DEF SendsTo
    <3> QED
      BY <1>0, <2>4, <3>1 DEF Waiting, Working, SendsTo
  <2> QED
    BY <1>0, <1>2, <2>1, <2>2, <2>3, <2>4, <2>5
<1> QED
  BY <1>1, <1>2 DEF WaitInv, Running

LEMMA AddedIs ==
    ASSUME NEW s \in SenderState, NEW session \in Owners
    PROVE  LET t == OnSessionAdded(s, session) IN
           /\ t.s.start = s.start /\ t.s.awaiting = s.awaiting /\ t.s.retry = FALSE
           /\ t.s.dialog = s.dialog /\ t.s.fatal = s.fatal /\ t.s.push = session
           /\ t.s.files = s.files /\ SameCounts(s, t.s) /\ t.s.result = ResultOf(s.result, s.files)
           /\ t.calls = NextSend(session, s.files)
<1> DEFINE r == [s EXCEPT !.retry = FALSE]
           u == [r EXCEPT !.push = session]
<1>1. u \in SenderState
  BY SenderUpdates
<1>2. /\ u.start = s.start /\ u.awaiting = s.awaiting /\ u.retry = FALSE /\ u.dialog = s.dialog
      /\ u.fatal = s.fatal /\ u.push = session /\ u.files = s.files /\ SameCounts(s, u) /\ u.result = s.result
  BY DEF SenderState, SenderRecords, SameCounts
<1>3. OnSessionAdded(s, session) = ProcessQueue(u)
  BY DEF OnSessionAdded
<1> HIDE DEF u
<1> QED
  BY <1>1, <1>2, <1>3, ProcessQueueIs DEF SameWaits, SameCounts

LEMMA RemovedIs ==
    ASSUME NEW s \in SenderState
    PROVE  LET t == OnSessionRemoved(s, s.push) IN
           /\ t.s.start = s.start /\ t.s.awaiting = s.awaiting /\ t.s.retry = s.retry
           /\ t.s.dialog = s.dialog /\ t.s.fatal = s.fatal /\ t.s.push = NoSession
           /\ t.s.files = s.files /\ t.s.bytes = s.bytes /\ t.s.result = s.result
           /\ t.s.transferred = 0 /\ t.s.last = 0
           /\ t.s.total = IF s.total < s.transferred THEN 0 ELSE s.total - s.transferred
           /\ t.calls = IF s.dialog # "none" \/ s.files = <<>> THEN <<>> ELSE <<[op |-> "create"]>>
<1> DEFINE u == ResetTransferState([s EXCEPT !.push = NoSession])
<1>1. /\ u.start = s.start /\ u.awaiting = s.awaiting /\ u.retry = s.retry
      /\ u.dialog = s.dialog /\ u.fatal = s.fatal /\ u.push = NoSession
      /\ u.files = s.files /\ u.bytes = s.bytes /\ u.result = s.result
      /\ u.transferred = 0 /\ u.last = 0
      /\ u.total = IF s.total < s.transferred THEN 0 ELSE s.total - s.transferred
  BY DEF SenderState, SenderRecords, ResetTransferState
<1>2. OnSessionRemoved(s, s.push) = IF s.dialog # "none" \/ s.files = <<>> THEN Step(u, <<>>) ELSE Reconnect(u)
  BY DEF OnSessionRemoved
<1> HIDE DEF u
<1>3. OnSessionRemoved(s, s.push) = Step(u, IF s.dialog # "none" \/ s.files = <<>> THEN <<>>
                                            ELSE <<[op |-> "create"]>>)
  BY <1>2 DEF Reconnect, CreateSession
<1> QED
  BY <1>1, <1>3 DEF Step

LEMMA OtherRemovedIs ==
    ASSUME NEW s, NEW session, s.push # session PROVE OnSessionRemoved(s, session) = Step(s, <<>>)
BY DEF OnSessionRemoved

LEMMA FailedIs ==
    ASSUME NEW s \in SenderState, NEW n \in Fallbacks
    PROVE  LET t == OnSessionFailed(s, n) IN
           /\ t.s.start = s.start /\ t.s.awaiting = s.awaiting
           /\ t.s.dialog = s.dialog /\ t.s.push = s.push
           /\ t.s.files = s.files /\ SameCounts(s, t.s) /\ t.s.result = s.result
           /\ \/ t.s.retry = TRUE /\ t.s.fatal = s.fatal
              \/ t.s.retry = s.retry /\ t.s.fatal = TRUE
           /\ t.calls = <<>>
<1> DEFINE m == IF s.attempts > 1 THEN s.attempts ELSE n
<1>1. OnSessionFailed(s, n) = Step(IF MoreAttempts(s, m)
         THEN [s EXCEPT !.attempts = m, !.attempt = @ + 1, !.retry = TRUE]
         ELSE [s EXCEPT !.attempts = m, !.fatal = TRUE], <<>>)
  BY DEF OnSessionFailed
<1> HIDE DEF m
<1> QED
  BY <1>1 DEF Step, SenderState, SenderRecords, SameCounts

LEMMA ErrorIs ==
    ASSUME NEW s \in SenderState
    PROVE  LET t == OnTransferError(s) IN
           /\ t.s.start = s.start /\ t.s.awaiting = s.awaiting /\ t.s.retry = s.retry
           /\ t.s.fatal = s.fatal /\ t.s.push = s.push /\ t.s.dialog # "none"
           /\ t.s.files = s.files /\ SameCounts(s, t.s) /\ t.s.result = s.result
           /\ t.calls = IF s.dialog # "none" THEN <<>> ELSE RemoveSession(s)
BY DEF OnTransferError, Step, SenderState, SenderRecords, SameCounts

LEMMA ProgressIs ==
    ASSUME NEW s \in SenderState
    PROVE  /\ SameWaits(s, OnTransferStarted(s)) /\ OnTransferStarted(s).files = s.files
           /\ OnTransferStarted(s).bytes = s.bytes /\ OnTransferStarted(s).total = s.total
           /\ OnTransferStarted(s).transferred = 0 /\ OnTransferStarted(s).last = 0
           /\ OnTransferStarted(s).result = s.result
           /\ SameWaits(s, OnTransferProgress(s)) /\ OnTransferProgress(s).files = s.files
           /\ OnTransferProgress(s).bytes = s.bytes /\ OnTransferProgress(s).total = s.total + 1 - s.last
           /\ OnTransferProgress(s).transferred = 1 /\ OnTransferProgress(s).last = 1
           /\ OnTransferProgress(s).result = s.result
BY DEF OnTransferStarted, OnTransferProgress, SenderState, SenderRecords, SameWaits

LEMMA DropIs ==
    ASSUME NEW s \in SenderState, s.files # <<>>
    PROVE  LET t == DropFile(s) IN
           /\ t \in SenderState /\ SameWaits(s, t) /\ t.files = Front(s.files)
           /\ t.bytes = s.bytes - 1 /\ t.total = s.total /\ t.transferred = s.transferred
           /\ t.last = s.last /\ t.result = s.result
<1> DEFINE a == [s EXCEPT !.files = Front(@)]
<1>1. a \in SenderState
  BY ListFacts, SenderFields, SenderUpdates
<1>2. a.bytes = s.bytes /\ s.bytes - 1 \in Int
  <2>1. a.bytes = s.bytes
    BY DEF SenderState, SenderRecords
  <2> QED
    BY <2>1, SenderFields
<1>3. DropFile(s) \in SenderState
  BY <1>1, <1>2, SenderUpdates DEF DropFile
<1>4. /\ SameWaits(s, DropFile(s)) /\ DropFile(s).files = Front(s.files) /\ DropFile(s).bytes = s.bytes - 1
      /\ DropFile(s).total = s.total /\ DropFile(s).transferred = s.transferred
      /\ DropFile(s).last = s.last /\ DropFile(s).result = s.result
  BY DEF DropFile, SenderState, SenderRecords, SameWaits
<1> QED
  BY <1>3, <1>4

LEMMA CancelIs ==
    ASSUME NEW s \in SenderState
    PROVE  LET t == OnCancel(s) IN
           /\ t.s.push = s.push /\ t.s.files = s.files /\ SameCounts(s, t.s)
           /\ t.s.dialog = s.dialog /\ t.s.result = "failed" /\ t.calls = RemoveSession(s)
BY DEF OnCancel, Step, SenderState, SenderRecords, SameCounts

\* A step of the Sender keeps it waiting for something that comes.
LEMMA SenderWaitStep ==
    ASSUME TypeInv, WaitInv,
           \/ StartSendSession \/ DeviceReady \/ DeviceConnectAnswers
           \/ RetryTimeout \/ SessionAdded \/ SessionRemoved \/ SessionFailed
           \/ TransferStarted \/ TransferFailed \/ TransferProgress
           \/ TransferError \/ TransferCompleted
           \/ Retry \/ Skip \/ Cancel \/ FatalClosed
    PROVE  WaitInv'
<1>0. /\ sender \in SenderState /\ queue \in Seq(MessageSet) /\ wired \in [Paths -> Nat]
      /\ calls = calls \o <<>> /\ <<>> \in Seq(CallSet)
      /\ sender.files \in Lists /\ sender.push \in Owners \cup {NoSession}
      /\ Running /\ sender.files # <<>>
  <2>1. Running
    BY DEF StartSendSession, DeviceReady, DeviceConnectAnswers,
       RetryTimeout, Receive, SessionAdded, SessionRemoved, SessionFailed, TransferStarted, TransferFailed,
       TransferProgress, TransferError, TransferCompleted, TransferSignal, Retry, Skip, Cancel, FatalClosed
  <2>2. /\ sender \in SenderState /\ queue \in Seq(MessageSet) /\ wired \in [Paths -> Nat]
        /\ calls \in Seq(CallSet)
    BY DEF TypeInv
  <2>3. calls = calls \o <<>> /\ <<>> \in Seq(CallSet)
    BY <2>2
  <2>4. sender.files \in Lists /\ sender.push \in Owners \cup {NoSession}
    BY <2>2, SenderFields
  <2>5. sender.files # <<>>
    BY <2>1 DEF WaitInv
  <2> QED
    BY <2>1, <2>2, <2>3, <2>4, <2>5
<1>r. ASSUME NEW kind, Receive(kind)
      PROVE  /\ Message.kind = kind
             /\ kind \in {"added", "removed", "sendfailed", "started"} => Message.session \in Owners
             /\ kind \in {"started", "progress", "done", "error"} => Message.path \in Paths
  BY <1>r, ReceiveTypes, SentFields
<1>c. /\ <<[op |-> "create"]>> \in Seq(CallSet) /\ 1 \in 1 .. Len(<<[op |-> "create"]>>)
      /\ <<[op |-> "create"]>>[1].op = "create"
  <2>1. [op |-> "create"] \in CallSet
    BY DEF CallSet
  <2> QED
    BY <2>1
<1>s. ASSUME NEW files \in Lists, files # <<>>, sender.push # NoSession
      PROVE  /\ NextSend(sender.push, files) \in Seq(CallSet)
             /\ \E i \in 1 .. Len(NextSend(sender.push, files)) :
                   NextSend(sender.push, files)[i].op = "send" /\ NextSend(sender.push, files)[i].session = sender.push
  <2> DEFINE call == SendCall(sender.push, NextFile(files))
  <2>1. call \in CallSet /\ call.op = "send" /\ call.session = sender.push
    BY <1>0, <1>s, ListFacts DEF SendCall, CallSet
  <2>2. NextSend(sender.push, files) = <<call>>
    BY <1>s DEF NextSend
  <2> HIDE DEF call
  <2>3. <<call>> \in Seq(CallSet) /\ 1 \in 1 .. Len(<<call>>) /\ <<call>>[1] = call
    BY <2>1
  <2> QED
    BY <2>1, <2>2, <2>3
<1>1. CASE StartSendSession
  <2> DEFINE s == [sender EXCEPT !.start = FALSE, !.awaiting = ~device.ready]
             create == <<[op |-> "create"]>>
  <2>1. /\ UNCHANGED <<obexd, queue, wired>>
        /\ Do(IF device.ready THEN CreateSession(s) ELSE Step(s, <<>>))
    BY <1>1 DEF StartSendSession
  <2>2. s.push = sender.push /\ s.files = sender.files /\ s.awaiting = ~device.ready /\ s.dialog = sender.dialog
    BY <1>0 DEF SenderState, SenderRecords
  <2> HIDE DEF s
  <2>3. sender' = s /\ calls' = calls \o (IF device.ready THEN create ELSE <<>>)
    BY <2>1 DEF Do, CreateSession, Step
  <2>4. CASE device.ready
    <3>1. calls' = calls \o create
      BY <2>3, <2>4
    <3> QED
      BY <1>0, <1>c, <2>1, <2>2, <2>3, <3>1, CallingWaits
  <2>5. CASE ~device.ready
    <3>1. calls' = calls \o <<>> /\ Local'
      BY <2>2, <2>3, <2>5 DEF Local
    <3> QED
      BY <1>0, <2>1, <2>2, <2>3, <3>1, CallingWaits
  <2> QED
    BY <2>4, <2>5
<1>2. CASE DeviceReady
  <2> DEFINE s == [sender EXCEPT !.awaiting = FALSE]
             create == <<[op |-> "create"]>>
  <2>1. /\ UNCHANGED <<obexd, queue, wired>>
        /\ Do(IF sender.awaiting THEN CreateSession(s) ELSE Step(sender, <<>>))
    BY <1>2 DEF DeviceReady
  <2>2. s.push = sender.push /\ s.files = sender.files /\ s.dialog = sender.dialog
    BY <1>0 DEF SenderState, SenderRecords
  <2> HIDE DEF s
  <2>3. sender' = (IF sender.awaiting THEN s ELSE sender)
        /\ calls' = calls \o (IF sender.awaiting THEN create ELSE <<>>)
    BY <2>1 DEF Do, CreateSession, Step
  <2>4. CASE sender.awaiting
    <3>1. calls' = calls \o create /\ sender' = s
      BY <2>3, <2>4
    <3> QED
      BY <1>0, <1>c, <2>1, <2>2, <3>1, CallingWaits
  <2>5. CASE ~sender.awaiting
    <3>1. calls' = calls \o <<>> /\ sender' = sender
      BY <2>3, <2>5
    <3>2. Local => Local'
      BY <3>1 DEF Local
    <3> QED
      BY <1>0, <2>1, <3>1, <3>2, CallingWaits
  <2> QED
    BY <2>4, <2>5
<1>3. CASE DeviceConnectAnswers
  <2> DEFINE s == [sender EXCEPT !.awaiting = FALSE, !.fatal = TRUE]
  <2>1. UNCHANGED <<obexd, queue, wired>> /\ calls' = calls \o <<>> /\ sender' \in {sender, s}
    BY <1>0, <1>3 DEF DeviceConnectAnswers
  <2>2. s.push = sender.push /\ s.files = sender.files /\ s.fatal /\ s.dialog = sender.dialog
    BY <1>0 DEF SenderState, SenderRecords
  <2> HIDE DEF s
  <2>3. CASE sender' = s
    <3>1. Local'
      BY <2>2, <2>3 DEF Local
    <3> QED
      BY <1>0, <2>1, <2>2, <2>3, <3>1, CallingWaits
  <2>4. CASE sender' = sender
    <3>1. Local => Local'
      BY <2>4 DEF Local
    <3> QED
      BY <1>0, <2>1, <2>4, <3>1, CallingWaits
  <2> QED
    BY <2>1, <2>3, <2>4
<1>4. CASE RetryTimeout
  <2> DEFINE s == [sender EXCEPT !.retry = FALSE]
             create == <<[op |-> "create"]>>
  <2>1. UNCHANGED <<obexd, queue, wired>> /\ Do(CreateSession(s))
    BY <1>4 DEF RetryTimeout
  <2>2. s.push = sender.push /\ s.files = sender.files /\ s.dialog = sender.dialog
    BY <1>0 DEF SenderState, SenderRecords
  <2> HIDE DEF s
  <2>3. sender' = s /\ calls' = calls \o create
    BY <2>1 DEF Do, CreateSession, Step
  <2> QED
    BY <1>0, <1>c, <2>1, <2>2, <2>3, CallingWaits
<1>5. CASE SessionAdded
  <2>0. Receive("added") /\ UNCHANGED <<obexd, wired>>
    BY <1>5 DEF SessionAdded
  <2>1. PICK session \in Owners : session = Message.session /\ Do(OnSessionAdded(sender, session))
    BY <1>5, <1>r, <2>0 DEF SessionAdded
  <2>2. /\ sender'.push = session /\ sender'.files = sender.files /\ session # NoSession
        /\ calls' = calls \o NextSend(session, sender.files)
    BY <1>0, <2>1, AddedIs, SendingConstants DEF Do
  <2>3. SendsTo(session)' # {}
    <3>1. PICK i \in 1 .. Len(calls') : calls'[i] = SendCall(session, NextFile(sender.files))
      BY <1>0, <2>2, SendIsCalled
    <3> QED
      BY <3>1 DEF SendsTo, SendCall
  <2>4. Waiting'
    BY <2>2, <2>3 DEF Waiting, Working, SendsTo
  <2>5. SessionsKnown'
    <3>1. session \in obexd'.sessions \/ RemovedAfter(0, session)'
      BY <2>0, <2>1, TakenKnown
    <3>2. \A i \in Positions' : Kind(i)' = "added" =>
             queue'[i].session \in obexd'.sessions \/ RemovedAfter(i, queue[i].session)'
      BY <2>0, TakenKnown
    <3>3. \A a \in obexd'.active : a.path[1] \in obexd'.sessions
      BY <2>0 DEF WaitInv, SessionsKnown
    <3> QED
      BY <2>2, <3>1, <3>2, <3>3 DEF SessionsKnown, RemovedAfter
  <2> QED
    BY <1>0, <2>2, <2>4, <2>5 DEF WaitInv
<1>6. CASE SessionRemoved
  <2>0. Receive("removed") /\ UNCHANGED <<obexd, wired>> /\ Do(OnSessionRemoved(sender, Message.session))
    BY <1>6 DEF SessionRemoved
  <2>1. /\ \A session : RemovedAfter(0, session) => RemovedAfter(0, session)' \/ Message.session = session
        /\ \A i \in Positions' : Kind(i)' = "added" =>
              queue'[i].session \in obexd.sessions \/ RemovedAfter(i, queue[i].session)'
    BY <2>0, TakenKnown
  <2>2. CASE sender.push = Message.session
    <3> DEFINE t == OnSessionRemoved(sender, sender.push)
    <3>1. sender' = t.s /\ calls' = calls \o t.calls
      BY <2>0, <2>2 DEF Do
    <3>2. /\ sender'.push = NoSession /\ sender'.files = sender.files /\ sender'.dialog = sender.dialog
          /\ sender.dialog # "none" \/ calls' = calls \o <<[op |-> "create"]>>
      BY <1>0, <3>1, RemovedIs
    <3> HIDE DEF t
    <3>3. SessionsKnown'
      BY <2>0, <2>1, <3>2 DEF WaitInv, SessionsKnown
    <3>4. Waiting'
      <4>1. CASE sender.dialog # "none"
        BY <3>2, <4>1 DEF Waiting, Local
      <4>2. CASE calls' = calls \o <<[op |-> "create"]>>
        <5>0. PICK i : i \in 1 .. Len(calls') /\ calls'[i] = <<[op |-> "create"]>>[1]
          BY <1>c, <4>2, CallsGrow
        <5>1. Asked' # {}
          BY <1>c, <5>0 DEF Asked
        <5> QED
          BY <3>2, <5>1 DEF Waiting
      <4> QED
        BY <3>2, <4>1, <4>2
    <3> QED
      BY <1>0, <3>2, <3>3, <3>4 DEF WaitInv
  <2>3. CASE sender.push # Message.session
    <3>1. sender' = sender /\ calls' = calls \o <<>>
      <4>1. OnSessionRemoved(sender, Message.session) = Step(sender, <<>>)
        BY <2>3, OtherRemovedIs
      <4> QED
        BY <2>0, <4>1 DEF Do, Step
    <3>0. PICK push : push = sender.push /\ push = sender'.push
      BY <3>1
    <3>2. SessionsKnown'
      <4>1. push # NoSession => push \in obexd'.sessions \/ RemovedAfter(0, push)'
        BY <2>0, <2>1, <2>3, <3>0 DEF WaitInv, SessionsKnown
      <4> QED
        BY <2>0, <2>1, <3>0, <4>1 DEF WaitInv, SessionsKnown, RemovedAfter
    <3>3. Waiting'
      <4>1. CASE push = NoSession
        <5>1. Local \/ Asked # {} \/ Offered # {}
          BY <1>0, <3>0, <4>1 DEF WaitInv, Waiting
        <5>2. Local => Local'
          BY <3>1 DEF Local
        <5>3. Asked # {} => Asked' # {}
          BY <1>0, <3>1, CallsGrow DEF Asked
        <5>4. Offered # {} => Offered' # {}
          <6> SUFFICES ASSUME NEW i \in Offered PROVE Offered' # {}
            OBVIOUS
          <6>1. i \in Positions /\ i # 1
            BY <1>r, <2>0, QueueTaken DEF Offered, Kind, Receive
          <6>2. PICK j \in Positions' : queue'[j] = queue[i]
            BY <2>0, <6>1, QueueTaken DEF Receive
          <6> QED
            BY <6>2 DEF Offered, Kind
        <5> QED
          BY <3>0, <4>1, <5>1, <5>2, <5>3, <5>4 DEF Waiting
      <4>2. CASE push # NoSession /\ sender.dialog # "none"
        BY <3>0, <3>1, <4>2 DEF Waiting
      <4>3. CASE push # NoSession /\ sender.dialog = "none"
        <5>1. Working(push)
          BY <1>0, <3>0, <4>3 DEF WaitInv, Waiting
        <5>2. \A p \in Paths : wired[p] > 0 => wired'[p] > 0
          BY <2>0
        <5>4. /\ "removed" \notin {"done", "error"} /\ "removed" # "started"
              /\ Message.session # push /\ <<>> \in Seq(CallSet) /\ UNCHANGED obexd
          BY <1>0, <2>0, <2>3, <3>0
        <5>5. \/ Working(push)'
              \/ "removed" \in {"sendfailed", "removed"} /\ Message.session = push
              \/ "removed" \in {"done", "error"} /\ wired[Message.path] > 0
              \/ "removed" = "started" /\ Message.session = push
                 /\ \E p \in Paths : p = Message.path /\ (IsActive(p)' \/ EndsAfter(0, p)')
          BY <2>0, <3>1, <5>1, <5>2, <5>4, TakenWorking
        <5>3. Working(push)'
          BY <5>4, <5>5
        <5> QED
          BY <3>0, <4>3, <5>3 DEF Waiting, Working, SendsTo
      <4> QED
        BY <4>1, <4>2, <4>3
    <3> QED
      BY <1>0, <3>1, <3>2, <3>3 DEF WaitInv
  <2> QED
    BY <2>2, <2>3
<1>e. calls' = calls \o <<>> => \E cs \in Seq(CallSet) : calls' = calls \o cs
  BY <1>0
<1>w. wired' = wired => \A p \in Paths : wired[p] > 0 => wired'[p] > 0
  OBVIOUS
<1>k. ASSUME NEW kind, Receive(kind), kind \in {"failed", "progress", "started", "sendfailed", "error", "done"},
             UNCHANGED obexd, \E cs \in Seq(CallSet) : calls' = calls \o cs,
             \A p \in Paths : wired[p] > 0 => wired'[p] > 0,
             sender'.push = sender.push, sender'.files = sender.files,
             Local => Local', kind = "failed" => Local',
             \/ sender'.dialog # "none" /\ Local'
             \/ /\ sender'.dialog = sender.dialog
                /\ (kind = "sendfailed" => Message.session # sender.push)
                /\ (kind \in {"done", "error"} => wired[Message.path] = 0)
                /\ (kind = "started" /\ Message.session = sender.push =>
                      \A p \in Paths : p = Message.path => wired'[p] > 0)
      PROVE  WaitInv'
  <2>0. PICK cs \in Seq(CallSet) : calls' = calls \o cs
    BY <1>k
  <2>1. kind # "removed" /\ kind # "added" /\ sender'.files # <<>> /\ calls' = calls \o cs
    BY <1>0, <1>k, <2>0
  <2>2. CASE sender'.dialog # "none" /\ Local'
    BY <1>k, <2>1, <2>2, ReadingWaits
  <2>3. CASE sender.push = NoSession /\ Local'
    BY <1>k, <2>1, <2>3, ReadingWaits
  <2>4. CASE sender.push = NoSession /\ ~Local'
    <3>1. ~Local /\ kind \notin {"added", "failed"}
      BY <1>k, <2>1, <2>4
    <3> QED
      BY <1>k, <2>1, <2>4, <3>1, ReadingWaits
  <2>5. CASE sender.push # NoSession /\ sender'.dialog # "none"
    BY <1>k, <2>1, <2>5, ReadingWaits
  <2>6. CASE sender.push # NoSession /\ sender'.dialog = "none"
    <3>1. /\ sender.dialog = "none"
          /\ (kind = "sendfailed" => Message.session # sender.push)
          /\ (kind \in {"done", "error"} => wired[Message.path] = 0)
          /\ (kind = "started" /\ Message.session = sender.push =>
                \A p \in Paths : p = Message.path => wired'[p] > 0)
      BY <1>k, <2>6
    <3> QED
      BY <1>k, <2>1, <2>6, <3>1, ReadingWaits
  <2> QED
    BY <2>3, <2>4, <2>5, <2>6
<1>7. CASE SessionFailed
  <2>0. Receive("failed") /\ UNCHANGED <<obexd, wired>>
    BY <1>7 DEF SessionFailed
  <2>1. PICK n \in Fallbacks : Do(OnSessionFailed(sender, n))
    BY <1>7 DEF SessionFailed
  <2>2. /\ sender'.push = sender.push /\ sender'.files = sender.files /\ sender'.dialog = sender.dialog
        /\ calls' = calls \o <<>> /\ (sender'.retry \/ sender'.fatal)
    BY <1>0, <2>1, FailedIs DEF Do
  <2>3. Local'
    BY <2>2 DEF Local
  <2> QED
    <3>1. /\ "failed" \in {"failed", "progress", "started", "sendfailed", "error", "done"}
          /\ "failed" # "sendfailed" /\ "failed" \notin {"done", "error"} /\ "failed" # "started"
      OBVIOUS
    <3>2. (\E cs \in Seq(CallSet) : calls' = calls \o cs) /\ \A p \in Paths : wired[p] > 0 => wired'[p] > 0
      BY <1>e, <1>w, <2>0, <2>2
    <3> QED
      BY <1>k, <2>0, <2>2, <2>3, <3>1, <3>2
<1>8. CASE TransferStarted
  <2>0. Receive("started") /\ UNCHANGED obexd /\ Message.path \in Paths
    BY <1>8, <1>r DEF TransferStarted
  <2>1. CASE sender.push = Message.session
    <3>1. /\ sender' = OnTransferStarted(sender) /\ calls' = calls \o <<>>
          /\ wired' = [wired EXCEPT ![Message.path] = @ + 1]
      BY <1>8, <2>1 DEF TransferStarted, Do, Step
    <3>2. SameWaits(sender, sender') /\ sender'.files = sender.files
      BY <1>0, <3>1, ProgressIs
    <3>3. \A p \in Paths : (wired[p] > 0 => wired'[p] > 0) /\ (p = Message.path => wired'[p] > 0)
      BY <1>0, <2>0, <3>1
    <3>4. Local => Local'
      BY <3>2 DEF SameWaits, Local
    <3> QED
      BY <1>0, <1>k, <2>0, <3>1, <3>2, <3>3, <3>4 DEF SameWaits
  <2>2. CASE sender.push # Message.session
    <3>1. UNCHANGED <<sender, wired>> /\ calls' = calls \o <<>>
      BY <1>0, <1>8, <2>2 DEF TransferStarted
    <3>2. Local => Local'
      BY <3>1 DEF Local
    <3> QED
      BY <1>0, <1>k, <1>w, <2>0, <2>2, <3>1, <3>2
  <2> QED
    BY <2>1, <2>2
<1>d. ASSUME Do(OnTransferError(sender))
      PROVE  /\ sender'.push = sender.push /\ sender'.files = sender.files /\ sender'.dialog # "none"
             /\ \E cs \in Seq(CallSet) : calls' = calls \o cs
  <2> DEFINE cs == OnTransferError(sender).calls
  <2>1. /\ sender'.push = sender.push /\ sender'.files = sender.files /\ sender'.dialog # "none"
        /\ calls' = calls \o cs
    BY <1>0, <1>d, ErrorIs DEF Do
  <2>2. cs \in Seq(CallSet)
    BY <1>0, ReceiverTypes DEF StepOK, Owners
  <2> QED
    BY <2>1, <2>2
<1>u. Do(Step(sender, <<>>)) => sender' = sender /\ calls' = calls \o <<>>
  BY DEF Do, Step
<1>l. sender' = sender => (Local => Local')
  BY DEF Local
<1>9. CASE TransferFailed
  <2>0. Receive("sendfailed") /\ UNCHANGED <<obexd, wired>>
    BY <1>9 DEF TransferFailed
  <2>1. CASE sender.push = Message.session
    <3>1. Do(OnTransferError(sender))
      BY <1>9, <2>1 DEF TransferFailed
    <3>2. PICK cs \in Seq(CallSet) : calls' = calls \o cs
      BY <1>d, <3>1
    <3>3. Local' /\ sender'.push = sender.push /\ sender'.files = sender.files /\ sender'.dialog # "none"
      BY <1>d, <3>1 DEF Local
    <3> QED
      BY <1>0, <1>k, <1>w, <2>0, <3>2, <3>3
  <2>2. CASE sender.push # Message.session
    <3>1. sender' = sender /\ calls' = calls \o <<>>
      BY <1>9, <1>u, <2>2 DEF TransferFailed
    <3> QED
      BY <1>0, <1>k, <1>l, <1>w, <2>0, <2>2, <3>1
  <2> QED
    BY <2>1, <2>2
<1>10. CASE TransferProgress
  <2>0. Receive("progress") /\ UNCHANGED <<obexd, wired>>
    BY <1>10 DEF TransferProgress, TransferSignal
  <2>1. SameWaits(sender, sender') /\ sender'.files = sender.files /\ calls' = calls \o <<>>
    BY <1>0, <1>10, ProgressIs DEF TransferProgress, TransferSignal, Do, Step, SameWaits
  <2>2. Local => Local'
    BY <2>1 DEF SameWaits, Local
  <2> QED
    BY <1>0, <1>k, <1>w, <2>0, <2>1, <2>2 DEF SameWaits
<1>11. CASE TransferError
  <2>0. Receive("error") /\ UNCHANGED <<obexd, wired>>
    BY <1>11 DEF TransferError, TransferSignal
  <2>1. CASE wired[Message.path] = 0
    <3>1. sender' = sender /\ calls' = calls \o <<>>
      BY <1>11, <1>u, <2>1 DEF TransferError, TransferSignal
    <3> QED
      BY <1>0, <1>k, <1>l, <1>w, <2>0, <2>1, <3>1
  <2>2. CASE wired[Message.path] # 0
    <3>1. Do(OnTransferError(sender))
      BY <1>11, <2>2 DEF TransferError, TransferSignal
    <3>2. PICK cs \in Seq(CallSet) : calls' = calls \o cs
      BY <1>d, <3>1
    <3>3. Local' /\ sender'.push = sender.push /\ sender'.files = sender.files /\ sender'.dialog # "none"
      BY <1>d, <3>1 DEF Local
    <3> QED
      BY <1>0, <1>k, <1>w, <2>0, <3>2, <3>3
  <2> QED
    BY <2>1, <2>2
<1>12. CASE TransferCompleted
  <2>0. /\ Receive("done") /\ UNCHANGED <<obexd, wired>>
        /\ Do(IF wired[Message.path] = 0 THEN Step(sender, <<>>)
              ELSE IF wired[Message.path] = 1 THEN OnTransferCompleted(sender)
              ELSE Then(OnTransferCompleted(sender), OnTransferCompleted))
    BY <1>12 DEF TransferCompleted, TransferSignal
  <2> DEFINE Sends(cs) == \E i \in 1 .. Len(cs) : cs[i].op = "send" /\ cs[i].session = sender.push
             one == OnTransferCompleted(sender)
  <2>1. CASE wired[Message.path] = 0
    <3>1. sender' = sender /\ calls' = calls \o <<>>
      BY <1>u, <2>0, <2>1
    <3>2. /\ "done" \in {"failed", "progress", "started", "sendfailed", "error", "done"}
          /\ "done" # "sendfailed" /\ "done" # "failed" /\ "done" # "started"
      OBVIOUS
    <3>3. (\E cs \in Seq(CallSet) : calls' = calls \o cs) /\ \A p \in Paths : wired[p] > 0 => wired'[p] > 0
      BY <1>e, <1>w, <2>0, <3>1
    <3> QED
      BY <1>k, <1>l, <2>0, <2>1, <3>1, <3>2, <3>3
  <2>2. /\ one.s \in SenderState /\ one.calls \in Seq(CallSet)
        /\ SameWaits(sender, one.s) /\ one.s.files = Front(sender.files) /\ Front(sender.files) \in Lists
        /\ Front(sender.files) = <<>> => one.s.result # "none"
        /\ one.calls = NextSend(sender.push, Front(sender.files))
    <3>1. StepOK(one, sender)
      BY <1>0, ReceiverTypes DEF Owners
    <3>2. /\ SameWaits(sender, one.s) /\ one.s.files = Front(sender.files)
          /\ one.s.result = ResultOf(sender.result, Front(sender.files))
          /\ one.calls = NextSend(sender.push, Front(sender.files))
      BY <1>0, CompletedIs
    <3>3. Front(sender.files) \in Lists
      BY <1>0, ListFacts
    <3> QED
      BY <1>0, <3>1, <3>2, <3>3 DEF StepOK, ResultOf, Running
  <2>3. CASE wired[Message.path] = 1
    <3>1. sender' = one.s /\ calls' = calls \o one.calls
      BY <2>0, <2>3 DEF Do
    <3> HIDE DEF one
    <3>2. Running' => sender'.files # <<>>
      BY <2>2, <3>1 DEF Running
    <3>3. CASE sender.push # NoSession /\ Running'
      <4>1. Sends(one.calls)
        BY <1>s, <2>2, <3>1, <3>2, <3>3
      <4> QED
        BY <2>0, <2>2, <3>1, <3>2, <3>3, <4>1, ReadingWaits DEF SameWaits
    <3>4. CASE sender.push = NoSession \/ ~Running'
      <4>1. Local => Local'
        BY <2>2, <3>1 DEF SameWaits, Local
      <4> QED
        <5>1. /\ "done" # "removed" /\ "done" \notin {"added", "failed"} /\ sender'.push = sender.push
              /\ \A p \in Paths : wired[p] > 0 => wired'[p] > 0
          BY <2>0, <2>2, <3>1 DEF SameWaits
        <5>2. CASE ~Running'
          BY <2>0, <2>2, <3>1, <5>1, <5>2, ReadingWaits
        <5>3. CASE sender.push = NoSession /\ Local'
          BY <2>0, <2>2, <3>1, <3>2, <5>1, <5>3, ReadingWaits
        <5>4. CASE sender.push = NoSession /\ ~Local'
          BY <2>0, <2>2, <3>1, <3>2, <4>1, <5>1, <5>4, ReadingWaits
        <5> QED
          BY <3>4, <5>2, <5>3, <5>4
    <3> QED
      BY <3>3, <3>4
  <2>4. CASE wired[Message.path] \notin {0, 1}
    <3> DEFINE two == OnTransferCompleted(one.s)
               cs == one.calls \o two.calls
    <3>0. sender' = two.s /\ calls' = calls \o cs
      BY <2>0, <2>4 DEF Do, Then, Step
    <3>1. SameWaits(sender, two.s) /\ cs \in Seq(CallSet) /\ two.calls \in Seq(CallSet)
      <4>1. StepOK(two, one.s)
        BY <2>2, ReceiverTypes DEF Owners
      <4>2. two.calls \in Seq(CallSet)
        BY <4>1 DEF StepOK
      <4>3. SameWaits(one.s, two.s)
        <5>1. CASE one.s.files = <<>>
          BY <5>1 DEF OnTransferCompleted, Step, SameWaits
        <5>2. CASE one.s.files # <<>>
          BY <2>2, <5>2, CompletedIs
        <5> QED
          BY <5>1, <5>2
      <4> QED
        BY <2>2, <4>2, <4>3, Joined DEF SameWaits
    <3>2. ASSUME Running' PROVE /\ sender'.files # <<>> /\ sender'.files \in Lists
                                /\ two.calls = NextSend(sender.push, sender'.files)
      <4>1. CASE one.s.files = <<>>
        <5>1. two.s = one.s
          BY <4>1 DEF OnTransferCompleted, Step
        <5> QED
          BY <2>2, <3>0, <3>2, <4>1, <5>1 DEF Running
      <4>2. CASE one.s.files # <<>>
        <5>1. /\ two.s.files = Front(one.s.files)
              /\ two.s.result = ResultOf(one.s.result, Front(one.s.files))
              /\ two.calls = NextSend(one.s.push, Front(one.s.files))
          BY <2>2, <4>2, CompletedIs
        <5>2. Front(one.s.files) \in Lists /\ one.s.push = sender.push
          BY <2>2, <4>2, ListFacts DEF SameWaits
        <5>3. two.s.result = "none"
          BY <3>0, <3>2 DEF Running
        <5>4. Front(one.s.files) # <<>>
          BY <5>1, <5>3 DEF ResultOf
        <5> QED
          BY <3>0, <5>1, <5>2, <5>4
      <4> QED
        BY <4>1, <4>2
    <3>3. CASE sender.push # NoSession /\ Running'
      <4>1. PICK i \in 1 .. Len(two.calls) : two.calls[i].op = "send" /\ two.calls[i].session = sender.push
        BY <1>s, <3>2, <3>3
      <4>2. Len(one.calls) + i \in 1 .. Len(cs) /\ cs[Len(one.calls) + i] = two.calls[i]
        BY <2>2, <3>1, <4>1
      <4>3. Sends(cs)
        BY <4>1, <4>2
      <4> HIDE DEF cs, two
      <4> QED
        BY <2>0, <3>0, <3>1, <3>2, <3>3, <4>3, ReadingWaits DEF SameWaits
    <3>4. CASE sender.push = NoSession \/ ~Running'
      <4>1. Local => Local'
        BY <3>0, <3>1 DEF SameWaits, Local
      <4> HIDE DEF cs, two
      <4> QED
        <5>1. /\ "done" # "removed" /\ "done" \notin {"added", "failed"} /\ sender'.push = sender.push
              /\ \A p \in Paths : wired[p] > 0 => wired'[p] > 0
          BY <2>0, <3>0, <3>1 DEF SameWaits
        <5>2. CASE ~Running'
          BY <2>0, <3>0, <3>1, <5>1, <5>2, ReadingWaits
        <5>3. CASE sender.push = NoSession /\ Local'
          BY <2>0, <3>0, <3>1, <3>2, <5>1, <5>3, ReadingWaits
        <5>4. CASE sender.push = NoSession /\ ~Local'
          BY <2>0, <3>0, <3>1, <3>2, <4>1, <5>1, <5>4, ReadingWaits
        <5> QED
          BY <3>4, <5>2, <5>3, <5>4
    <3> QED
      BY <3>3, <3>4
  <2> QED
    BY <2>1, <2>3, <2>4
<1>a. ASSUME NEW s \in SenderState, s.push = sender.push, Do(AfterDialog(s)), UNCHANGED <<obexd, queue, wired>>
      PROVE  WaitInv'
  <2> DEFINE t == AfterDialog(s)
  <2>1. sender' = t.s /\ calls' = calls \o t.calls
    BY <1>a DEF Do
  <2>2. /\ t.s.push = s.push /\ t.s.files = s.files /\ t.s.result = ResultOf(s.result, s.files)
        /\ t.calls = IF s.push = NoSession THEN <<[op |-> "create"]>> ELSE NextSend(s.push, s.files)
    BY <1>a, AfterDialogIs
  <2>3. t.calls \in Seq(CallSet) /\ s.files \in Lists
    BY <1>a, ReceiverTypes, SenderFields DEF StepOK, Owners
  <2> HIDE DEF t
  <2>4. Running' => s.files # <<>>
    BY <2>1, <2>2 DEF ResultOf, Running
  <2>5. CASE s.push = NoSession
    BY <1>a, <1>c, <2>1, <2>2, <2>4, <2>5, CallingWaits
  <2>6. CASE s.push # NoSession /\ s.files # <<>>
    <3>1. \E i \in 1 .. Len(t.calls) : t.calls[i].op = "send" /\ t.calls[i].session = sender.push
      BY <1>a, <1>s, <2>2, <2>3, <2>6
    <3> QED
      BY <1>a, <2>1, <2>2, <2>3, <2>4, <2>6, <3>1, CallingWaits
  <2>7. CASE ~Running'
    BY <1>a, <2>1, <2>2, <2>3, <2>7, CallingWaits
  <2> QED
    BY <2>4, <2>5, <2>6, <2>7
<1>13. CASE Retry
  BY <1>0, <1>13, <1>a DEF Retry
<1>14. CASE Skip
  <2>1. DropFile(sender) \in SenderState /\ SameWaits(sender, DropFile(sender))
    BY <1>0, DropIs
  <2> QED
    BY <1>14, <1>a, <2>1 DEF Skip, SameWaits
<1>15. CASE Cancel
  <2> DEFINE t == OnCancel(sender)
  <2>1. sender' = t.s /\ calls' = calls \o t.calls /\ UNCHANGED <<obexd, queue, wired>>
    BY <1>15 DEF Cancel, Do
  <2>2. t.s.push = sender.push /\ t.s.result = "failed" /\ t.calls \in Seq(CallSet)
    BY <1>0, CancelIs, HandlerTypes
  <2> HIDE DEF t
  <2>3. ~Running'
    BY <2>1, <2>2 DEF Running
  <2> QED
    BY <2>1, <2>2, <2>3, CallingWaits
<1>16. CASE FatalClosed
  <2>1. sender' = [sender EXCEPT !.result = "failed"] /\ calls' = calls \o <<>> /\ UNCHANGED <<obexd, queue, wired>>
    BY <1>0, <1>16 DEF FatalClosed, Do, Emit, Step, Running, SenderState, SenderRecords
  <2>2. sender'.push = sender.push /\ ~Running'
    BY <1>0, <2>1 DEF Running, SenderState, SenderRecords
  <2> QED
    BY <1>0, <2>1, <2>2, CallingWaits
<1> QED
  BY <1>1, <1>2, <1>3, <1>4, <1>5, <1>6, <1>7, <1>8, <1>9, <1>10, <1>11, <1>12, <1>13, <1>14, <1>15, <1>16

\* In every reachable state the Sender waits for something that comes.
LEMMA WaitsForMore == ASSUME TypeInv, WaitInv, SenderNext PROVE WaitInv'
<1>1. CASE \/ StartSendSession \/ DeviceReady \/ DeviceConnectAnswers
           \/ RetryTimeout \/ SessionAdded \/ SessionRemoved \/ SessionFailed
           \/ TransferStarted \/ TransferFailed \/ TransferProgress
           \/ TransferError \/ TransferCompleted
           \/ Retry \/ Skip \/ Cancel \/ FatalClosed
  BY <1>1, SenderWaitStep
<1>2. CASE ObexdHandles \/ LateSession \/ OtherSession \/ ObexdDies
  BY <1>2, ObexdWaitStep
<1>3. ASSUME NEW a \in obexd.active, TransferMoves(a) \/ TransferEnds(a) PROVE WaitInv'
  BY <1>3, ObexdWaitStep
<1>4. ASSUME NEW session \in obexd.sessions \cap Sessions, LinkLost(session) PROVE WaitInv'
  BY <1>4, ObexdWaitStep
<1> QED
  BY <1>1, <1>2, <1>3, <1>4 DEF SenderNext

LEMMA WaitInvHolds == SenderSpec => []WaitInv
<1>1. SenderInit => WaitInv
  <2> SUFFICES ASSUME SenderInit PROVE WaitInv
    OBVIOUS
  <2>1. /\ sender.push = NoSession /\ sender.start /\ sender.files = Files
        /\ queue = <<>> /\ obexd.active = {}
    BY DEF SenderInit, FreshObexd
  <2>2. SessionsKnown
    BY <2>1 DEF SessionsKnown, Positions
  <2> QED
    BY <2>1, <2>2, SendtoAssumption DEF WaitInv, Waiting, Local
<1>2. WaitInv /\ UNCHANGED senderVars => WaitInv'
  BY DEF senderVars, WaitInv, SessionsKnown, Waiting, Working, Local, Running, Asked, Offered, SendsTo,
     Kind, Positions, EndsAfter, RemovedAfter, IsActive
<1> QED
  BY <1>1, <1>2, WaitsForMore, SendingTypes, PTL DEF SenderSpec

\* NeverStuck: a program that runs always has the device, a timer, the user or obexd to
\* wait for.
THEOREM NeverStuckHolds == SenderSpec => []NeverStuck
<1>1. TypeInv /\ WaitInv => NeverStuck
  <2> SUFFICES ASSUME TypeInv, WaitInv, Running, ~Local, calls = <<>>, queue = <<>>
               PROVE  \E a \in obexd.active : wired[a.path] > 0
    BY DEF NeverStuck, Local
  <2>1. Positions = {} /\ 1 .. Len(calls) = {}
    BY DEF Positions
  <2>2. sender.push # NoSession /\ sender.dialog = "none" /\ Working(sender.push)
    BY <2>1 DEF WaitInv, Waiting, Local, Asked, Offered
  <2>3. PICK p \in Paths : wired[p] > 0 /\ IsActive(p)
    BY <2>1, <2>2 DEF Working, SendsTo, EndsAfter
  <2> QED
    BY <2>3 DEF IsActive
<1> QED
  BY <1>1, WaitInvHolds, SendingTypes, PTL

-------------------------------------------------------------------------------
(* Sending files: the one file that is under way in a quiet world *)

Calm == obexd.noise = 0 /\ Running

Reports == {"started", "progress", "done", "error"}
Mine == SendsTo(sender.push)
Finished == {i \in Positions : \/ Kind(i) \in {"done", "error"}
                               \/ Kind(i) = "sendfailed" /\ queue[i].session = sender.push}
\* The sessions that were made so far, and the transfers.
Past == {session \in Sessions : session < obexd.nextSession}
Begun(p) == p[2] < obexd.nextTransfer

\* Sessions and transfers are numbered one after the other, and each transfer is listened to
\* once, so a new one is not taken for an old one.
Numbered ==
    /\ obexd.sessions \subseteq Past
    /\ sender.push # NoSession => sender.push \in Past
    /\ \A i \in 1 .. Len(calls) : calls[i].op = "send" => calls[i].session \in Past
    /\ \A i \in Positions : Kind(i) \in {"added", "removed", "sendfailed"} => queue[i].session \in Past
    /\ \A i \in Positions : Kind(i) = "started" => Begun(queue[i].path)
    /\ \A p \in Paths : wired[p] # 0 => wired[p] = 1 /\ Begun(p)

\* There is one way only in which the next session comes.
AskedOnce ==
    /\ \A i, j \in Asked : i = j
    /\ \A i, j \in Offered : i = j
    /\ Asked = {} \/ Offered = {}
    /\ Asked # {} \/ Offered # {} => /\ ~sender.start /\ ~sender.awaiting /\ ~sender.retry
                                     /\ sender.push = NoSession /\ sender.dialog = "none"
    /\ sender.start => ~sender.awaiting
    /\ sender.start \/ sender.awaiting => ~sender.retry
    /\ sender.start \/ sender.awaiting \/ sender.retry => sender.push = NoSession /\ sender.dialog = "none"

\* What is heard of transfers is of the session the Sender has, and a session says nothing after its end.
OwnSession ==
    /\ \A i \in Positions : Kind(i) = "removed" =>
          /\ queue[i].session \notin obexd.sessions
          /\ \A j \in Positions : j > i /\ Kind(j) \in Reports => queue[j].path[1] # queue[i].session
    /\ \A i \in Positions : Kind(i) \in Reports => queue[i].path[1] = sender.push
    /\ \A i \in Positions : Kind(i) = "started" => queue[i].session = sender.push
    /\ \A a \in obexd.active : a.path[1] = sender.push
    /\ \A i \in 1 .. Len(calls) : calls[i].op = "send" =>
          calls[i].session = sender.push \/ calls[i].session \notin obexd.sessions
    /\ \A i \in Positions : Kind(i) = "added" =>
          /\ SendsTo(queue[i].session) = {}
          /\ \A j \in Positions : Kind(j) = "sendfailed" => queue[j].session # queue[i].session

\* One file is asked to be sent, is being sent, or has been, and none while the user is asked.
OneFile ==
    /\ \A i, j \in Mine : i = j
    /\ \A i, j \in Finished : i = j
    /\ \A a, b \in obexd.active : a = b
    /\ Mine = {} \/ Finished = {}
    /\ Mine = {} \/ obexd.active = {}
    /\ Finished = {} \/ obexd.active = {}
    /\ sender.dialog # "none" => Mine = {} /\ Finished = {} /\ obexd.active = {}

\* A transfer starts once, before anything else is heard of it, and ends after that.
StartsFirst ==
    /\ \A i, j \in Positions : Kind(i) = "started" /\ Kind(j) = "started" => i = j
    /\ \A i \in Positions : Kind(i) = "started" => wired[queue[i].path] = 0
    /\ \A i \in Positions : Kind(i) \in {"started", "progress"} =>
          IsActive(queue[i].path) \/ EndsAfter(i, queue[i].path)

\* A transfer the Sender listens to, whose end it has not heard.
Moving == \E p \in Paths : wired[p] > 0 /\ (IsActive(p) \/ EndsAfter(0, p))
MovesRightly ==
    /\ Moving => sender.last = sender.transferred
    /\ sender.transferred = 1 => sender.dialog # "none" \/ Moving

Arrived(f) == f \in skipped \/ \E d \in sent : d.file = f /\ d.to # Other
NextIsSent ==
    /\ \A i \in Mine : calls[i].file = NextFile(sender.files)
    /\ \A a \in obexd.active : a.file = NextFile(sender.files)
    /\ \A i \in Positions : Kind(i) = "done" => Arrived(NextFile(sender.files))

QuietInv == Calm => /\ Numbered /\ AskedOnce /\ OwnSession /\ OneFile
                     /\ StartsFirst /\ MovesRightly /\ NextIsSent

\* What is left when the Sender has finished, too.
Counted ==
    /\ sender.transferred <= sender.total
    /\ sender.total - sender.transferred <= sender.bytes - Len(sender.files)
    /\ sender.transferred = 1 => sender.files # <<>>
AllArrive ==
    /\ \A n \in 1 .. Len(Files) : n > Len(sender.files) => Arrived(Files[n])
    /\ sender.result = "sent" => sender.files = <<>>
TruthInv == obexd.noise = 0 => Counted /\ AllArrive

\* The calls are those there were, but for the first, which may have been handled.
CallsLeft == \E d \in {0, 1} : \A i \in 1 .. Len(calls') : i + d \in 1 .. Len(calls) /\ calls'[i] = calls[i + d]

LEMMA FewerCalls ==
    ASSUME CallsLeft
    PROVE  /\ \A session : SendsTo(session) = {} => SendsTo(session)' = {}
           /\ \A session : (\A i, j \in SendsTo(session) : i = j) => (\A i, j \in SendsTo(session)' : i = j)
           /\ \A session : \A i \in SendsTo(session)' : \E k \in SendsTo(session) : calls'[i] = calls[k]
           /\ Asked = {} => Asked' = {}
           /\ (\A i, j \in Asked : i = j) => (\A i, j \in Asked' : i = j)
           /\ \A i \in 1 .. Len(calls') : \E k \in 1 .. Len(calls) : calls'[i] = calls[k]
<1>1. PICK d \in {0, 1} : \A i \in 1 .. Len(calls') : i + d \in 1 .. Len(calls) /\ calls'[i] = calls[i + d]
  BY DEF CallsLeft
<1>2. \A session : \A i \in SendsTo(session)' : i + d \in SendsTo(session) /\ calls'[i] = calls[i + d] /\ i \in Int
  BY <1>1 DEF SendsTo
<1>3. \A i \in Asked' : i + d \in Asked /\ i \in Int
  BY <1>1 DEF Asked
<1>4. d \in Int
  OBVIOUS
<1>5. ASSUME NEW session, \A i, j \in SendsTo(session) : i = j, NEW i \in SendsTo(session)', NEW j \in SendsTo(session)'
      PROVE  i = j
  <2>1. i \in Int /\ j \in Int
    BY <1>2, <1>5
  <2>2. i + d = j + d
    BY <1>2, <1>5
  <2> QED
    BY <1>4, <2>1, <2>2
<1>6. ASSUME \A i, j \in Asked : i = j, NEW i \in Asked', NEW j \in Asked'
      PROVE  i = j
  <2>1. i \in Int /\ j \in Int
    BY <1>3, <1>6
  <2>2. i + d = j + d
    BY <1>3, <1>6
  <2> QED
    BY <1>4, <2>1, <2>2
<1> QED
  BY <1>1, <1>2, <1>3, <1>5, <1>6

LEMMA FirstCall ==
    ASSUME TypeInv, calls # <<>>, calls' = Tail(calls)
    PROVE  /\ CallsLeft
           /\ \A session : /\ Head(calls).op = "send" /\ Head(calls).session = session
                           /\ \A i, j \in SendsTo(session) : i = j
                           => SendsTo(session) # {} /\ SendsTo(session)' = {}
           /\ Head(calls).op = "create" /\ (\A i, j \in Asked : i = j) => Asked # {} /\ Asked' = {}
<1>1. /\ calls[1] = Head(calls) /\ 1 \in 1 .. Len(calls)
      /\ \A i \in 1 .. Len(calls') : i + 1 \in 1 .. Len(calls) /\ calls'[i] = calls[i + 1]
  BY CallsTaken
<1>2. \A i \in 1 .. Len(calls') : i + 1 # 1
  OBVIOUS
<1>3. CallsLeft
  BY <1>1 DEF CallsLeft
<1>4. ASSUME NEW session, Head(calls).op = "send", Head(calls).session = session,
             \A i, j \in SendsTo(session) : i = j
      PROVE  SendsTo(session) # {} /\ SendsTo(session)' = {}
  <2>1. 1 \in SendsTo(session)
    BY <1>1, <1>4 DEF SendsTo
  <2>2. \A i \in SendsTo(session)' : i + 1 \in SendsTo(session) /\ i + 1 # 1
    BY <1>1, <1>2 DEF SendsTo
  <2> QED
    BY <1>4, <2>1, <2>2
<1>5. ASSUME Head(calls).op = "create", \A i, j \in Asked : i = j PROVE Asked # {} /\ Asked' = {}
  <2>1. 1 \in Asked
    BY <1>1, <1>5 DEF Asked
  <2>2. \A i \in Asked' : i + 1 \in Asked /\ i + 1 # 1
    BY <1>1, <1>2 DEF Asked
  <2> QED
    BY <1>5, <2>1, <2>2
<1> QED
  BY <1>3, <1>4, <1>5

LEMMA SameCalls == ASSUME TypeInv, UNCHANGED calls PROVE CallsLeft
<1>1. \A i \in 1 .. Len(calls') : i + 0 \in 1 .. Len(calls) /\ calls'[i] = calls[i + 0]
  OBVIOUS
<1> QED
  BY <1>1 DEF CallsLeft

\* One more call.
LEMMA OneMoreCall ==
    ASSUME TypeInv, NEW call \in CallSet, calls' = calls \o <<call>>
    PROVE  /\ \A session : ~(call.op = "send" /\ call.session = session) => SendsTo(session)' = SendsTo(session)
           /\ \A session : call.op = "send" /\ call.session = session /\ SendsTo(session) = {} =>
                 \A i, j \in SendsTo(session)' : i = j /\ calls'[i] = call
           /\ call.op # "create" => Asked' = Asked
           /\ call.op = "create" /\ Asked = {} => \A i, j \in Asked' : i = j
           /\ \A i \in 1 .. Len(calls') : \/ i \in 1 .. Len(calls) /\ calls'[i] = calls[i]
                                          \/ calls'[i] = call
<1>1. /\ Len(calls) \in Nat /\ Len(<<call>>) = 1 /\ <<call>>[1] = call /\ <<call>> \in Seq(CallSet)
  BY DEF TypeInv
<1>2. /\ \A i \in 1 .. Len(calls) : i \in 1 .. Len(calls') /\ calls'[i] = calls[i]
      /\ Len(calls) + 1 \in 1 .. Len(calls') /\ calls'[Len(calls) + 1] = call
      /\ \A k \in 1 .. Len(calls') : k \in 1 .. Len(calls) \/ k = Len(calls) + 1
  BY <1>1, CallsGrow
<1>3. ASSUME NEW session, ~(call.op = "send" /\ call.session = session)
      PROVE  SendsTo(session)' = SendsTo(session)
  BY <1>2, <1>3 DEF SendsTo
<1>4. ASSUME NEW session, SendsTo(session) = {}, NEW i \in SendsTo(session)'
      PROVE  i = Len(calls) + 1
  BY <1>2, <1>4 DEF SendsTo
<1>5. call.op # "create" => Asked' = Asked
  BY <1>2 DEF Asked
<1>6. ASSUME Asked = {}, NEW i \in Asked' PROVE i = Len(calls) + 1
  BY <1>2, <1>6 DEF Asked
<1> QED
  BY <1>2, <1>3, <1>4, <1>5, <1>6

\* Messages told: what is in the queue then.
LEMMA Told ==
    ASSUME TypeInv, NEW ms \in Seq(MessageSet), Tell(ms)
    PROVE  /\ \A k \in Positions' : \/ k \in Positions /\ queue'[k] = queue[k] /\ Kind(k)' = Kind(k)
                                    \/ \E i \in 1 .. Len(ms) : /\ k = Len(queue) + i /\ queue'[k] = ms[i]
                                                               /\ Kind(k)' = ms[i].kind
           /\ \A k \in Positions : k \in Positions' /\ queue'[k] = queue[k] /\ Kind(k)' = Kind(k)
           /\ \A i \in 1 .. Len(ms) : Len(queue) + i \in Positions' /\ queue'[Len(queue) + i] = ms[i]
           /\ \A k, p : EndsAfter(k, p) => EndsAfter(k, p)'
           /\ \A k \in Positions, i \in Nat \ {0} : k < Len(queue) + i
           /\ Len(queue) \in Nat
<1>1. /\ Len(queue) \in Nat /\ Len(ms) \in Nat
      /\ \A i \in Positions : i \in Positions' /\ queue'[i] = queue[i] /\ i <= Len(queue) /\ i > 0
      /\ \A i \in 1 .. Len(ms) : Len(queue) + i \in Positions' /\ queue'[Len(queue) + i] = ms[i]
      /\ \A k \in Positions' : k \in Positions \/ \E i \in 1 .. Len(ms) : k = Len(queue) + i
  BY QueueGrows
<1>2. \A k \in Positions : k \in Int
  BY DEF Positions
<1>3. \A k, p : EndsAfter(k, p) => EndsAfter(k, p)'
  BY <1>1 DEF EndsAfter, Kind
<1>4. \A k \in Positions : Kind(k)' = Kind(k)
  BY <1>1 DEF Kind
<1> QED
  BY <1>1, <1>2, <1>3, <1>4 DEF Kind

LEMMA TellNumbered ==
    ASSUME TypeInv, Numbered, NEW ms \in Seq(MessageSet), Tell(ms), UNCHANGED <<sender, wired>>, CallsLeft,
           obexd'.nextSession >= obexd.nextSession, obexd'.nextSession \in Nat,
           obexd'.nextTransfer >= obexd.nextTransfer, obexd'.nextTransfer \in Nat,
           obexd'.sessions \subseteq Past',
           \A i \in 1 .. Len(ms) : ms[i].kind \in {"added", "removed", "sendfailed"} => ms[i].session \in Past',
           \A i \in 1 .. Len(ms) : ms[i].kind = "started" => Begun(ms[i].path)'
    PROVE  Numbered'
<1>0. \A session \in Past : session \in Past'
  BY ObexdFields, SendtoAssumption DEF Past, TypeInv, Sessions
<1>1. \A p \in Paths : Begun(p) => Begun(p)'
  BY ObexdFields, SendtoAssumption DEF Begun, TypeInv, Paths
<1>2. \A k \in Positions : Kind(k) = "started" => queue[k].path \in Paths
  BY SentFields DEF TypeInv, Positions, Kind
<1>3. \A i \in 1 .. Len(calls') : calls'[i].op = "send" => calls'[i].session \in Past'
  BY <1>0, FewerCalls DEF Numbered
<1>4. \A k \in Positions' : Kind(k)' \in {"added", "removed", "sendfailed"} => queue'[k].session \in Past'
  BY <1>0, Told DEF Numbered
<1>5. ASSUME NEW k \in Positions', Kind(k)' = "started" PROVE Begun(queue[k].path)'
  <2>1. CASE k \in Positions /\ queue'[k] = queue[k] /\ Kind(k)' = Kind(k)
    <3>1. PICK p \in Paths : p = queue[k].path /\ p = queue'[k].path
      BY <1>2, <1>5, <2>1
    <3>2. Begun(p)'
      BY <1>1, <1>5, <2>1, <3>1 DEF Numbered
    <3> QED
      BY <3>1, <3>2 DEF Begun
  <2>2. ASSUME NEW i \in 1 .. Len(ms), queue'[k] = ms[i], Kind(k)' = ms[i].kind
        PROVE  Begun(queue[k].path)'
    <3>1. PICK p : p = ms[i].path /\ p = queue'[k].path
      BY <2>2
    <3>2. Begun(ms[i].path)'
      BY <1>5, <2>2
    <3> QED
      BY <3>1, <3>2 DEF Begun
  <2> QED
    BY <1>5, <2>1, <2>2, Told
<1>6. \A p \in Paths : wired'[p] # 0 => wired'[p] = 1 /\ Begun(p)'
  BY <1>1 DEF Numbered
<1>7. sender'.push # NoSession => sender'.push \in Past'
  BY <1>0 DEF Numbered
<1> QED
  BY <1>3, <1>4, <1>5, <1>6, <1>7 DEF Numbered

LEMMA TellAsked ==
    ASSUME TypeInv, AskedOnce, NEW ms \in Seq(MessageSet), Tell(ms), UNCHANGED sender, CallsLeft,
           \/ \A i \in 1 .. Len(ms) : ms[i].kind \notin {"added", "failed"}
           \/ Len(ms) = 1 /\ Asked # {} /\ Asked' = {}
    PROVE  AskedOnce'
<1>1. Asked = {} => Asked' = {}
  BY FewerCalls
<1>2. \A i, j \in Asked' : i = j
  BY FewerCalls DEF AskedOnce
<1>3. CASE \A i \in 1 .. Len(ms) : ms[i].kind \notin {"added", "failed"}
  <2>1. Offered' = Offered
    BY <1>3, Told DEF Offered
  <2> QED
    BY <1>1, <1>2, <2>1 DEF AskedOnce
<1>4. CASE Len(ms) = 1 /\ Asked # {} /\ Asked' = {}
  <2>1. Offered = {}
    BY <1>4 DEF AskedOnce
  <2>2. \A k \in Offered' : k = Len(queue) + 1
    BY <1>4, <2>1, Told DEF Offered
  <2> QED
    BY <1>4, <2>1, <2>2 DEF AskedOnce
<1> QED
  BY <1>3, <1>4

LEMMA TellOwn ==
    ASSUME TypeInv, OwnSession, Numbered, NEW ms \in Seq(MessageSet), Tell(ms), UNCHANGED sender, CallsLeft,
           \A session \in obexd'.sessions : session \in obexd.sessions \/ session \notin Past,
           \A a \in obexd'.active : a.path[1] = sender.push,
           \A i \in 1 .. Len(ms) : /\ ms[i].kind = "removed" => ms[i].session \notin obexd'.sessions /\ i = Len(ms)
                                   /\ ms[i].kind \in Reports => /\ ms[i].path[1] = sender.push
                                                                /\ ms[i].path[1] \in obexd.sessions
                                   /\ ms[i].kind = "started" => ms[i].session = sender.push
                                   /\ ms[i].kind = "added" => ms[i].session \notin Past /\ Len(ms) = 1
                                   /\ ms[i].kind = "sendfailed" => SendsTo(ms[i].session) # {} /\ Len(ms) = 1
    PROVE  OwnSession'
<1>0. /\ \A session : SendsTo(session) = {} => SendsTo(session)' = {}
      /\ \A i \in 1 .. Len(calls') : \E k \in 1 .. Len(calls) : calls'[i] = calls[k]
  BY FewerCalls
<1>t. /\ \A k \in Positions' : \/ k \in Positions /\ queue'[k] = queue[k] /\ Kind(k)' = Kind(k)
                              \/ \E i \in 1 .. Len(ms) : /\ k = Len(queue) + i /\ queue'[k] = ms[i]
                                                         /\ Kind(k)' = ms[i].kind
      /\ \A k \in Positions, i \in Nat \ {0} : k < Len(queue) + i
      /\ Len(queue) \in Nat /\ Len(ms) \in Nat /\ \A k \in Positions : k \in Nat
  BY Told DEF Positions
<1>1. ASSUME NEW k \in Positions', Kind(k)' = "removed"
      PROVE  /\ queue'[k].session \notin obexd'.sessions
             /\ \A j \in Positions' : j > k /\ Kind(j)' \in Reports => queue'[j].path[1] # queue'[k].session
  <2>1. CASE k \in Positions /\ queue'[k] = queue[k] /\ Kind(k)' = Kind(k)
    <3>1. queue[k].session \notin obexd.sessions /\ queue[k].session \in Past
      BY <1>1, <2>1 DEF OwnSession, Numbered
    <3>2. \A j \in Positions : j > k /\ Kind(j) \in Reports => queue[j].path[1] # queue[k].session
      BY <1>1, <2>1 DEF OwnSession
    <3> QED
      BY <1>t, <2>1, <3>1, <3>2
  <2>2. ASSUME NEW i \in 1 .. Len(ms), k = Len(queue) + i, queue'[k] = ms[i], Kind(k)' = ms[i].kind
        PROVE  queue'[k].session \notin obexd'.sessions /\ i = Len(ms)
    BY <1>1, <2>2
  <2>3. ASSUME NEW i \in 1 .. Len(ms), k = Len(queue) + i, i = Len(ms), NEW j \in Positions'
        PROVE  ~(j > k)
    <3>1. i \in Nat \ {0} /\ k = Len(queue) + Len(ms)
      BY <1>t, <2>3
    <3>2. ASSUME NEW n \in 1 .. Len(ms), j = Len(queue) + n PROVE ~(j > k)
      BY <1>t, <3>1, <3>2
    <3>3. ASSUME j \in Positions PROVE ~(j > k)
      <4>1. j < Len(queue) + i /\ j \in Nat
        BY <1>t, <3>1, <3>3
      <4> QED
        BY <1>t, <2>3, <3>1, <4>1
    <3> QED
      BY <1>t, <2>3, <3>2, <3>3
  <2> QED
    BY <1>1, <1>t, <2>1, <2>2, <2>3
<1>2. \A k \in Positions' : Kind(k)' \in Reports => queue'[k].path[1] = sender'.push
  BY <1>t DEF OwnSession
<1>3. \A k \in Positions' : Kind(k)' = "started" => queue'[k].session = sender'.push
  BY <1>t DEF OwnSession
<1>4. \A i \in 1 .. Len(calls') : calls'[i].op = "send" =>
          calls'[i].session = sender'.push \/ calls'[i].session \notin obexd'.sessions
  BY <1>0 DEF OwnSession, Numbered
<1>5. ASSUME NEW k \in Positions', Kind(k)' = "added"
      PROVE  /\ SendsTo(queue[k].session)' = {}
             /\ \A j \in Positions' : Kind(j)' = "sendfailed" => queue'[j].session # queue'[k].session
  <2>0. PICK session : session = queue'[k].session
    OBVIOUS
  <2>1. SendsTo(session) = {}
    <3>1. CASE k \in Positions /\ queue'[k] = queue[k] /\ Kind(k)' = Kind(k)
      BY <1>5, <2>0, <3>1 DEF OwnSession
    <3>2. ASSUME NEW i \in 1 .. Len(ms), queue'[k] = ms[i], Kind(k)' = ms[i].kind
          PROVE  SendsTo(session) = {}
      BY <1>5, <2>0, <3>2 DEF Numbered, SendsTo
    <3> QED
      BY <1>5, <1>t, <3>1, <3>2
  <2>2. SendsTo(session)' = {}
    BY <1>0, <2>1
  <2>3. ASSUME NEW j \in Positions', Kind(j)' = "sendfailed" PROVE queue'[j].session # session
    <3>1. CASE j \in Positions /\ queue'[j] = queue[j] /\ Kind(j)' = Kind(j)
      <4>1. queue[j].session \in Past
        BY <2>3, <3>1 DEF Numbered
      <4>2. CASE k \in Positions /\ queue'[k] = queue[k] /\ Kind(k)' = Kind(k)
        BY <1>5, <2>0, <2>3, <3>1, <4>2 DEF OwnSession
      <4>3. ASSUME NEW i \in 1 .. Len(ms), queue'[k] = ms[i], Kind(k)' = ms[i].kind
            PROVE  queue'[j].session # session
        BY <1>5, <2>0, <3>1, <4>1, <4>3
      <4> QED
        BY <1>5, <1>t, <4>2, <4>3
    <3>2. ASSUME NEW i \in 1 .. Len(ms), queue'[j] = ms[i], Kind(j)' = ms[i].kind
          PROVE  queue'[j].session # session
      BY <2>1, <2>3, <3>2
    <3> QED
      BY <1>t, <2>3, <3>1, <3>2
  <2> QED
    BY <2>0, <2>2, <2>3 DEF SendsTo
<1> QED
  BY <1>1, <1>2, <1>3, <1>4, <1>5 DEF OwnSession

LEMMA TellFirst ==
    ASSUME TypeInv, StartsFirst, NEW ms \in Seq(MessageSet), Tell(ms), UNCHANGED wired,
           \A a \in obexd.active : \/ IsActive(a.path)'
                                   \/ \E i \in 1 .. Len(ms) : ms[i].kind \in {"done", "error"} /\ ms[i].path = a.path,
           \A i \in 1 .. Len(ms) :
               /\ ms[i].kind = "started" => /\ Len(ms) = 1 /\ wired[ms[i].path] = 0
                                            /\ obexd.active = {} /\ Finished = {}
               /\ ms[i].kind \in {"started", "progress"} => \E p \in Paths : p = ms[i].path /\ IsActive(p)'
    PROVE  StartsFirst'
<1>t. /\ \A k \in Positions' : \/ k \in Positions /\ queue'[k] = queue[k] /\ Kind(k)' = Kind(k)
                              \/ \E i \in 1 .. Len(ms) : /\ k = Len(queue) + i /\ queue'[k] = ms[i]
                                                         /\ Kind(k)' = ms[i].kind
      /\ \A i \in 1 .. Len(ms) : Len(queue) + i \in Positions' /\ queue'[Len(queue) + i] = ms[i]
      /\ \A k, p : EndsAfter(k, p) => EndsAfter(k, p)'
      /\ \A k \in Positions, i \in Nat \ {0} : k < Len(queue) + i
      /\ Len(queue) \in Nat
  BY Told
<1>1. ASSUME NEW k \in Positions, NEW p, IsActive(p) \/ EndsAfter(k, p)
      PROVE  IsActive(p)' \/ EndsAfter(k, p)'
  <2>1. CASE EndsAfter(k, p)
    BY <1>t, <2>1
  <2>2. CASE IsActive(p)
    <3>1. PICK a \in obexd.active : a.path = p
      BY <2>2 DEF IsActive
    <3>2. CASE IsActive(a.path)'
      <4>1. PICK b \in obexd'.active : b.path = a.path'
        BY <3>2 DEF IsActive
      <4> QED
        BY <3>1, <4>1 DEF IsActive
    <3>3. ASSUME NEW i \in 1 .. Len(ms), ms[i].kind \in {"done", "error"}, ms[i].path = a.path
          PROVE  EndsAfter(k, p)'
      <4>1. PICK j \in Positions' : j = Len(queue) + i /\ queue'[j] = ms[i] /\ j > k
        <5>1. i \in Nat \ {0}
          OBVIOUS
        <5>2. k < Len(queue) + i /\ k \in Nat
          BY <1>t, <5>1 DEF Positions
        <5> QED
          BY <1>t, <5>1, <5>2
      <4> QED
        BY <3>1, <3>3, <4>1 DEF EndsAfter, Kind
    <3> QED
      BY <3>1, <3>2, <3>3
  <2> QED
    BY <1>1, <2>1, <2>2
<1>2. ASSUME NEW i \in 1 .. Len(ms), ms[i].kind = "started", NEW k \in Positions PROVE Kind(k) # "started"
  <2>1. obexd.active = {} /\ Finished = {}
    BY <1>2
  <2>2. ~IsActive(queue[k].path) /\ ~EndsAfter(k, queue[k].path)
    BY <2>1 DEF IsActive, EndsAfter, Finished
  <2> QED
    BY <2>2 DEF StartsFirst
<1>3. ASSUME NEW j \in Positions', NEW k \in Positions', Kind(j)' = "started", Kind(k)' = "started"
      PROVE  j = k
  <2>1. CASE j \in Positions /\ k \in Positions /\ Kind(j) = "started" /\ Kind(k) = "started"
    BY <2>1 DEF StartsFirst
  <2>2. ASSUME NEW i \in 1 .. Len(ms), ms[i].kind = "started", j = Len(queue) + i \/ k = Len(queue) + i
        PROVE  j = k
    <3>1. Len(ms) = 1
      BY <2>2
    <3>2. \A n \in Positions' : Kind(n)' = "started" => n = Len(queue) + 1
      BY <1>t, <1>2, <2>2, <3>1
    <3> QED
      BY <1>3, <3>2
  <2> QED
    BY <1>t, <1>3, <2>1, <2>2
<1>4. \A k \in Positions' : Kind(k)' = "started" => wired'[queue'[k].path] = 0
  BY <1>t DEF StartsFirst
<1>5. ASSUME NEW k \in Positions', Kind(k)' \in {"started", "progress"}
      PROVE  IsActive(queue[k].path)' \/ EndsAfter(k, queue[k].path)'
  <2>0. PICK p : p = queue'[k].path
    OBVIOUS
  <2>1. CASE k \in Positions /\ queue'[k] = queue[k] /\ Kind(k)' = Kind(k)
    <3>1. IsActive(p) \/ EndsAfter(k, p)
      BY <1>5, <2>0, <2>1 DEF StartsFirst
    <3>2. IsActive(p)' \/ EndsAfter(k, p)'
      BY <1>1, <2>1, <3>1
    <3> QED
      BY <2>0, <3>2 DEF IsActive, EndsAfter
  <2>2. ASSUME NEW i \in 1 .. Len(ms), queue'[k] = ms[i], Kind(k)' = ms[i].kind
        PROVE  IsActive(queue[k].path)'
    <3>1. PICK r \in Paths : r = ms[i].path /\ IsActive(r)'
      BY <1>5, <2>2
    <3>2. r = p
      BY <2>0, <2>2, <3>1
    <3> QED
      BY <2>0, <3>1, <3>2 DEF IsActive
  <2> QED
    BY <1>t, <1>5, <2>1, <2>2
<1> QED
  BY <1>3, <1>4, <1>5 DEF StartsFirst

LEMMA TellMoves ==
    ASSUME TypeInv, MovesRightly, NEW ms \in Seq(MessageSet), Tell(ms), UNCHANGED <<sender, wired>>,
           \A a \in obexd.active : \/ IsActive(a.path)'
                                   \/ \E i \in 1 .. Len(ms) : ms[i].kind \in {"done", "error"} /\ ms[i].path = a.path,
           \A a \in obexd'.active : IsActive(a.path) \/ wired[a.path] = 0,
           \A i \in 1 .. Len(ms) : ms[i].kind \in {"done", "error"} => IsActive(ms[i].path)
    PROVE  MovesRightly'
<1>t. /\ \A k \in Positions' : \/ k \in Positions /\ queue'[k] = queue[k] /\ Kind(k)' = Kind(k)
                              \/ \E i \in 1 .. Len(ms) : /\ k = Len(queue) + i /\ queue'[k] = ms[i]
                                                         /\ Kind(k)' = ms[i].kind
      /\ \A i \in 1 .. Len(ms) : Len(queue) + i \in Positions' /\ queue'[Len(queue) + i] = ms[i]
      /\ \A k, p : EndsAfter(k, p) => EndsAfter(k, p)'
      /\ Len(queue) \in Nat
  BY Told
<1>1. Moving => Moving'
  <2> SUFFICES ASSUME NEW p \in Paths, wired[p] > 0, IsActive(p) \/ EndsAfter(0, p) PROVE Moving'
    BY DEF Moving
  <2>1. CASE EndsAfter(0, p)
    BY <1>t, <2>1 DEF Moving
  <2>2. CASE IsActive(p)
    <3>1. PICK a \in obexd.active : a.path = p
      BY <2>2 DEF IsActive
    <3>2. CASE IsActive(a.path)'
      <4>1. IsActive(p)'
        BY <3>1, <3>2 DEF IsActive
      <4> QED
        BY <4>1 DEF Moving
    <3>3. ASSUME NEW i \in 1 .. Len(ms), ms[i].kind \in {"done", "error"}, ms[i].path = a.path
          PROVE  Moving'
      <4>1. PICK j \in Positions' : queue'[j] = ms[i] /\ j > 0
        BY <1>t
      <4>2. EndsAfter(0, p)'
        BY <3>1, <3>3, <4>1 DEF EndsAfter, Kind
      <4> QED
        BY <4>2 DEF Moving
    <3> QED
      BY <3>1, <3>2, <3>3
  <2> QED
    BY <2>1, <2>2
<1>2. Moving' => Moving
  <2> SUFFICES ASSUME NEW p \in Paths, wired[p] > 0, IsActive(p)' \/ EndsAfter(0, p)' PROVE Moving
    BY DEF Moving
  <2>1. CASE IsActive(p)'
    <3>1. PICK a \in obexd'.active : a.path = p
      BY <2>1 DEF IsActive
    <3>0. wired[p] # 0
      OBVIOUS
    <3>2. IsActive(p)
      BY <3>0, <3>1 DEF IsActive
    <3> QED
      BY <3>2 DEF Moving
  <2>2. CASE EndsAfter(0, p)'
    <3>1. PICK j \in Positions' : j > 0 /\ Kind(j)' \in {"done", "error"} /\ queue'[j].path = p
      BY <2>2 DEF EndsAfter
    <3>2. IsActive(p) \/ EndsAfter(0, p)
      BY <1>t, <3>1 DEF EndsAfter
    <3> QED
      BY <3>2 DEF Moving
  <2> QED
    BY <2>1, <2>2
<1> QED
  BY <1>1, <1>2 DEF MovesRightly

LEMMA TellFile ==
    ASSUME TypeInv, NextIsSent, NEW ms \in Seq(MessageSet), Tell(ms), UNCHANGED <<sender, skipped>>, CallsLeft,
           sent \subseteq sent',
           \A a \in obexd'.active : a.file = NextFile(sender.files),
           \A i \in 1 .. Len(ms) : ms[i].kind = "done" => Arrived(NextFile(sender.files))'
    PROVE  NextIsSent'
<1>1. \A i \in Mine' : \E k \in Mine : calls'[i] = calls[k]
  BY FewerCalls DEF Mine, SendsTo
<1>2. PICK f : f = NextFile(sender.files) /\ f = NextFile(sender.files)'
  OBVIOUS
<1>3. Arrived(f) => Arrived(f)'
  BY DEF Arrived
<1>4. Arrived(NextFile(sender.files))' => Arrived(f)'
  BY <1>2 DEF Arrived
<1>5. \A k \in Positions' : Kind(k)' = "done" => Arrived(f)'
  BY <1>2, <1>3, <1>4, Told DEF NextIsSent
<1> QED
  BY <1>1, <1>2, <1>5 DEF NextIsSent, Arrived

\* A session is made.
LEMMA CreatedQuietly ==
    ASSUME TypeInv, Calm, QuietInv, UNCHANGED <<world, sender, wired, sent, skipped>>,
           calls # <<>>, calls' = Tail(calls), Head(calls).op = "create", HandleCreate
    PROVE  QuietInv'
<1>0. /\ Numbered /\ AskedOnce /\ OwnSession /\ OneFile /\ StartsFirst /\ MovesRightly /\ NextIsSent
  BY DEF QuietInv
<1>1. CallsLeft /\ Asked # {} /\ Asked' = {}
  BY <1>0, FirstCall DEF AskedOnce
<1>2. PICK m \in MessageSet :
          /\ Tell(<<m>>)
          /\ \/ /\ m.kind = "added" /\ m.session = obexd.nextSession /\ obexd.nextSession <= MaxSessions
                /\ obexd'.sessions = obexd.sessions \cup {obexd.nextSession}
                /\ obexd'.nextSession = obexd.nextSession + 1 /\ obexd'.nextTransfer = obexd.nextTransfer
                /\ obexd'.active = obexd.active
             \/ /\ m.kind = "failed" /\ obexd'.sessions = obexd.sessions /\ obexd'.active = obexd.active
                /\ obexd'.nextSession = obexd.nextSession /\ obexd'.nextTransfer = obexd.nextTransfer
  <2>1. CASE obexd.nextSession <= MaxSessions /\ Tell(<<[kind |-> "added", session |-> obexd.nextSession]>>)
             /\ obexd' = [obexd EXCEPT !.sessions = @ \cup {obexd.nextSession}, !.nextSession = @ + 1]
    <3> DEFINE m == [kind |-> "added", session |-> obexd.nextSession]
    <3>1. obexd.nextSession \in Owners
      BY <2>1, ObexdFields, SendingConstants DEF TypeInv, Owners, Sessions
    <3>2. m \in MessageSet
      BY <3>1 DEF MessageSet
    <3>3. /\ obexd'.sessions = obexd.sessions \cup {obexd.nextSession}
          /\ obexd'.nextSession = obexd.nextSession + 1 /\ obexd'.nextTransfer = obexd.nextTransfer
          /\ obexd'.active = obexd.active
      BY <2>1 DEF TypeInv, ObexdState
    <3> QED
      BY <2>1, <3>2, <3>3
  <2>2. CASE Tell(<<[kind |-> "failed"]>>) /\ (UNCHANGED obexd \/ obexd' = [obexd EXCEPT !.late = @ + 1])
    <3>1. [kind |-> "failed"] \in MessageSet
      BY DEF MessageSet
    <3>2. /\ obexd'.sessions = obexd.sessions /\ obexd'.active = obexd.active
          /\ obexd'.nextSession = obexd.nextSession /\ obexd'.nextTransfer = obexd.nextTransfer
      BY <2>2 DEF TypeInv, ObexdState
    <3> QED
      BY <2>2, <3>1, <3>2
  <2> QED
    BY <2>1, <2>2 DEF HandleCreate
<1> DEFINE ms == <<m>>
<1>3. ms \in Seq(MessageSet) /\ Len(ms) = 1 /\ \A i \in 1 .. Len(ms) : ms[i] = m
  OBVIOUS
<1>4. Tell(ms)
  BY <1>2
<1> HIDE DEF ms
<1>5. /\ obexd.nextSession \in Nat /\ obexd.nextTransfer \in Nat
      /\ obexd'.nextSession \in Nat /\ obexd'.nextTransfer \in Nat
      /\ obexd'.nextSession >= obexd.nextSession /\ obexd'.nextTransfer >= obexd.nextTransfer
  BY <1>2, ObexdFields DEF TypeInv
<1>6. m.kind = "added" => m.session \in Past' /\ m.session \notin Past
  BY <1>2, <1>5, ObexdFields, SendingConstants DEF TypeInv, Past, Sessions
<1>7. obexd'.sessions \subseteq Past'
  BY <1>0, <1>2, <1>5, <1>6, SendtoAssumption DEF Numbered, Past, Sessions
<1>8. Numbered'
  BY <1>0, <1>1, <1>2, <1>3, <1>4, <1>5, <1>6, <1>7, TellNumbered
<1>9. AskedOnce'
  BY <1>0, <1>1, <1>3, <1>4, TellAsked
<1>10. /\ \A a \in obexd'.active : IsActive(a.path)
       /\ \A a \in obexd.active : IsActive(a.path)'
  BY <1>2 DEF IsActive
<1>11. OwnSession'
  <2>1. \A session \in obexd'.sessions : session \in obexd.sessions \/ session \notin Past
    BY <1>2, <1>6
  <2>2. \A a \in obexd'.active : a.path[1] = sender.push
    BY <1>0, <1>2 DEF OwnSession
  <2>3. \A i \in 1 .. Len(ms) : /\ ms[i].kind \notin Reports /\ ms[i].kind \notin {"removed", "sendfailed", "started"}
                                /\ ms[i].kind = "added" => ms[i].session \notin Past
    BY <1>2, <1>3, <1>6 DEF Reports
  <2> QED
    BY <1>0, <1>1, <1>3, <1>4, <2>1, <2>2, <2>3, TellOwn
<1>12. StartsFirst'
  BY <1>0, <1>2, <1>3, <1>4, <1>10, TellFirst
<1>13. MovesRightly'
  BY <1>0, <1>2, <1>3, <1>4, <1>10, TellMoves
<1>14. NextIsSent'
  <2>1. \A a \in obexd'.active : a.file = NextFile(sender.files)
    BY <1>0, <1>2 DEF NextIsSent
  <2> QED
    BY <1>0, <1>1, <1>2, <1>3, <1>4, <2>1, TellFile
<1>15. OneFile'
  <2>1. Finished' = Finished
    BY <1>2, <1>3, <1>4, Told DEF Finished
  <2>2. (Mine = {} => Mine' = {}) /\ ((\A i, j \in Mine : i = j) => \A i, j \in Mine' : i = j)
    BY <1>1, FewerCalls DEF Mine, SendsTo
  <2>3. obexd'.active = obexd.active
    BY <1>2
  <2> QED
    BY <1>0, <2>1, <2>2, <2>3 DEF OneFile
<1> QED
  BY <1>8, <1>9, <1>11, <1>12, <1>13, <1>14, <1>15 DEF QuietInv

LEMMA MineLeft ==
    ASSUME CallsLeft, UNCHANGED sender
    PROVE  (Mine = {} => Mine' = {}) /\ ((\A i, j \in Mine : i = j) => \A i, j \in Mine' : i = j)
<1>0. PICK push : push = sender.push /\ push = sender'.push
  OBVIOUS
<1>1. /\ SendsTo(push) = {} => SendsTo(push)' = {}
      /\ (\A i, j \in SendsTo(push) : i = j) => (\A i, j \in SendsTo(push)' : i = j)
  BY FewerCalls
<1>2. Mine = SendsTo(push)
  BY <1>0 DEF Mine
<1>3. Mine' = SendsTo(push)'
  BY <1>0 DEF Mine, SendsTo
<1> QED
  BY <1>1, <1>2, <1>3

\* Nothing but a call changes.
LEMMA IgnoredQuietly ==
    ASSUME TypeInv, Calm, QuietInv, UNCHANGED <<world, obexd, queue, sender, wired, sent, skipped>>, CallsLeft
    PROVE  QuietInv'
<1>0. /\ Numbered /\ AskedOnce /\ OwnSession /\ OneFile /\ StartsFirst /\ MovesRightly /\ NextIsSent
  BY DEF QuietInv
<1> DEFINE ms == <<>>
<1>1. Tell(ms) /\ ms \in Seq(MessageSet) /\ 1 .. Len(ms) = {}
  BY NothingTold
<1> HIDE DEF ms
<1>2. /\ obexd'.nextSession \in Nat /\ obexd'.nextTransfer \in Nat
      /\ obexd'.nextSession >= obexd.nextSession /\ obexd'.nextTransfer >= obexd.nextTransfer
      /\ obexd'.sessions \subseteq Past'
  BY <1>0, ObexdFields DEF TypeInv, Numbered, Past
<1>3. Numbered'
  BY <1>0, <1>1, <1>2, TellNumbered
<1>4. AskedOnce'
  BY <1>0, <1>1, TellAsked
<1>5. OwnSession'
  BY <1>0, <1>1, TellOwn DEF OwnSession
<1>6. /\ StartsFirst' /\ MovesRightly'
  BY <1>0 DEF StartsFirst, MovesRightly, Moving, Positions, Kind, IsActive, EndsAfter
<1>7. NextIsSent'
  <2>1. \A a \in obexd'.active : a.file = NextFile(sender.files)
    BY <1>0 DEF NextIsSent
  <2> QED
    BY <1>0, <1>1, <2>1, TellFile
<1>8. OneFile'
  <2>1. Finished' = Finished
    BY DEF Finished, Positions, Kind
  <2>2. (Mine = {} => Mine' = {}) /\ ((\A i, j \in Mine : i = j) => \A i, j \in Mine' : i = j)
    BY MineLeft
  <2> QED
    BY <1>0, <2>1, <2>2 DEF OneFile
<1> QED
  BY <1>3, <1>4, <1>5, <1>6, <1>7, <1>8 DEF QuietInv

\* A session ends, and its transfer with it.
LEMMA DroppedQuietly ==
    ASSUME TypeInv, WaitInv, Calm, QuietInv, UNCHANGED <<world, sender, wired, sent, skipped>>, CallsLeft,
           NEW session \in obexd.sessions, DropSession(session)
    PROVE  QuietInv'
<1>0. /\ Numbered /\ AskedOnce /\ OwnSession /\ OneFile /\ StartsFirst /\ MovesRightly /\ NextIsSent
  BY DEF QuietInv
<1> DEFINE ms == Ended(session)
<1>1. /\ obexd'.sessions = obexd.sessions \ {session} /\ obexd'.active = obexd.active \ Transfers(session)
      /\ obexd'.nextSession = obexd.nextSession /\ obexd'.nextTransfer = obexd.nextTransfer
      /\ Tell(ms)
  BY DEF DropSession, TypeInv, ObexdState
<1>2. session \in Owners
  BY ObexdFields DEF TypeInv
<1>3. /\ ms \in Seq(MessageSet) /\ Len(ms) \in Nat \ {0}
      /\ ms[Len(ms)].kind = "removed" /\ ms[Len(ms)].session = session
      /\ \A i \in 1 .. Len(ms) - 1 : \E a \in Transfers(session) : ms[i].kind = "error" /\ ms[i].path = a.path
      /\ \A a \in Transfers(session) : \E i \in 1 .. Len(ms) - 1 : ms[i].kind = "error" /\ ms[i].path = a.path
      /\ \A i, j \in 1 .. Len(ms) - 1 : ms[i].path = ms[j].path => i = j
  <2>1. /\ ms \in Seq(MessageSet) /\ Len(ms) \in Nat \ {0}
        /\ ms[Len(ms)] = [kind |-> "removed", session |-> session]
        /\ \A i \in 1 .. Len(ms) - 1 : \E a \in Transfers(session) : ms[i] = [kind |-> "error", path |-> a.path]
        /\ \A a \in Transfers(session) : \E i \in 1 .. Len(ms) - 1 : ms[i] = [kind |-> "error", path |-> a.path]
        /\ \A i, j \in 1 .. Len(ms) - 1 : ms[i].path = ms[j].path => i = j
    BY <1>2, EndedIs
  <2> HIDE DEF ms
  <2>2. ms[Len(ms)].kind = "removed" /\ ms[Len(ms)].session = session
    BY <2>1
  <2>3. \A i \in 1 .. Len(ms) - 1 : \E a \in Transfers(session) : ms[i].kind = "error" /\ ms[i].path = a.path
    <3> TAKE i \in 1 .. Len(ms) - 1
    <3>1. PICK a \in Transfers(session) : ms[i] = [kind |-> "error", path |-> a.path]
      BY <2>1
    <3> QED
      BY <3>1
  <2>4. \A a \in Transfers(session) : \E i \in 1 .. Len(ms) - 1 : ms[i].kind = "error" /\ ms[i].path = a.path
    <3> TAKE a \in Transfers(session)
    <3>1. PICK i \in 1 .. Len(ms) - 1 : ms[i] = [kind |-> "error", path |-> a.path]
      BY <2>1
    <3> QED
      BY <3>1
  <2> QED
    BY <2>1, <2>2, <2>3, <2>4
<1> HIDE DEF ms
<1>4. \A i \in 1 .. Len(ms) : \/ i = Len(ms) /\ ms[i].kind = "removed" /\ ms[i].session = session
                              \/ /\ i \in 1 .. Len(ms) - 1 /\ ms[i].kind = "error"
                                 /\ \E a \in Transfers(session) : ms[i].path = a.path
  BY <1>3
<1>5. /\ \A i \in 1 .. Len(ms) : ms[i].kind \in {"removed", "error"}
      /\ \A i \in 1 .. Len(ms) : ms[i].kind = "removed" => i = Len(ms) /\ ms[i].session = session
      /\ \A i \in 1 .. Len(ms) : ms[i].kind = "error" => \E a \in Transfers(session) : ms[i].path = a.path
  BY <1>4
<1>6. \A a \in Transfers(session) : a \in obexd.active /\ a.path[1] = session
  BY DEF Transfers
<1>7. \A a \in obexd.active : IsActive(a.path)' \/
          \E i \in 1 .. Len(ms) : ms[i].kind \in {"done", "error"} /\ ms[i].path = a.path
  <2> SUFFICES ASSUME NEW a \in obexd.active, a \in Transfers(session)
               PROVE  \E i \in 1 .. Len(ms) : ms[i].kind \in {"done", "error"} /\ ms[i].path = a.path
    BY <1>1 DEF IsActive
  <2>1. PICK i \in 1 .. Len(ms) - 1 : ms[i].kind = "error" /\ ms[i].path = a.path
    BY <1>3
  <2>2. i \in 1 .. Len(ms)
    BY <1>3
  <2> QED
    BY <2>1, <2>2
<1>8. Numbered'
  <2>1. session \in Past /\ Past' = Past
    BY <1>0, <1>1 DEF Numbered, Past
  <2>2. \A i \in 1 .. Len(ms) : ms[i].kind \in {"added", "removed", "sendfailed"} => ms[i].session \in Past'
    BY <1>5, <2>1
  <2>3. \A i \in 1 .. Len(ms) : ms[i].kind # "started"
    BY <1>5
  <2>4. obexd'.sessions \subseteq Past'
    BY <1>0, <1>1, <2>1 DEF Numbered
  <2>5. /\ obexd'.nextSession \in Nat /\ obexd'.nextTransfer \in Nat
        /\ obexd'.nextSession >= obexd.nextSession /\ obexd'.nextTransfer >= obexd.nextTransfer
    BY <1>1, ObexdFields DEF TypeInv
  <2> QED
    BY <1>0, <1>1, <1>3, <2>2, <2>3, <2>4, <2>5, TellNumbered
<1>9. AskedOnce'
  <2>1. \A i \in 1 .. Len(ms) : ms[i].kind \notin {"added", "failed"}
    BY <1>5
  <2> QED
    BY <1>0, <1>1, <1>3, <2>1, TellAsked
<1>10. OwnSession'
  <2>1. \A s \in obexd'.sessions : s \in obexd.sessions
    BY <1>1
  <2>2. \A a \in obexd'.active : a.path[1] = sender.push
    BY <1>0, <1>1 DEF OwnSession
  <2>3. \A i \in 1 .. Len(ms) : /\ ms[i].kind = "removed" => ms[i].session \notin obexd'.sessions /\ i = Len(ms)
                                /\ ms[i].kind \in Reports => /\ ms[i].path[1] = sender.push
                                                             /\ ms[i].path[1] \in obexd.sessions
                                /\ ms[i].kind \notin {"started", "added", "sendfailed"}
    <3> TAKE i \in 1 .. Len(ms)
    <3>1. ms[i].kind = "removed" => ms[i].session \notin obexd'.sessions /\ i = Len(ms)
      BY <1>1, <1>5
    <3>2. ASSUME ms[i].kind \in Reports PROVE ms[i].path[1] = sender.push /\ ms[i].path[1] \in obexd.sessions
      <4>1. PICK a \in Transfers(session) : ms[i].path = a.path
        BY <1>5, <3>2 DEF Reports
      <4> QED
        BY <1>0, <1>6, <4>1 DEF OwnSession
    <3> QED
      BY <1>5, <3>1, <3>2
  <2> QED
    BY <1>0, <1>1, <1>3, <2>1, <2>2, <2>3, TellOwn
<1>11. StartsFirst'
  <2>1. \A i \in 1 .. Len(ms) : ms[i].kind \notin {"started", "progress"}
    BY <1>5
  <2> QED
    BY <1>0, <1>1, <1>3, <1>7, <2>1, TellFirst
<1>12. MovesRightly'
  <2>1. \A a \in obexd'.active : IsActive(a.path)
    BY <1>1 DEF IsActive
  <2>2. \A i \in 1 .. Len(ms) : ms[i].kind \in {"done", "error"} => IsActive(ms[i].path)
    <3> SUFFICES ASSUME NEW i \in 1 .. Len(ms), ms[i].kind = "error" PROVE IsActive(ms[i].path)
      BY <1>5
    <3>1. PICK a \in Transfers(session) : ms[i].path = a.path
      BY <1>5
    <3> QED
      BY <1>6, <3>1 DEF IsActive
  <2> QED
    BY <1>0, <1>1, <1>3, <1>7, <2>1, <2>2, TellMoves
<1>13. NextIsSent'
  <2>1. \A a \in obexd'.active : a.file = NextFile(sender.files)
    BY <1>0, <1>1 DEF NextIsSent
  <2>2. \A i \in 1 .. Len(ms) : ms[i].kind # "done"
    BY <1>5
  <2> QED
    BY <1>0, <1>1, <1>3, <2>1, <2>2, TellFile
<1>14. OneFile'
  <2>1. (Mine = {} => Mine' = {}) /\ ((\A i, j \in Mine : i = j) => \A i, j \in Mine' : i = j)
    BY MineLeft
  <2>2. CASE Transfers(session) = {}
    <3>1. \A i \in 1 .. Len(ms) : ms[i].kind = "removed"
      BY <1>5, <2>2
    <3>2. Finished' = Finished
      BY <1>1, <1>3, <3>1, Told DEF Finished
    <3>3. obexd'.active = obexd.active
      BY <1>1, <2>2
    <3> QED
      BY <1>0, <2>1, <3>2, <3>3 DEF OneFile
  <2>3. CASE Transfers(session) # {}
    <3>1. PICK a \in Transfers(session) : a \in obexd.active
      BY <1>6, <2>3
    <3>2. obexd'.active = {} /\ Mine = {} /\ Finished = {} /\ sender.dialog = "none"
      BY <1>0, <1>1, <3>1 DEF OneFile
    <3>3. \A k \in Finished' : \E i \in 1 .. Len(ms) - 1 : k = Len(queue) + i /\ ms[i].path = a.path
      <4> TAKE k \in Finished'
      <4>1. PICK i \in 1 .. Len(ms) : k = Len(queue) + i /\ ms[i].kind # "removed"
        <5>1. \/ k \in Positions /\ queue'[k] = queue[k] /\ Kind(k)' = Kind(k)
              \/ \E i \in 1 .. Len(ms) : k = Len(queue) + i /\ queue'[k] = ms[i] /\ Kind(k)' = ms[i].kind
          <6>1. \A j \in Positions' : \/ j \in Positions /\ queue'[j] = queue[j] /\ Kind(j)' = Kind(j)
                                      \/ \E i \in 1 .. Len(ms) : /\ j = Len(queue) + i /\ queue'[j] = ms[i]
                                                                 /\ Kind(j)' = ms[i].kind
            BY <1>1, <1>3, Told
          <6>2. k \in Positions'
            BY DEF Finished
          <6> QED
            BY <6>1, <6>2
        <5>2. \/ Kind(k)' \in {"done", "error"}
              \/ Kind(k)' = "sendfailed" /\ queue'[k].session = sender.push
          BY DEF Finished
        <5>3. ~(k \in Positions /\ queue'[k] = queue[k] /\ Kind(k)' = Kind(k))
          BY <3>2, <5>2 DEF Finished
        <5> QED
          BY <5>1, <5>2, <5>3
      <4>2. i \in 1 .. Len(ms) - 1
        BY <1>4, <4>1
      <4>3. PICK b \in Transfers(session) : ms[i].path = b.path
        BY <1>5, <4>1
      <4>4. b = a
        BY <1>0, <1>6, <3>1 DEF OneFile
      <4> QED
        BY <4>1, <4>2, <4>3, <4>4
    <3>4. ASSUME NEW j \in Finished', NEW k \in Finished' PROVE j = k
      <4>1. PICK i \in 1 .. Len(ms) - 1 : j = Len(queue) + i /\ ms[i].path = a.path
        BY <3>3, <3>4
      <4>2. PICK h \in 1 .. Len(ms) - 1 : k = Len(queue) + h /\ ms[h].path = a.path
        BY <3>3, <3>4
      <4>0. \A x, y \in 1 .. Len(ms) - 1 : ms[x].path = ms[y].path => x = y
        BY <1>3
      <4>3. i = h
        BY <4>0, <4>1, <4>2
      <4> QED
        BY <4>1, <4>2, <4>3
    <3> QED
      BY <2>1, <3>2, <3>4 DEF OneFile
  <2> QED
    BY <2>2, <2>3
<1> QED
  BY <1>8, <1>9, <1>10, <1>11, <1>12, <1>13, <1>14 DEF QuietInv

\* A file is asked to be sent.
LEMMA SentQuietly ==
    ASSUME TypeInv, WaitInv, Calm, QuietInv, UNCHANGED <<world, sender, wired, sent, skipped>>,
           calls # <<>>, calls' = Tail(calls), Head(calls).op = "send",
           NEW session \in Owners, NEW file \in Payload, session = Head(calls).session, file = Head(calls).file,
           HandleSend(session, file)
    PROVE  QuietInv'
<1>0. /\ Numbered /\ AskedOnce /\ OwnSession /\ OneFile /\ StartsFirst /\ MovesRightly /\ NextIsSent
  BY DEF QuietInv
<1>1. /\ CallsLeft /\ 1 \in SendsTo(session) /\ calls[1] = Head(calls) /\ 1 \in 1 .. Len(calls)
  BY FirstCall, CallsTaken DEF SendsTo
<1>2. session \in Past /\ (session = sender.push \/ session \notin obexd.sessions)
  BY <1>0, <1>1 DEF Numbered, OwnSession
<1>3. session = sender.push => /\ file = NextFile(sender.files) /\ Mine # {} /\ Mine' = {} /\ Finished = {}
                               /\ obexd.active = {} /\ sender.dialog = "none"
  <2> SUFFICES ASSUME session = sender.push
               PROVE  /\ file = NextFile(sender.files) /\ Mine # {} /\ Mine' = {} /\ Finished = {}
                      /\ obexd.active = {} /\ sender.dialog = "none"
    OBVIOUS
  <2>1. 1 \in Mine /\ Mine = SendsTo(session)
    BY <1>1 DEF Mine
  <2>2. SendsTo(session)' = {}
    BY <1>0, <2>1, FirstCall DEF OneFile
  <2>3. Mine' = {}
    BY <2>2 DEF Mine, SendsTo
  <2> QED
    BY <1>0, <1>1, <2>1, <2>3 DEF OneFile, NextIsSent
<1>4. (Mine = {} => Mine' = {}) /\ ((\A i, j \in Mine : i = j) => \A i, j \in Mine' : i = j)
  BY <1>1, MineLeft
<1>5. CASE /\ session \in obexd.sessions /\ obexd.nextTransfer <= MaxTransfers
           /\ BeginTransfer(session, file, obexd.noise)
           /\ Tell(<<[kind |-> "started", session |-> session, path |-> <<session, obexd.nextTransfer>>]>>)
  <2>0. PICK path : path = <<session, obexd.nextTransfer>>
    OBVIOUS
  <2> DEFINE new == [path |-> path, file |-> file, moved |-> FALSE]
             m == [kind |-> "started", session |-> session, path |-> path]
             ms == <<m>>
  <2>1. /\ obexd'.sessions = obexd.sessions /\ obexd'.active = obexd.active \cup {new}
        /\ obexd'.nextSession = obexd.nextSession /\ obexd'.nextTransfer = obexd.nextTransfer + 1
        /\ obexd.nextTransfer \in Nat /\ obexd.nextSession \in Nat
    BY <1>5, <2>0 DEF BeginTransfer, NextPath, TypeInv, ObexdState
  <2>2. path \in Paths /\ path[1] = session /\ path[2] = obexd.nextTransfer
    BY <1>5, <2>0, ObexdFields, SendingConstants DEF TypeInv, Paths, Owners
  <2>3. m \in MessageSet
    BY <2>2 DEF MessageSet
  <2>4. ms \in Seq(MessageSet) /\ Len(ms) = 1 /\ \A i \in 1 .. Len(ms) : ms[i] = m
    BY <2>3
  <2>5. Tell(ms)
    BY <1>5, <2>0
  <2>6. m.kind = "started" /\ m.session = session /\ m.path = path
    OBVIOUS
  <2>7. new.path = path /\ new.file = file
    OBVIOUS
  <2> HIDE DEF ms, m, new
  <2>8. session = sender.push
    BY <1>2, <1>5
  <2>9. obexd'.active = {new} /\ Finished = {} /\ obexd.active = {} /\ file = NextFile(sender.files) /\ Mine' = {}
    BY <1>3, <2>1, <2>8
  <2>10. ~Begun(path) /\ Begun(path)' /\ wired[path] = 0
    <3>1. ~Begun(path)
      BY <2>1, <2>2 DEF Begun
    <3>2. Begun(path)'
      BY <2>1, <2>2 DEF Begun
    <3> QED
      BY <1>0, <2>2, <3>1, <3>2 DEF Numbered
  <2>11. Numbered'
    <3>1. Past' = Past
      BY <2>1 DEF Past
    <3>2. obexd'.sessions \subseteq Past'
      BY <1>0, <2>1, <3>1 DEF Numbered
    <3>3. \A i \in 1 .. Len(ms) : ms[i].kind = "started" => Begun(ms[i].path)'
      <4> SUFFICES ASSUME NEW i \in 1 .. Len(ms) PROVE Begun(ms[i].path)'
        OBVIOUS
      <4>1. ms[i].path = path /\ (ms[i].path)' = path
        BY <2>4, <2>6 DEF ms, m
      <4> QED
        BY <2>10, <4>1 DEF Begun
    <3>4. \A i \in 1 .. Len(ms) : ms[i].kind \notin {"added", "removed", "sendfailed"}
      BY <2>4, <2>6
    <3> QED
      BY <1>0, <1>1, <2>1, <2>4, <2>5, <3>2, <3>3, <3>4, TellNumbered
  <2>12. AskedOnce'
    BY <1>0, <1>1, <2>4, <2>5, <2>6, TellAsked
  <2>13. OwnSession'
    <3>1. \A a \in obexd'.active : a.path[1] = sender.push
      BY <2>2, <2>7, <2>8, <2>9
    <3>2. \A i \in 1 .. Len(ms) : /\ ms[i].kind = "started" /\ ms[i].path[1] = session /\ ms[i].session = session
      BY <2>2, <2>4, <2>6
    <3> QED
      BY <1>0, <1>1, <1>5, <2>1, <2>4, <2>5, <2>8, <3>1, <3>2, TellOwn
  <2>14. StartsFirst'
    <3>1. IsActive(path)'
      <4>1. PICK b \in obexd'.active : b.path = path
        BY <2>7, <2>9
      <4> QED
        BY <4>1 DEF IsActive
    <3>2. \A i \in 1 .. Len(ms) : \E p \in Paths : p = ms[i].path /\ IsActive(p)'
      BY <2>2, <2>4, <2>6, <3>1
    <3>3. \A i \in 1 .. Len(ms) : ms[i].kind = "started" /\ wired[ms[i].path] = 0
      BY <2>4, <2>6, <2>10
    <3> QED
      BY <1>0, <2>4, <2>5, <2>9, <3>2, <3>3, TellFirst
  <2>15. MovesRightly'
    <3>1. \A a \in obexd'.active : wired[a.path] = 0
      BY <2>7, <2>9, <2>10
    <3>2. \A i \in 1 .. Len(ms) : ms[i].kind \notin {"done", "error"}
      BY <2>4, <2>6
    <3> QED
      BY <1>0, <2>4, <2>5, <2>9, <3>1, <3>2, TellMoves
  <2>16. NextIsSent'
    <3>1. \A a \in obexd'.active : a.file = NextFile(sender.files)
      BY <2>7, <2>9
    <3>2. \A i \in 1 .. Len(ms) : ms[i].kind # "done"
      BY <2>4, <2>6
    <3> QED
      BY <1>0, <1>1, <2>4, <2>5, <3>1, <3>2, TellFile
  <2>17. OneFile'
    <3>1. Finished' = {}
      <4>1. \A i \in 1 .. Len(ms) : ms[i].kind = "started"
        BY <2>4, <2>6
      <4> QED
        BY <2>4, <2>5, <2>9, <4>1, Told DEF Finished
    <3>2. sender'.dialog = "none"
      BY <1>3, <2>8
    <3> QED
      BY <2>9, <3>1, <3>2 DEF OneFile
  <2> QED
    BY <2>11, <2>12, <2>13, <2>14, <2>15, <2>16, <2>17 DEF QuietInv
<1>6. CASE Tell(<<[kind |-> "sendfailed", session |-> session]>>) /\ UNCHANGED obexd
  <2> DEFINE m == [kind |-> "sendfailed", session |-> session]
             ms == <<m>>
  <2>1. m \in MessageSet
    BY DEF MessageSet
  <2>2. ms \in Seq(MessageSet) /\ Len(ms) = 1 /\ \A i \in 1 .. Len(ms) : ms[i] = m
    BY <2>1
  <2>3. Tell(ms)
    BY <1>6
  <2>4. m.kind = "sendfailed" /\ m.session = session
    OBVIOUS
  <2> HIDE DEF ms, m
  <2>5. /\ \A i \in 1 .. Len(ms) : ms[i].kind = "sendfailed" /\ ms[i].session = session
        /\ \A a \in obexd.active : IsActive(a.path)'
        /\ \A a \in obexd'.active : IsActive(a.path)
    BY <1>6, <2>2, <2>4 DEF IsActive
  <2>6. Numbered'
    <3>1. Past' = Past
      BY <1>6 DEF Past
    <3>2. obexd'.sessions \subseteq Past'
      BY <1>0, <1>6, <3>1 DEF Numbered
    <3>3. /\ obexd'.nextSession \in Nat /\ obexd'.nextTransfer \in Nat
          /\ obexd'.nextSession >= obexd.nextSession /\ obexd'.nextTransfer >= obexd.nextTransfer
      BY <1>6, ObexdFields DEF TypeInv
    <3> QED
      BY <1>0, <1>1, <1>2, <2>2, <2>3, <2>5, <3>1, <3>2, <3>3, TellNumbered
  <2>7. AskedOnce'
    BY <1>0, <1>1, <2>2, <2>3, <2>5, TellAsked
  <2>8. OwnSession'
    <3>1. \A i \in 1 .. Len(ms) : /\ ms[i].kind = "sendfailed" /\ ms[i].kind \notin Reports
                                  /\ SendsTo(ms[i].session) # {}
      BY <1>1, <2>5 DEF Reports
    <3>2. \A a \in obexd'.active : a.path[1] = sender.push
      BY <1>0, <1>6 DEF OwnSession
    <3> QED
      BY <1>0, <1>1, <1>6, <2>2, <2>3, <3>1, <3>2, TellOwn
  <2>9. StartsFirst'
    BY <1>0, <2>2, <2>3, <2>5, TellFirst
  <2>10. MovesRightly'
    BY <1>0, <2>2, <2>3, <2>5, TellMoves
  <2>11. NextIsSent'
    <3>1. \A a \in obexd'.active : a.file = NextFile(sender.files)
      BY <1>0, <1>6 DEF NextIsSent
    <3> QED
      BY <1>0, <1>1, <2>2, <2>3, <2>5, <3>1, TellFile
  <2>12. OneFile'
    <3>1. CASE session = sender.push
      <4>1. \A k \in Finished' : k = Len(queue) + 1
        BY <1>3, <2>2, <2>3, <3>1, Told DEF Finished
      <4> QED
        BY <1>3, <1>6, <3>1, <4>1 DEF OneFile
    <3>2. CASE session # sender.push
      <4>1. Finished' = Finished
        BY <2>2, <2>3, <2>5, <3>2, Told DEF Finished
      <4> QED
        BY <1>0, <1>4, <1>6, <4>1 DEF OneFile
    <3> QED
      BY <3>1, <3>2
  <2> QED
    BY <2>6, <2>7, <2>8, <2>9, <2>10, <2>11, <2>12 DEF QuietInv
<1>7. CASE BeginTransfer(session, file, obexd.noise + 1)
  <2>1. obexd'.noise = obexd.noise + 1 /\ obexd.noise \in Nat
    BY <1>7 DEF BeginTransfer, TypeInv, ObexdState
  <2> QED
    BY <2>1 DEF QuietInv, Calm
<1> QED
  BY <1>5, <1>6, <1>7 DEF HandleSend, BeginTransfer, NextPath

\* A transfer moves or ends.
LEMMA MovedQuietly ==
    ASSUME TypeInv, WaitInv, Calm, QuietInv, NEW a \in obexd.active, TransferMoves(a) \/ TransferEnds(a)
    PROVE  QuietInv'
<1>0. /\ Numbered /\ AskedOnce /\ OwnSession /\ OneFile /\ StartsFirst /\ MovesRightly /\ NextIsSent
  BY DEF QuietInv
<1>1. /\ UNCHANGED <<sender, wired, calls, skipped>> /\ a.path \in Paths /\ CallsLeft
      /\ a.path[1] \in obexd.sessions /\ a.path[1] = sender.push /\ a.file = NextFile(sender.files)
  BY <1>0, ObexdFields, SameCalls DEF TransferMoves, TransferEnds, TypeInv, WaitInv, SessionsKnown, OwnSession, NextIsSent
<1>2. obexd.active = {a} /\ Mine = {} /\ Finished = {} /\ sender.dialog = "none" /\ IsActive(a.path)
  BY <1>0 DEF OneFile, IsActive
<1>3. PICK kind \in {"progress", "done", "error"} :
          /\ Tell(<<[kind |-> kind, path |-> a.path]>>)
          /\ TransferEnds(a) /\ ~TransferMoves(a) => kind \in {"done", "error"}
          /\ TransferMoves(a) => kind = "progress" /\ UNCHANGED sent
          /\ kind = "done" => sent' = sent \cup {[file |-> a.file, to |-> a.path[1]]}
          /\ kind # "done" => UNCHANGED sent
  BY DEF TransferMoves, TransferEnds
<1> DEFINE m == [kind |-> kind, path |-> a.path]
           ms == <<m>>
<1>4. m \in MessageSet
  BY <1>1 DEF MessageSet
<1>5. ms \in Seq(MessageSet) /\ Len(ms) = 1 /\ \A i \in 1 .. Len(ms) : ms[i] = m
  BY <1>4
<1>6. Tell(ms)
  BY <1>3
<1>7. m.kind = kind /\ m.path = a.path
  OBVIOUS
<1> HIDE DEF ms, m
<1>8. \A i \in 1 .. Len(ms) : ms[i].kind = kind /\ ms[i].path = a.path
  BY <1>5, <1>7
<1>9. /\ obexd'.sessions = obexd.sessions /\ obexd'.nextSession = obexd.nextSession
      /\ obexd'.nextTransfer = obexd.nextTransfer
      /\ obexd'.active \in {(obexd.active \ {a}) \cup {[a EXCEPT !.moved = TRUE]}, obexd.active \ {a}}
      /\ TransferMoves(a) => obexd'.active = (obexd.active \ {a}) \cup {[a EXCEPT !.moved = TRUE]}
      /\ ~TransferMoves(a) => obexd'.active = obexd.active \ {a}
  BY DEF TransferMoves, TransferEnds, TypeInv, ObexdState
<1>10. [a EXCEPT !.moved = TRUE].path = a.path /\ [a EXCEPT !.moved = TRUE].file = a.file
  BY ObexdFields DEF TypeInv
<1>11. PICK b : b = [a EXCEPT !.moved = TRUE]
  OBVIOUS
<1>12. /\ \A c \in obexd'.active : c = b /\ c.path = a.path /\ c.file = a.file
       /\ TransferMoves(a) => obexd'.active = {b}
       /\ ~TransferMoves(a) => obexd'.active = {}
  BY <1>2, <1>9, <1>10, <1>11
<1>13. /\ \A c \in obexd'.active : IsActive(c.path)
       /\ TransferMoves(a) => IsActive(a.path)'
  <2>1. ASSUME TransferMoves(a) PROVE IsActive(a.path)'
    <3>1. PICK p : p = a.path /\ p = a.path'
      OBVIOUS
    <3>2. b \in obexd'.active /\ b.path = p
      BY <1>12, <2>1, <3>1
    <3>3. IsActive(p)'
      BY <3>2 DEF IsActive
    <3> QED
      BY <3>1, <3>3 DEF IsActive
  <2> QED
    BY <1>2, <1>12, <2>1
<1>14. Numbered'
  <2>1. Past' = Past
    BY <1>9 DEF Past
  <2>2. obexd'.sessions \subseteq Past'
    BY <1>0, <1>9, <2>1 DEF Numbered
  <2>3. /\ obexd'.nextSession \in Nat /\ obexd'.nextTransfer \in Nat
        /\ obexd'.nextSession >= obexd.nextSession /\ obexd'.nextTransfer >= obexd.nextTransfer
    BY <1>9, ObexdFields DEF TypeInv
  <2>4. \A i \in 1 .. Len(ms) : ms[i].kind \notin {"added", "removed", "sendfailed", "started"}
    BY <1>8
  <2> QED
    BY <1>0, <1>1, <1>5, <1>6, <2>2, <2>3, <2>4, TellNumbered
<1>15. AskedOnce'
  <2>1. \A i \in 1 .. Len(ms) : ms[i].kind \notin {"added", "failed"}
    BY <1>8
  <2> QED
    BY <1>0, <1>1, <1>5, <1>6, <2>1, TellAsked
<1>16. OwnSession'
  <2>1. \A c \in obexd'.active : c.path[1] = sender.push
    BY <1>1, <1>12
  <2>2. \A i \in 1 .. Len(ms) : /\ ms[i].kind \notin {"removed", "started", "added", "sendfailed"}
                                /\ ms[i].path[1] = sender.push /\ ms[i].path[1] \in obexd.sessions
    BY <1>1, <1>8
  <2> QED
    BY <1>0, <1>1, <1>5, <1>6, <1>9, <2>1, <2>2, TellOwn
<1>17. \A c \in obexd.active : IsActive(c.path)' \/
           \E i \in 1 .. Len(ms) : ms[i].kind \in {"done", "error"} /\ ms[i].path = c.path
  <2>1. CASE TransferMoves(a)
    BY <1>2, <1>13, <2>1
  <2>2. CASE ~TransferMoves(a)
    <3>1. 1 \in 1 .. Len(ms) /\ kind \in {"done", "error"}
      BY <1>3, <1>5, <2>2
    <3>2. ms[1].kind = kind /\ ms[1].path = a.path
      BY <1>8, <3>1
    <3> QED
      BY <1>2, <3>1, <3>2
  <2> QED
    BY <2>1, <2>2
<1>18. StartsFirst'
  <2>1. ASSUME kind = "progress" PROVE \E p \in Paths : p = a.path /\ IsActive(p)'
    <3>1. TransferMoves(a)
      BY <1>3, <2>1
    <3>2. PICK p \in Paths : p = a.path
      BY <1>1
    <3>3. b \in obexd'.active /\ b.path = p
      BY <1>12, <3>1, <3>2
    <3>4. IsActive(p)'
      BY <3>3 DEF IsActive
    <3> QED
      BY <3>2, <3>4
  <2>2. \A i \in 1 .. Len(ms) : /\ ms[i].kind # "started"
                                /\ ms[i].kind = "progress" => \E p \in Paths : p = ms[i].path /\ IsActive(p)'
    BY <1>8, <2>1
  <2> QED
    BY <1>0, <1>1, <1>5, <1>6, <1>17, <2>2, TellFirst
<1>19. MovesRightly'
  <2>1. \A i \in 1 .. Len(ms) : IsActive(ms[i].path)
    BY <1>2, <1>8
  <2> QED
    BY <1>0, <1>1, <1>5, <1>6, <1>13, <1>17, <2>1, TellMoves
<1>20. NextIsSent'
  <2>1. \A c \in obexd'.active : c.file = NextFile(sender.files)
    BY <1>1, <1>12
  <2>2. ASSUME kind = "done" PROVE Arrived(NextFile(sender.files))'
    <3>1. PICK d : d = [file |-> a.file, to |-> a.path[1]]
      OBVIOUS
    <3>2. d \in sent' /\ d.file = NextFile(sender.files) /\ d.to = sender.push
      BY <1>1, <1>3, <2>2, <3>1
    <3>3. sender.push # Other
      BY <1>0, <1>1, SendingConstants DEF Numbered, Past
    <3>4. NextFile(sender.files)' = NextFile(sender.files)
      BY <1>1 DEF NextFile
    <3> QED
      BY <3>2, <3>3, <3>4 DEF Arrived
  <2>3. \A i \in 1 .. Len(ms) : ms[i].kind = "done" => Arrived(NextFile(sender.files))'
    BY <1>8, <2>2
  <2>4. sent \subseteq sent'
    BY <1>3
  <2> QED
    BY <1>0, <1>1, <1>5, <1>6, <2>1, <2>3, <2>4, TellFile
<1>21. OneFile'
  <2>1. Mine' = {}
    BY <1>1, <1>2, MineLeft
  <2>2. sender'.dialog = "none"
    BY <1>1, <1>2
  <2>3. \A x, y \in obexd'.active : x = y
    BY <1>12
  <2>4. \A k \in Finished' : k = Len(queue) + 1
    BY <1>1, <1>2, <1>5, <1>6, Told DEF Finished
  <2>5. CASE TransferMoves(a)
    <3>1. \A i \in 1 .. Len(ms) : ms[i].kind = "progress"
      BY <1>3, <1>8, <2>5
    <3>2. Finished' = {}
      BY <1>1, <1>2, <1>5, <1>6, <3>1, Told DEF Finished
    <3> QED
      BY <2>1, <2>2, <2>3, <3>2 DEF OneFile
  <2>6. CASE ~TransferMoves(a)
    BY <1>12, <2>1, <2>2, <2>4, <2>6 DEF OneFile
  <2> QED
    BY <2>5, <2>6
<1> QED
  BY <1>14, <1>15, <1>16, <1>18, <1>19, <1>20, <1>21 DEF QuietInv

\* A step of obexd in a quiet world.
LEMMA ObexdQuietly ==
    ASSUME TypeInv, WaitInv, Calm, QuietInv,
           ObexdHandles \/ LateSession \/ OtherSession \/ ObexdDies
           \/ (\E a \in obexd.active : TransferMoves(a) \/ TransferEnds(a))
           \/ (\E session \in obexd.sessions \cap Sessions : LinkLost(session))
    PROVE  QuietInv'
<1>1. CASE LateSession \/ OtherSession \/ ObexdDies
  <2>1. Other \notin obexd.sessions
    BY SendingConstants DEF Calm, QuietInv, Numbered, Past
  <2>2. obexd'.noise = obexd.noise + 1 /\ obexd.noise \in Nat
    BY <1>1, <2>1 DEF LateSession, OtherSession, ObexdDies, FreshObexd, TypeInv, ObexdState
  <2> QED
    BY <2>2 DEF QuietInv, Calm
<1>2. CASE ObexdHandles
  <2> DEFINE call == Head(calls)
  <2>0. calls # <<>> /\ calls' = Tail(calls) /\ UNCHANGED <<world, device, sender, wired, sent, skipped>>
    BY <1>2 DEF ObexdHandles
  <2>1. call \in CallSet
    BY <2>0, FirstTaken DEF TypeInv
  <2>2. CallsLeft
    BY <2>0, FirstCall
  <2>3. CASE call.op = "create" /\ HandleCreate
    BY <2>0, <2>3, CreatedQuietly
  <2>4. CASE call.op = "remove" /\ HandleRemove(call.session)
    <3>1. CASE call.session \in obexd.sessions /\ DropSession(call.session)
      BY <2>0, <2>2, <3>1, DroppedQuietly
    <3>2. CASE UNCHANGED <<obexd, queue>>
      BY <2>0, <2>2, <3>2, IgnoredQuietly
    <3> QED
      BY <2>4, <3>1, <3>2 DEF HandleRemove
  <2>5. CASE call.op = "send" /\ HandleSend(call.session, call.file)
    <3>1. PICK session \in Owners, file \in Payload : session = call.session /\ file = call.file
      BY <2>1, <2>5, SentFields
    <3> QED
      BY <2>0, <2>5, <3>1, SentQuietly
  <2> QED
    BY <1>2, <2>3, <2>4, <2>5 DEF ObexdHandles
<1>3. ASSUME NEW a \in obexd.active, TransferMoves(a) \/ TransferEnds(a) PROVE QuietInv'
  BY <1>3, MovedQuietly
<1>4. ASSUME NEW session \in obexd.sessions \cap Sessions, LinkLost(session) PROVE QuietInv'
  BY <1>4, DroppedQuietly, SameCalls DEF LinkLost
<1> QED
  BY <1>1, <1>2, <1>3, <1>4

-------------------------------------------------------------------------------
(* Sending files: the Sender's steps in a quiet world *)

\* The messages are those there were, but for the first d, which have been read.
Left(d) == /\ \A i \in Positions' : i + d \in Positions /\ queue'[i] = queue[i + d] /\ i \in Nat /\ i > 0
           /\ \A k \in Positions : k > d => k - d \in Positions' /\ queue'[k - d] = queue[k]
           /\ \A k \in Positions : k \in Nat /\ k > 0

LEMMA Reading ==
    ASSUME TypeInv
    PROVE  /\ UNCHANGED queue => Left(0)
           /\ \A kind : Receive(kind) => /\ Left(1) /\ 1 \in Positions /\ Kind(1) = kind /\ queue[1] = Message
                                         /\ Message \in MessageSet /\ Message.kind = kind
<1>1. \A k \in Positions : k \in Nat /\ k > 0 /\ k + 0 = k /\ k - 0 = k
  BY DEF Positions, TypeInv
<1>2. ASSUME UNCHANGED queue PROVE Left(0)
  <2>1. Positions' = Positions
    BY <1>2 DEF Positions
  <2> QED
    BY <1>1, <1>2, <2>1 DEF Left
<1>3. ASSUME NEW kind, Receive(kind)
      PROVE  /\ Left(1) /\ 1 \in Positions /\ Kind(1) = kind /\ queue[1] = Message
             /\ Message \in MessageSet /\ Message.kind = kind
  <2>1. queue # <<>> /\ queue' = Tail(queue) /\ Message \in MessageSet /\ Message.kind = kind
    BY <1>3, ReceiveTypes DEF Receive
  <2>2. /\ 1 \in Positions /\ queue[1] = Message
        /\ \A i \in Positions' : i + 1 \in Positions /\ queue'[i] = queue[i + 1] /\ i > 0 /\ i \in Nat
        /\ \A k \in Positions : k = 1 \/ (k > 1 /\ k - 1 \in Positions' /\ queue'[k - 1] = queue[k])
    BY <2>1, QueueTaken
  <2>3. \A k \in Positions : k > 1 => k # 1
    OBVIOUS
  <2>4. Left(1)
    BY <1>1, <2>2, <2>3 DEF Left
  <2> QED
    BY <2>1, <2>2, <2>4 DEF Kind
<1> QED
  BY <1>2, <1>3

\* What is left in the queue.
LEMMA WhatIsLeft ==
    ASSUME NEW d \in {0, 1}, Left(d)
    PROVE  /\ \A i \in Positions' : Kind(i)' = Kind(i + d) /\ i + d > d
           /\ \A p : \A k \in Nat : EndsAfter(k + d, p) => EndsAfter(k, p)'
           /\ \A p : \A k \in Nat : EndsAfter(k, p)' => EndsAfter(k + d, p)
           /\ Offered = {} => Offered' = {}
           /\ (\A i, j \in Offered : i = j) => \A i, j \in Offered' : i = j
           /\ d \in Offered /\ (\A i, j \in Offered : i = j) => Offered' = {}
           /\ d = 0 => Offered' = Offered
<1>0. d \in Nat /\ \A i \in Nat, j \in Nat : i + d = j + d => i = j
  OBVIOUS
<1>1. \A i \in Positions' : Kind(i)' = Kind(i + d) /\ i + d > d
  BY <1>0 DEF Left, Kind
<1>2. ASSUME NEW k \in Nat, NEW p, EndsAfter(k + d, p) PROVE EndsAfter(k, p)'
  <2>1. PICK j \in Positions : j > k + d /\ Kind(j) \in {"done", "error"} /\ queue[j].path = p
    BY <1>2 DEF EndsAfter
  <2>2. j \in Nat /\ j > d
    BY <1>0, <2>1 DEF Left
  <2>3. PICK i : i = j - d /\ i \in Positions' /\ queue'[i] = queue[j]
    BY <2>2 DEF Left
  <2>4. i > k /\ Kind(i)' \in {"done", "error"} /\ queue'[i].path = p
    BY <1>0, <2>1, <2>2, <2>3 DEF Kind
  <2> QED
    BY <2>3, <2>4 DEF EndsAfter
<1>3. ASSUME NEW k \in Nat, NEW p, EndsAfter(k, p)' PROVE EndsAfter(k + d, p)
  <2>1. PICK j \in Positions' : j > k /\ Kind(j)' \in {"done", "error"} /\ queue'[j].path = p
    BY <1>3 DEF EndsAfter
  <2>2. j + d \in Positions /\ queue[j + d] = queue'[j] /\ j + d > k + d
    BY <1>0, <2>1 DEF Left
  <2> QED
    BY <2>1, <2>2 DEF EndsAfter, Kind
<1>4. \A i \in Offered' : i + d \in Offered /\ i \in Nat /\ i + d # d
  BY <1>0, <1>1 DEF Offered, Left
<1>5. ASSUME \A i, j \in Offered : i = j, NEW i \in Offered', NEW j \in Offered' PROVE i = j
  <2>1. i + d = j + d
    BY <1>4, <1>5
  <2> QED
    BY <1>0, <1>4, <2>1
<1>6. d \in Offered /\ (\A i, j \in Offered : i = j) => Offered' = {}
  BY <1>4
<1>7. ASSUME d = 0 PROVE Offered' = Offered
  <2>1. Positions' = Positions /\ \A i \in Positions : queue'[i] = queue[i]
    BY <1>7 DEF Left
  <2> QED
    BY <2>1 DEF Offered, Kind
<1> QED
  BY <1>1, <1>2, <1>3, <1>4, <1>5, <1>6, <1>7

LEMMA KeepsNumbered ==
    ASSUME TypeInv, Numbered, UNCHANGED obexd, NEW d \in {0, 1}, Left(d),
           NEW cs \in Seq(CallSet), calls' = calls \o cs,
           \A i \in 1 .. Len(cs) : cs[i].op = "send" => cs[i].session \in Past,
           sender'.push # NoSession => sender'.push \in Past,
           \A p \in Paths : wired'[p] = wired[p] \/ (wired'[p] = 1 /\ Begun(p))
    PROVE  Numbered'
<1>1. Past' = Past /\ \A p : Begun(p)' = Begun(p)
  BY DEF Past, Begun
<1>2. \A i \in 1 .. Len(calls') : calls'[i].op = "send" => calls'[i].session \in Past'
  BY <1>1, CallsGrow DEF Numbered
<1>3. \A i \in Positions' : Kind(i)' \in {"added", "removed", "sendfailed"} => queue'[i].session \in Past'
  BY <1>1, WhatIsLeft DEF Numbered, Left
<1>4. ASSUME NEW i \in Positions', Kind(i)' = "started" PROVE Begun(queue[i].path)'
  <2>1. Begun(queue[i + d].path) /\ queue'[i] = queue[i + d]
    BY <1>4, WhatIsLeft DEF Numbered, Left
  <2> QED
    BY <2>1 DEF Begun
<1>5. \A p \in Paths : wired'[p] # 0 => wired'[p] = 1 /\ Begun(p)'
  BY <1>1 DEF Numbered
<1>6. obexd'.sessions \subseteq Past' /\ (sender'.push # NoSession => sender'.push \in Past')
  BY <1>1 DEF Numbered
<1> QED
  BY <1>2, <1>3, <1>4, <1>5, <1>6 DEF Numbered

\* The Sender keeps its session, or nothing is heard of the one it had.
LEMMA KeepsOwn ==
    ASSUME TypeInv, OwnSession, UNCHANGED obexd, NEW d \in {0, 1}, Left(d),
           NEW cs \in Seq(CallSet), calls' = calls \o cs,
           \A i \in 1 .. Len(cs) : cs[i].op = "send" => cs[i].session = sender'.push /\ Offered' = {},
           \/ sender'.push = sender.push
           \/ /\ \A i \in Positions' : Kind(i)' \notin Reports
              /\ obexd.active = {}
              /\ sender.push \notin obexd.sessions
    PROVE  OwnSession'
<1>0. PICK push : push = sender'.push
  OBVIOUS
<1>1. \A i \in Positions' : i + d \in Positions /\ queue'[i] = queue[i + d] /\ Kind(i)' = Kind(i + d)
                            /\ i \in Nat /\ d \in Nat
  BY WhatIsLeft DEF Left
<1>2. ASSUME NEW i \in Positions', Kind(i)' = "removed"
      PROVE  /\ queue'[i].session \notin obexd'.sessions
             /\ \A j \in Positions' : j > i /\ Kind(j)' \in Reports => queue'[j].path[1] # queue'[i].session
  <2>1. /\ queue[i + d].session \notin obexd.sessions
        /\ \A j \in Positions : j > i + d /\ Kind(j) \in Reports => queue[j].path[1] # queue[i + d].session
    BY <1>1, <1>2 DEF OwnSession
  <2>2. \A j \in Positions' : j > i => j + d > i + d
    BY <1>1
  <2> QED
    BY <1>1, <2>1, <2>2
<1>3. /\ \A i \in Positions' : Kind(i)' \in Reports => queue'[i].path[1] = push
      /\ \A i \in Positions' : Kind(i)' = "started" => queue'[i].session = push
      /\ \A a \in obexd'.active : a.path[1] = push
  <2>1. CASE sender'.push = sender.push
    BY <1>0, <1>1, <2>1 DEF OwnSession
  <2>2. CASE /\ \A i \in Positions' : Kind(i)' \notin Reports
             /\ obexd.active = {}
    BY <1>0, <2>2 DEF Reports
  <2> QED
    BY <2>1, <2>2
<1>4. \A i \in 1 .. Len(calls') : calls'[i].op = "send" =>
          calls'[i].session = push \/ calls'[i].session \notin obexd'.sessions
  BY <1>0, CallsGrow DEF OwnSession
<1>5. ASSUME NEW i \in Positions', Kind(i)' = "added"
      PROVE  /\ SendsTo(queue[i].session)' = {}
             /\ \A j \in Positions' : Kind(j)' = "sendfailed" => queue'[j].session # queue'[i].session
  <2>0. PICK session : session = queue'[i].session
    OBVIOUS
  <2>1. /\ SendsTo(session) = {}
        /\ \A j \in Positions : Kind(j) = "sendfailed" => queue[j].session # session
    <3>1. PICK k \in Positions : Kind(k) = "added" /\ queue[k].session = session
      BY <1>1, <1>5, <2>0
    <3>2. /\ SendsTo(queue[k].session) = {}
          /\ \A j \in Positions : Kind(j) = "sendfailed" => queue[j].session # queue[k].session
      BY <3>1 DEF OwnSession
    <3> QED
      BY <3>1, <3>2
  <2>2. \A j \in 1 .. Len(cs) : cs[j].op # "send"
    BY <1>5 DEF Offered
  <2>3. SendsTo(session)' = {}
    BY <2>1, <2>2, CallsGrow DEF SendsTo
  <2> QED
    BY <1>1, <2>0, <2>1, <2>3 DEF SendsTo
<1> QED
  BY <1>0, <1>2, <1>3, <1>4, <1>5 DEF OwnSession

LEMMA KeepsStarts ==
    ASSUME TypeInv, StartsFirst, UNCHANGED obexd, NEW d \in {0, 1}, Left(d),
           UNCHANGED wired \/ (d = 1 /\ 1 \in Positions /\ Kind(1) = "started")
    PROVE  StartsFirst'
<1>1. \A i \in Positions' : i + d \in Positions /\ queue'[i] = queue[i + d] /\ Kind(i)' = Kind(i + d)
                            /\ i \in Nat /\ i + d > d /\ d \in Nat
  BY WhatIsLeft DEF Left
<1>2. ASSUME NEW i \in Positions', NEW j \in Positions', Kind(i)' = "started", Kind(j)' = "started" PROVE i = j
  <2>1. i + d = j + d
    BY <1>1, <1>2 DEF StartsFirst
  <2> QED
    BY <1>1, <2>1
<1>3. ASSUME NEW i \in Positions', Kind(i)' = "started" PROVE wired'[queue'[i].path] = 0
  <2>1. CASE UNCHANGED wired
    BY <1>1, <1>3, <2>1 DEF StartsFirst
  <2>2. CASE d = 1 /\ 1 \in Positions /\ Kind(1) = "started"
    <3>1. i + d = 1
      BY <1>1, <1>3, <2>2 DEF StartsFirst
    <3> QED
      BY <1>1, <2>2, <3>1
  <2> QED
    BY <2>1, <2>2
<1>4. ASSUME NEW i \in Positions', Kind(i)' \in {"started", "progress"}
      PROVE  \E p : p = queue'[i].path /\ (IsActive(p)' \/ EndsAfter(i, p)')
  <2>1. PICK p : p = queue'[i].path /\ p = queue[i + d].path
    BY <1>1
  <2>2. IsActive(p) \/ EndsAfter(i + d, p)
    BY <1>1, <1>4, <2>1 DEF StartsFirst
  <2>3. EndsAfter(i + d, p) => EndsAfter(i, p)'
    BY <1>1, WhatIsLeft
  <2>4. IsActive(p) => IsActive(p)'
    BY DEF IsActive
  <2> QED
    BY <2>1, <2>2, <2>3, <2>4
<1>5. \A i \in Positions' : Kind(i)' \in {"started", "progress"} => IsActive(queue[i].path)' \/ EndsAfter(i, queue[i].path)'
  BY <1>4 DEF IsActive, EndsAfter
<1> QED
  BY <1>2, <1>3, <1>5 DEF StartsFirst

\* A step that asks for no transfer keeps the one file that is under way.
LEMMA KeepsFile ==
    ASSUME TypeInv, OneFile, NextIsSent, UNCHANGED <<obexd, sent, skipped>>, NEW d \in {0, 1}, Left(d),
           NEW cs \in Seq(CallSet), calls' = calls \o cs, \A i \in 1 .. Len(cs) : cs[i].op # "send",
           sender'.push = sender.push, sender'.files = sender.files
    PROVE  /\ NextIsSent'
           /\ sender'.dialog = "none" \/ sender'.dialog = sender.dialog \/ d \in Finished => OneFile'
<1>0. PICK push, files : push = sender.push /\ push = sender'.push /\ files = sender.files /\ files = sender'.files
  OBVIOUS
<1>1. \A i \in Positions' : i + d \in Positions /\ queue'[i] = queue[i + d] /\ Kind(i)' = Kind(i + d)
                            /\ i \in Nat /\ i + d # d /\ d \in Nat
  <2>1. \A i \in Positions' : i + d > d /\ d \in Nat => i + d # d
    OBVIOUS
  <2> QED
    BY <2>1, WhatIsLeft DEF Left
<1>2. SendsTo(push)' = SendsTo(push) /\ \A i \in SendsTo(push) : calls'[i] = calls[i]
  <2>1. \A i \in 1 .. Len(calls) : i \in 1 .. Len(calls') /\ calls'[i] = calls[i]
    BY CallsGrow
  <2>2. \A k \in 1 .. Len(calls') : k \in 1 .. Len(calls) \/ calls'[k].op # "send"
    BY CallsGrow
  <2> QED
    BY <2>1, <2>2 DEF SendsTo
<1>3. Mine' = Mine /\ \A i \in Mine : calls'[i] = calls[i]
  BY <1>0, <1>2 DEF Mine, SendsTo
<1>4. \A f : Arrived(f)' = Arrived(f)
  BY DEF Arrived
<1>5. NextIsSent'
  <2>1. PICK f : f = NextFile(files) /\ f = NextFile(sender.files) /\ f = NextFile(sender'.files)
    BY <1>0
  <2>2. \A i \in Mine' : calls'[i].file = f
    BY <1>3, <2>1 DEF NextIsSent
  <2>3. \A i \in Positions' : Kind(i)' = "done" => Arrived(f)'
    BY <1>1, <1>4, <2>1 DEF NextIsSent
  <2>4. \A a \in obexd'.active : a.file = f
    BY <2>1 DEF NextIsSent
  <2> QED
    BY <2>1, <2>2, <2>3, <2>4 DEF NextIsSent, Arrived
<1>6. \A i \in Finished' : i + d \in Finished /\ i + d # d /\ i \in Nat
  BY <1>0, <1>1 DEF Finished
<1>7. ASSUME NEW i \in Finished', NEW j \in Finished' PROVE i = j
  <2>1. i + d = j + d /\ i \in Nat /\ j \in Nat /\ d \in Nat
    BY <1>1, <1>6, <1>7 DEF OneFile
  <2> QED
    BY <2>1
<1>8. ASSUME d \in Finished PROVE Mine' = {} /\ Finished' = {} /\ obexd'.active = {}
  BY <1>3, <1>6, <1>8 DEF OneFile
<1>9. /\ Mine' = {} \/ Finished' = {}
      /\ Mine' = {} \/ obexd'.active = {}
      /\ Finished' = {} \/ obexd'.active = {}
      /\ sender.dialog # "none" => Mine' = {} /\ Finished' = {} /\ obexd'.active = {}
      /\ \A i, j \in Mine' : i = j
      /\ \A a, b \in obexd'.active : a = b
  BY <1>3, <1>6 DEF OneFile
<1>10. sender'.dialog = "none" \/ sender'.dialog = sender.dialog \/ d \in Finished => OneFile'
  BY <1>7, <1>8, <1>9 DEF OneFile
<1> QED
  BY <1>5, <1>10

\* A transfer is still there, unless its end was read.
LEMMA KeepsMoving ==
    ASSUME TypeInv, UNCHANGED <<obexd, wired>>, NEW d \in {0, 1}, Left(d)
    PROVE  /\ Moving' => Moving
           /\ Moving => \/ Moving'
                        \/ d = 1 /\ Kind(1) \in {"done", "error"} /\ wired[Message.path] > 0
<1>1. ASSUME Moving' PROVE Moving
  <2>1. PICK p \in Paths : wired'[p] > 0 /\ (IsActive(p)' \/ EndsAfter(0, p)')
    BY <1>1 DEF Moving
  <2>2. EndsAfter(0, p)' => EndsAfter(0 + d, p)
    BY WhatIsLeft
  <2>3. EndsAfter(0 + d, p) => EndsAfter(0, p)
    BY DEF EndsAfter, Left
  <2> QED
    BY <2>1, <2>2, <2>3 DEF Moving, IsActive
<1>2. ASSUME Moving PROVE Moving' \/ (d = 1 /\ Kind(1) \in {"done", "error"} /\ wired[Message.path] > 0)
  <2>1. PICK p \in Paths : wired[p] > 0 /\ (IsActive(p) \/ EndsAfter(0, p))
    BY <1>2 DEF Moving
  <2>2. CASE IsActive(p)
    BY <2>1, <2>2 DEF Moving, IsActive
  <2>3. CASE EndsAfter(0, p)
    <3>1. PICK j \in Positions : j > 0 /\ Kind(j) \in {"done", "error"} /\ queue[j].path = p
      BY <2>3 DEF EndsAfter
    <3>2. CASE j > d
      <4>1. EndsAfter(0 + d, p)
        BY <3>1, <3>2 DEF EndsAfter
      <4>2. EndsAfter(0, p)'
        BY <4>1, WhatIsLeft
      <4> QED
        BY <2>1, <4>2 DEF Moving
    <3>3. CASE ~(j > d)
      <4>1. d = 1 /\ j = 1
        BY <3>1, <3>3 DEF Left
      <4>2. queue # <<>> => queue[1] = Message
        BY FirstTaken DEF TypeInv, Message
      <4>3. queue # <<>>
        BY <4>1 DEF Positions
      <4> QED
        BY <2>1, <3>1, <4>1, <4>2, <4>3
    <3> QED
      BY <3>2, <3>3
  <2> QED
    BY <2>1, <2>2, <2>3
<1> QED
  BY <1>1, <1>2

\* Nothing is heard of, and at most the next file is asked to be sent.
LEMMA EmptyQuietly ==
    ASSUME Numbered', AskedOnce', OwnSession', StartsFirst', obexd'.active = {}, Finished' = {},
           \A i, j \in Mine' : i = j,
           \A i \in Mine' : calls'[i].file = NextFile(sender'.files),
           sender'.dialog # "none" => Mine' = {},
           sender'.transferred = 0
    PROVE  QuietInv'
<1>1. ~Moving'
  <2> SUFFICES ASSUME NEW p \in Paths, IsActive(p)' \/ EndsAfter(0, p)' PROVE FALSE
    BY DEF Moving
  <2> QED
    BY DEF IsActive, EndsAfter, Finished
<1>2. MovesRightly'
  BY <1>1 DEF MovesRightly
<1>3. OneFile'
  BY DEF OneFile
<1>4. \A i \in Positions' : Kind(i)' # "done"
  BY DEF Finished
<1>5. NextIsSent'
  BY <1>4 DEF NextIsSent
<1> QED
  BY <1>2, <1>3, <1>5 DEF QuietInv

Requests == {cs \in Seq(CallSet) : \A i \in 1 .. Len(cs) : cs[i].op # "send"}
ForASession == <<[op |-> "create"]>>

\* There is no more than one way in which the next session comes.
LEMMA KeepsAsked ==
    ASSUME TypeInv, AskedOnce, NEW d \in {0, 1}, Left(d), NEW cs \in Seq(CallSet), calls' = calls \o cs,
           \A i \in 1 .. Len(cs) : cs[i].op # "create",
           Asked # {} \/ Offered' # {} => /\ ~sender'.start /\ ~sender'.awaiting /\ ~sender'.retry
                                          /\ sender'.push = NoSession /\ sender'.dialog = "none",
           sender'.start => ~sender'.awaiting,
           sender'.start \/ sender'.awaiting => ~sender'.retry,
           sender'.start \/ sender'.awaiting \/ sender'.retry => sender'.push = NoSession /\ sender'.dialog = "none"
    PROVE  AskedOnce'
<1>1. Asked' = Asked
  <2>1. \A i \in 1 .. Len(calls) : i \in 1 .. Len(calls') /\ calls'[i] = calls[i]
    BY CallsGrow
  <2>2. \A k \in 1 .. Len(calls') : k \in 1 .. Len(calls) \/ calls'[k].op # "create"
    BY CallsGrow
  <2> QED
    BY <2>1, <2>2 DEF Asked
<1>2. (Offered = {} => Offered' = {}) /\ \A i, j \in Offered' : i = j
  BY WhatIsLeft DEF AskedOnce
<1> QED
  BY <1>1, <1>2 DEF AskedOnce

LEMMA AsksOnce ==
    ASSUME TypeInv, Asked = {}, Offered' = {}, calls' = calls \o ForASession,
           ~sender'.start, ~sender'.awaiting, ~sender'.retry, sender'.push = NoSession, sender'.dialog = "none"
    PROVE  AskedOnce'
<1> DEFINE call == [op |-> "create"]
<1>1. call \in CallSet /\ call.op = "create" /\ ForASession = <<call>>
  BY DEF CallSet, ForASession
<1> HIDE DEF call
<1>2. calls' = calls \o <<call>>
  BY <1>1
<1>3. \A i, j \in Asked' : i = j
  BY <1>1, <1>2, OneMoreCall
<1> QED
  BY <1>3 DEF AskedOnce

LEMMA SmallRequests == <<>> \in Requests /\ ForASession \in Requests
<1>1. [op |-> "create"] \in CallSet
  BY DEF CallSet
<1> QED
  BY <1>1 DEF Requests, ForASession

\* Neither the session nor the files of the Sender change, and it asks for no transfer.
LEMMA FlagsQuietly ==
    ASSUME TypeInv, Calm, QuietInv, AskedOnce', UNCHANGED <<world, obexd, wired, sent, skipped>>,
           NEW d \in {0, 1}, Left(d), NEW cs \in Requests, calls' = calls \o cs,
           sender'.push = sender.push, sender'.files = sender.files,
           sender'.transferred = sender.transferred, sender'.last = sender.last,
           \/ /\ sender'.dialog = sender.dialog
              /\ d = 1 /\ Kind(1) \in {"done", "error"} => wired[Message.path] = 0
           \/ sender'.dialog # "none" /\ d \in Finished
    PROVE  QuietInv'
<1>0. /\ Numbered /\ AskedOnce /\ OwnSession /\ OneFile /\ StartsFirst /\ MovesRightly /\ NextIsSent
      /\ cs \in Seq(CallSet) /\ \A i \in 1 .. Len(cs) : cs[i].op # "send"
  BY DEF QuietInv, Requests
<1>1. Numbered'
  BY <1>0, KeepsNumbered DEF Numbered
<1>2. OwnSession'
  BY <1>0, KeepsOwn
<1>3. StartsFirst'
  BY <1>0, KeepsStarts
<1>4. NextIsSent' /\ OneFile'
  BY <1>0, KeepsFile
<1>5. MovesRightly'
  <2>1. Moving' => Moving
    BY KeepsMoving
  <2>2. CASE /\ sender'.dialog = sender.dialog
             /\ d = 1 /\ Kind(1) \in {"done", "error"} => wired[Message.path] = 0
    <3>1. Moving => Moving'
      BY <2>2, KeepsMoving
    <3> QED
      BY <1>0, <2>1, <2>2, <3>1 DEF MovesRightly
  <2>3. CASE sender'.dialog # "none"
    BY <1>0, <2>1, <2>3 DEF MovesRightly
  <2> QED
    BY <2>2, <2>3
<1> QED
  BY <1>1, <1>2, <1>3, <1>4, <1>5 DEF QuietInv

LEMMA TruthKept ==
    ASSUME TruthInv, obexd'.noise = 0 => obexd.noise = 0, sender'.files = sender.files, SameCounts(sender, sender'),
           sender'.result = sender.result \/ sender'.result # "sent",
           sent \subseteq sent', skipped \subseteq skipped'
    PROVE  TruthInv'
<1>1. \A f : Arrived(f) => Arrived(f)'
  BY DEF Arrived
<1>2. PICK files : files = sender.files /\ files = sender'.files
  OBVIOUS
<1>3. AllArrive => AllArrive'
  <2> SUFFICES ASSUME AllArrive PROVE AllArrive'
    OBVIOUS
  <2>1. \A n \in 1 .. Len(Files) : n > Len(files) => \E f : f = Files[n] /\ Arrived(f)
    BY <1>2 DEF AllArrive
  <2>2. \A n \in 1 .. Len(Files) : n > Len(files) => Arrived(Files[n])'
    <3> SUFFICES ASSUME NEW n \in 1 .. Len(Files), n > Len(files) PROVE Arrived(Files[n])'
      OBVIOUS
    <3>1. PICK f : f = Files[n] /\ Arrived(f)
      BY <2>1
    <3>2. Arrived(f)'
      BY <1>1, <3>1
    <3> QED
      BY <3>1, <3>2 DEF Arrived
  <2>3. sender'.result = "sent" => files = <<>>
    BY <1>2 DEF AllArrive
  <2> QED
    BY <1>2, <2>2, <2>3 DEF AllArrive
<1>4. Counted => Counted'
  BY DEF Counted, SameCounts
<1> QED
  BY <1>3, <1>4 DEF TruthInv

\* The steps before there is a session.
LEMMA FlagSteps ==
    ASSUME TypeInv, Calm, QuietInv, TruthInv,
           StartSendSession \/ DeviceReady \/ DeviceConnectAnswers \/ RetryTimeout \/ SessionFailed
    PROVE  QuietInv' /\ TruthInv'
<1>0. /\ sender \in SenderState /\ AskedOnce
      /\ calls = calls \o <<>> /\ <<>> \in Requests /\ ForASession \in Requests
  <2>1. calls = calls \o <<>>
    BY DEF TypeInv
  <2> QED
    BY <2>1, SmallRequests DEF TypeInv, QuietInv
<1>f. ASSUME NEW d \in {0, 1}, Left(d), AskedOnce', UNCHANGED <<world, obexd, wired, sent, skipped>>,
             calls' = calls \o <<>> \/ calls' = calls \o ForASession,
             d = 1 => Kind(1) \notin {"done", "error"},
             sender'.push = sender.push, sender'.dialog = sender.dialog, sender'.files = sender.files,
             SameCounts(sender, sender'), sender'.result = sender.result
      PROVE  QuietInv' /\ TruthInv'
  <2>1. PICK cs \in Requests : calls' = calls \o cs
    BY <1>0, <1>f
  <2>2. QuietInv'
    BY <1>f, <2>1, FlagsQuietly DEF SameCounts
  <2>3. TruthInv'
    BY <1>f, TruthKept
  <2> QED
    BY <2>2, <2>3
<1>k. ASSUME UNCHANGED queue PROVE Left(0) /\ Offered' = Offered
  BY <1>k, Reading, WhatIsLeft
<1>n. <<>> \in Seq(CallSet) /\ \A i \in 1 .. Len(<<>>) : FALSE
  BY SmallRequests DEF Requests
<1>1. CASE StartSendSession
  <2> DEFINE s == [sender EXCEPT !.start = FALSE, !.awaiting = ~device.ready]
  <2>1. /\ UNCHANGED <<world, obexd, queue, wired, sent, skipped>>
        /\ Do(IF device.ready THEN CreateSession(s) ELSE Step(s, <<>>)) /\ sender.start
    BY <1>1 DEF StartSendSession
  <2>2. /\ s.push = sender.push /\ s.files = sender.files /\ s.awaiting = ~device.ready /\ s.dialog = sender.dialog
        /\ s.start = FALSE /\ s.retry = sender.retry /\ SameCounts(sender, s) /\ s.result = sender.result
    BY <1>0 DEF SenderState, SenderRecords, SameCounts
  <2> HIDE DEF s
  <2>3. sender' = s /\ calls' = calls \o (IF device.ready THEN ForASession ELSE <<>>)
    BY <2>1 DEF Do, CreateSession, Step, ForASession
  <2>4. /\ Asked = {} /\ Offered = {} /\ ~sender.retry /\ sender.push = NoSession /\ sender.dialog = "none"
    BY <1>0, <2>1 DEF AskedOnce
  <2>5. AskedOnce'
    <3>1. CASE device.ready
      <4>1. calls' = calls \o ForASession
        BY <2>3, <3>1
      <4> QED
        BY <1>k, <2>1, <2>2, <2>3, <2>4, <3>1, <4>1, AsksOnce
    <3>2. CASE ~device.ready
      <4>1. calls' = calls \o <<>>
        BY <2>3, <3>2
      <4> QED
        BY <1>0, <1>k, <1>n, <2>1, <2>2, <2>3, <2>4, <3>2, <4>1, KeepsAsked
    <3> QED
      BY <3>1, <3>2
  <2>6. calls' = calls \o <<>> \/ calls' = calls \o ForASession
    BY <2>3
  <2> QED
    BY <1>f, <1>k, <2>1, <2>2, <2>3, <2>5, <2>6
<1>2. CASE DeviceReady
  <2> DEFINE s == [sender EXCEPT !.awaiting = FALSE]
  <2>1. /\ UNCHANGED <<world, obexd, queue, wired, sent, skipped>>
        /\ Do(IF sender.awaiting THEN CreateSession(s) ELSE Step(sender, <<>>))
    BY <1>2 DEF DeviceReady
  <2>2. /\ s.push = sender.push /\ s.files = sender.files /\ s.awaiting = FALSE /\ s.dialog = sender.dialog
        /\ s.start = sender.start /\ s.retry = sender.retry /\ SameCounts(sender, s) /\ s.result = sender.result
    BY <1>0 DEF SenderState, SenderRecords, SameCounts
  <2> HIDE DEF s
  <2>3. sender' = (IF sender.awaiting THEN s ELSE sender)
        /\ calls' = calls \o (IF sender.awaiting THEN ForASession ELSE <<>>)
    BY <2>1 DEF Do, CreateSession, Step, ForASession
  <2>4. CASE sender.awaiting
    <3>1. calls' = calls \o ForASession /\ sender' = s
      BY <2>3, <2>4
    <3>2. /\ Asked = {} /\ Offered = {} /\ ~sender.retry /\ sender.push = NoSession /\ sender.dialog = "none"
          /\ ~sender.start
      BY <1>0, <2>4 DEF AskedOnce
    <3>3. AskedOnce'
      BY <1>k, <2>1, <2>2, <3>1, <3>2, AsksOnce
    <3> QED
      BY <1>f, <1>k, <2>1, <2>2, <3>1, <3>3
  <2>5. CASE ~sender.awaiting
    <3>1. calls' = calls \o <<>> /\ sender' = sender
      BY <2>3, <2>5
    <3>2. AskedOnce'
      BY <1>0, <2>1, <3>1 DEF AskedOnce, Asked, Offered, Positions, Kind
    <3> QED
      BY <1>f, <1>k, <2>1, <3>1, <3>2 DEF SameCounts
  <2> QED
    BY <2>4, <2>5
<1>3. CASE DeviceConnectAnswers
  <2> DEFINE s == [sender EXCEPT !.awaiting = FALSE, !.fatal = TRUE]
  <2>1. /\ UNCHANGED <<world, obexd, queue, wired, sent, skipped>> /\ calls' = calls \o <<>> /\ sender' \in {sender, s}
    BY <1>0, <1>3 DEF DeviceConnectAnswers
  <2>2. /\ s.push = sender.push /\ s.files = sender.files /\ s.awaiting = FALSE /\ s.dialog = sender.dialog
        /\ s.start = sender.start /\ s.retry = sender.retry /\ SameCounts(sender, s) /\ s.result = sender.result
    BY <1>0 DEF SenderState, SenderRecords, SameCounts
  <2> HIDE DEF s
  <2>3. /\ sender'.push = sender.push /\ sender'.files = sender.files /\ sender'.dialog = sender.dialog
        /\ sender'.start = sender.start /\ sender'.retry = sender.retry /\ SameCounts(sender, sender')
        /\ sender'.result = sender.result /\ sender'.awaiting \in {FALSE, sender.awaiting}
    BY <2>1, <2>2 DEF SameCounts
  <2>4. AskedOnce'
    BY <1>0, <1>k, <1>n, <2>1, <2>3, KeepsAsked DEF AskedOnce
  <2> QED
    BY <1>f, <1>k, <2>1, <2>3, <2>4
<1>4. CASE RetryTimeout
  <2> DEFINE s == [sender EXCEPT !.retry = FALSE]
  <2>1. UNCHANGED <<world, obexd, queue, wired, sent, skipped>> /\ Do(CreateSession(s)) /\ sender.retry
    BY <1>4 DEF RetryTimeout
  <2>2. /\ s.push = sender.push /\ s.files = sender.files /\ s.awaiting = sender.awaiting /\ s.dialog = sender.dialog
        /\ s.start = sender.start /\ s.retry = FALSE /\ SameCounts(sender, s) /\ s.result = sender.result
    BY <1>0 DEF SenderState, SenderRecords, SameCounts
  <2> HIDE DEF s
  <2>3. sender' = s /\ calls' = calls \o ForASession
    BY <2>1 DEF Do, CreateSession, Step, ForASession
  <2>4. /\ Asked = {} /\ Offered = {} /\ ~sender.start /\ ~sender.awaiting /\ sender.push = NoSession
        /\ sender.dialog = "none"
    BY <1>0, <2>1 DEF AskedOnce
  <2>5. AskedOnce'
    BY <1>k, <2>1, <2>2, <2>3, <2>4, AsksOnce
  <2> QED
    BY <1>f, <1>k, <2>1, <2>2, <2>3, <2>5
<1>5. CASE SessionFailed
  <2>0. Receive("failed") /\ UNCHANGED <<world, obexd, wired, sent, skipped>>
    BY <1>5 DEF SessionFailed
  <2>1. PICK n \in Fallbacks : Do(OnSessionFailed(sender, n))
    BY <1>5 DEF SessionFailed
  <2>2. /\ sender'.push = sender.push /\ sender'.files = sender.files /\ sender'.dialog = sender.dialog
        /\ SameCounts(sender, sender') /\ sender'.result = sender.result /\ calls' = calls \o <<>>
        /\ sender'.start = sender.start /\ sender'.awaiting = sender.awaiting
    BY <1>0, <2>1, FailedIs DEF Do
  <2>3. Left(1) /\ 1 \in Positions /\ Kind(1) = "failed"
    BY <2>0, Reading
  <2>4. 1 \in Offered
    BY <2>3 DEF Offered
  <2>5. /\ Asked = {} /\ ~sender.start /\ ~sender.awaiting /\ sender.push = NoSession /\ sender.dialog = "none"
    BY <1>0, <2>4 DEF AskedOnce
  <2>6. Offered' = {}
    BY <1>0, <2>3, <2>4, WhatIsLeft DEF AskedOnce
  <2>7. AskedOnce'
    BY <1>0, <1>n, <2>2, <2>3, <2>5, <2>6, KeepsAsked
  <2> QED
    BY <1>f, <2>0, <2>2, <2>3, <2>7
<1> QED
  BY <1>1, <1>2, <1>3, <1>4, <1>5

\* The counts after a transfer that was lost, or given up.
LEMMA TruthReset ==
    ASSUME TypeInv, TypeInv', TruthInv, UNCHANGED obexd, sender'.files = sender.files, sender'.bytes = sender.bytes,
           sender'.total = sender.total - sender.transferred, sender'.transferred = 0,
           sender'.result = sender.result, UNCHANGED <<sent, skipped>>
    PROVE  TruthInv'
<1>1. Counted => Counted'
  <2>1. /\ sender.total \in Int /\ sender.transferred \in {0, 1} /\ sender.bytes \in Int /\ Len(sender.files) \in Nat
    BY SenderFields, ListFacts DEF TypeInv
  <2> QED
    BY <2>1 DEF Counted
<1>2. AllArrive => AllArrive'
  BY DEF AllArrive, Arrived
<1> QED
  BY <1>1, <1>2 DEF TruthInv

\* A session is there: the next file is asked to be sent.
LEMMA AddedQuietly ==
    ASSUME TypeInv, WaitInv, Calm, QuietInv, TruthInv, SessionAdded
    PROVE  QuietInv' /\ TruthInv'
<1>0. /\ Numbered /\ AskedOnce /\ OwnSession /\ OneFile /\ StartsFirst /\ MovesRightly /\ NextIsSent
      /\ sender \in SenderState /\ sender.files \in Lists /\ sender.files # <<>>
      /\ Receive("added") /\ UNCHANGED <<world, obexd, wired, sent, skipped>>
  BY SenderFields DEF QuietInv, TypeInv, WaitInv, Calm, SessionAdded
<1>1. /\ Left(1) /\ 1 \in Positions /\ Kind(1) = "added" /\ queue[1] = Message
      /\ Message \in MessageSet /\ Message.kind = "added"
  BY <1>0, Reading
<1>2. PICK session \in Owners : session = Message.session /\ Do(OnSessionAdded(sender, session))
  BY <1>1, SentFields DEF SessionAdded
<1>3. /\ sender'.start = sender.start /\ sender'.awaiting = sender.awaiting /\ sender'.retry = FALSE
      /\ sender'.dialog = sender.dialog /\ sender'.push = session /\ sender'.files = sender.files
      /\ SameCounts(sender, sender') /\ sender'.result = ResultOf(sender.result, sender.files)
      /\ calls' = calls \o NextSend(session, sender.files)
  BY <1>0, <1>2, AddedIs DEF Do
<1>4. session # NoSession /\ NoSession \notin Owners
  BY SendingConstants
<1> DEFINE call == SendCall(session, NextFile(sender.files))
           cs == <<call>>
<1>5. call \in CallSet /\ call.op = "send" /\ call.session = session /\ call.file = NextFile(sender.files)
  BY <1>0, ListFacts DEF SendCall, CallSet
<1>6. calls' = calls \o cs
  BY <1>0, <1>3, <1>4 DEF NextSend
<1> HIDE DEF call
<1>7. cs \in Seq(CallSet) /\ \A i \in 1 .. Len(cs) : cs[i].op = "send" /\ cs[i].session = session
  BY <1>5
<1>8. /\ Asked = {} /\ Offered' = {} /\ ~sender.start /\ ~sender.awaiting
      /\ sender.push = NoSession /\ sender.dialog = "none"
  <2>1. 1 \in Offered
    BY <1>1 DEF Offered
  <2>2. Offered' = {}
    BY <1>0, <1>1, <2>1, WhatIsLeft DEF AskedOnce
  <2> QED
    BY <1>0, <2>1, <2>2 DEF AskedOnce
<1>9. \A p \in Paths : p[1] \in Owners
  BY DEF Paths, Owners
<1>10. \A i \in Positions : Kind(i) \notin Reports
  <2> SUFFICES ASSUME NEW i \in Positions, Kind(i) \in Reports PROVE FALSE
    OBVIOUS
  <2>1. queue[i] \in MessageSet
    BY DEF TypeInv, Positions
  <2>2. queue[i].path \in Paths
    BY <2>1, SentFields DEF Kind, Reports
  <2>3. queue[i].path[1] = NoSession
    BY <1>0, <1>8 DEF OwnSession
  <2> QED
    BY <1>4, <1>9, <2>2, <2>3
<1>11. obexd.active = {}
  <2>1. \A a \in obexd.active : a.path \in Paths
    BY ObexdFields DEF TypeInv
  <2> QED
    BY <1>0, <1>4, <1>8, <1>9, <2>1 DEF OwnSession
<1>12. session \in Past /\ SendsTo(session) = {}
       /\ \A j \in Positions : Kind(j) = "sendfailed" => queue[j].session # session
  <2>1. session = queue[1].session
    BY <1>1, <1>2
  <2>2. queue[1].session \in Past /\ SendsTo(queue[1].session) = {}
        /\ \A j \in Positions : Kind(j) = "sendfailed" => queue[j].session # queue[1].session
    BY <1>0, <1>1 DEF Numbered, OwnSession
  <2> QED
    BY <2>1, <2>2
<1>13. \A i \in Positions' : i + 1 \in Positions /\ queue'[i] = queue[i + 1] /\ Kind(i)' = Kind(i + 1)
  BY <1>1, WhatIsLeft DEF Left
<1>14. Numbered'
  BY <1>0, <1>1, <1>3, <1>6, <1>7, <1>12, KeepsNumbered
<1>15. OwnSession'
  <2>1. sender.push \notin obexd.sessions
    BY <1>4, <1>8, ObexdFields DEF TypeInv
  <2>2. \A i \in Positions' : Kind(i)' \notin Reports
    BY <1>10, <1>13
  <2> QED
    BY <1>0, <1>1, <1>3, <1>6, <1>7, <1>8, <1>11, <2>1, <2>2, KeepsOwn
<1>16. StartsFirst'
  BY <1>0, <1>1, KeepsStarts
<1>17. AskedOnce'
  <2>1. \A i \in 1 .. Len(cs) : cs[i].op # "create"
    BY <1>7
  <2> QED
    BY <1>0, <1>1, <1>3, <1>6, <1>7, <1>8, <2>1, KeepsAsked
<1>18. Finished' = {}
  BY <1>3, <1>10, <1>12, <1>13 DEF Finished, Reports
<1>19. \A i, j \in Mine' : i = j /\ calls'[i] = call
  <2>1. \A i, j \in SendsTo(session)' : i = j /\ calls'[i] = call
    BY <1>5, <1>6, <1>12, OneMoreCall
  <2>2. Mine' = SendsTo(session)'
    BY <1>3 DEF Mine, SendsTo
  <2> QED
    BY <2>1, <2>2
<1>20. sender'.transferred = 0
  <2>1. ~Moving
    <3>1. \A p : ~IsActive(p) /\ ~EndsAfter(0, p)
      BY <1>10, <1>11 DEF IsActive, EndsAfter, Reports
    <3> QED
      BY <3>1 DEF Moving
  <2> QED
    BY <1>0, <1>3, <1>8, <2>1, SenderFields DEF MovesRightly, SameCounts
<1>21. QuietInv'
  BY <1>0, <1>3, <1>5, <1>8, <1>11, <1>14, <1>15, <1>16, <1>17, <1>18, <1>19, <1>20, EmptyQuietly
<1>22. TruthInv'
  BY <1>0, <1>3, TruthKept DEF ResultOf
<1> QED
  BY <1>21, <1>22

\* A session has ended.
LEMMA RemovedQuietly ==
    ASSUME TypeInv, TypeInv', WaitInv, Calm, QuietInv, TruthInv, SessionRemoved
    PROVE  QuietInv' /\ TruthInv'
<1>0. /\ Numbered /\ AskedOnce /\ OwnSession /\ OneFile /\ StartsFirst /\ MovesRightly /\ NextIsSent
      /\ sender \in SenderState /\ sender.files \in Lists /\ sender.files # <<>> /\ SessionsKnown
      /\ Receive("removed") /\ UNCHANGED <<world, obexd, wired, sent, skipped>>
      /\ Do(OnSessionRemoved(sender, Message.session))
      /\ calls = calls \o <<>> /\ <<>> \in Requests /\ ForASession \in Requests
  <2>1. calls = calls \o <<>>
    BY DEF TypeInv
  <2> QED
    BY <2>1, SmallRequests, SenderFields DEF QuietInv, TypeInv, WaitInv, Calm, SessionRemoved
<1>1. /\ Left(1) /\ 1 \in Positions /\ Kind(1) = "removed" /\ queue[1] = Message
      /\ Message \in MessageSet /\ Message.kind = "removed"
  BY <1>0, Reading
<1>n. <<>> \in Seq(CallSet) /\ \A i \in 1 .. Len(<<>>) : FALSE
  BY SmallRequests DEF Requests
<1>2. CASE sender.push # Message.session
  <2>1. sender' = sender /\ calls' = calls \o <<>>
    <3>1. OnSessionRemoved(sender, Message.session) = Step(sender, <<>>)
      BY <1>2, OtherRemovedIs
    <3> QED
      BY <1>0, <3>1 DEF Do, Step
  <2>2. Offered = {} => Offered' = {}
    BY <1>1, WhatIsLeft
  <2>3. AskedOnce'
    BY <1>0, <1>1, <1>n, <2>1, <2>2, KeepsAsked DEF AskedOnce
  <2>4. QuietInv'
    BY <1>0, <1>1, <2>1, <2>3, FlagsQuietly
  <2>5. TruthInv'
    BY <1>0, <2>1, TruthKept DEF SameCounts
  <2> QED
    BY <2>4, <2>5
<1>3. CASE sender.push = Message.session
  <2>1. /\ sender'.start = sender.start /\ sender'.awaiting = sender.awaiting /\ sender'.retry = sender.retry
        /\ sender'.dialog = sender.dialog /\ sender'.push = NoSession
        /\ sender'.files = sender.files /\ sender'.bytes = sender.bytes /\ sender'.result = sender.result
        /\ sender'.transferred = 0
        /\ sender'.total = IF sender.total < sender.transferred THEN 0 ELSE sender.total - sender.transferred
        /\ calls' = calls \o (IF sender.dialog # "none" THEN <<>> ELSE ForASession)
    BY <1>0, <1>3, RemovedIs DEF Do, ForASession
  <2>2. sender.push \in Owners /\ sender.push # NoSession /\ NoSession \notin Owners
    BY <1>1, <1>3, SentFields, SendingConstants
  <2>3. PICK cs \in Requests : calls' = calls \o cs
    BY <1>0, <2>1
  <2>4. /\ sender.push \notin obexd.sessions
        /\ \A j \in Positions : j > 1 => Kind(j) \notin Reports
    <3>1. /\ queue[1].session \notin obexd.sessions
          /\ \A j \in Positions : j > 1 /\ Kind(j) \in Reports => queue[j].path[1] # queue[1].session
      BY <1>0, <1>1 DEF OwnSession
    <3>2. \A j \in Positions : Kind(j) \in Reports => queue[j].path[1] = sender.push
      BY <1>0 DEF OwnSession
    <3> QED
      BY <1>1, <1>3, <3>1, <3>2
  <2>5. obexd.active = {}
    BY <1>0, <2>4 DEF OwnSession, SessionsKnown
  <2>6. \A i \in Positions' : i + 1 \in Positions /\ i + 1 > 1 /\ queue'[i] = queue[i + 1] /\ Kind(i)' = Kind(i + 1)
    BY <1>1, WhatIsLeft DEF Left
  <2>7. \A i \in Positions' : Kind(i)' \notin Reports
    BY <2>4, <2>6
  <2>8. cs \in Seq(CallSet) /\ \A i \in 1 .. Len(cs) : cs[i].op # "send"
    BY DEF Requests
  <2>9. Numbered'
    BY <1>0, <1>1, <2>1, <2>3, <2>8, KeepsNumbered
  <2>10. OwnSession'
    BY <1>0, <1>1, <2>3, <2>4, <2>5, <2>7, <2>8, KeepsOwn
  <2>11. StartsFirst'
    BY <1>0, <1>1, KeepsStarts
  <2>12. /\ Asked = {} /\ Offered = {} /\ ~sender.start /\ ~sender.awaiting /\ ~sender.retry
    BY <1>0, <2>2 DEF AskedOnce
  <2>13. Offered' = {}
    BY <1>1, <2>12, WhatIsLeft
  <2>14. AskedOnce'
    <3>1. CASE sender.dialog = "none"
      <4>1. calls' = calls \o ForASession
        BY <2>1, <3>1
      <4> QED
        BY <2>1, <2>12, <2>13, <3>1, <4>1, AsksOnce
    <3>2. CASE sender.dialog # "none"
      <4>1. calls' = calls \o <<>>
        BY <2>1, <3>2
      <4> QED
        BY <1>0, <1>1, <1>n, <2>1, <2>12, <2>13, <4>1, KeepsAsked
    <3> QED
      BY <3>1, <3>2
  <2>15. Finished' = {}
    <3>1. \A i \in Positions' : queue'[i] \in MessageSet
      BY DEF TypeInv, Positions
    <3>2. \A i \in Positions' : Kind(i)' = "sendfailed" => queue'[i].session # NoSession
      BY <2>2, <3>1, SentFields DEF Kind
    <3> QED
      BY <2>1, <2>7, <3>2 DEF Finished, Reports
  <2>16. Mine' = {}
    <3>1. \A i \in 1 .. Len(calls') : calls'[i] \in CallSet
      BY DEF TypeInv
    <3>2. \A i \in 1 .. Len(calls') : calls'[i].op = "send" => calls'[i].session # NoSession
      BY <2>2, <3>1, SentFields
    <3> QED
      BY <2>1, <3>2 DEF Mine, SendsTo
  <2>17. QuietInv'
    BY <1>0, <2>1, <2>5, <2>9, <2>10, <2>11, <2>14, <2>15, <2>16, EmptyQuietly
  <2>18. TruthInv'
    <3>1. sender.total \in Int /\ sender.transferred \in {0, 1} /\ sender.transferred <= sender.total
      BY <1>0, SenderFields DEF TruthInv, Counted, Calm
    <3>2. sender'.total = sender.total - sender.transferred
      BY <2>1, <3>1
    <3> QED
      BY <1>0, <2>1, <3>2, TruthReset
  <2> QED
    BY <2>17, <2>18
<1> QED
  BY <1>2, <1>3

\* A message is ignored.
LEMMA ReadQuietly ==
    ASSUME TypeInv, Calm, QuietInv, TruthInv, NEW kind, Receive(kind), kind \notin {"added", "failed"},
           UNCHANGED <<world, obexd, wired, sent, skipped, sender>>, Do(Step(sender, <<>>)),
           kind \in {"done", "error"} => wired[Message.path] = 0
    PROVE  QuietInv' /\ TruthInv'
<1>1. /\ Left(1) /\ 1 \in Positions /\ Kind(1) = kind
      /\ calls' = calls \o <<>> /\ <<>> \in Requests /\ AskedOnce
  BY Reading, SmallRequests DEF Do, Step, QuietInv
<1>n. <<>> \in Seq(CallSet) /\ \A i \in 1 .. Len(<<>>) : FALSE
  BY SmallRequests DEF Requests
<1>2. Offered = {} => Offered' = {}
  BY <1>1, WhatIsLeft
<1>3. AskedOnce'
  BY <1>1, <1>2, <1>n, KeepsAsked DEF AskedOnce
<1>4. QuietInv'
  BY <1>1, <1>3, FlagsQuietly
<1>5. TruthInv'
  BY TruthKept DEF SameCounts
<1> QED
  BY <1>4, <1>5

\* A transfer has failed, and the user is asked.
LEMMA AsksQuietly ==
    ASSUME TypeInv, WaitInv, Calm, QuietInv, TruthInv, NEW kind, Receive(kind), 1 \in Finished,
           sender.push # NoSession,
           UNCHANGED <<world, obexd, wired, sent, skipped>>, Do(OnTransferError(sender))
    PROVE  QuietInv' /\ TruthInv'
<1>0. sender \in SenderState /\ sender.push \in Owners /\ OneFile /\ AskedOnce
  BY SenderFields DEF TypeInv, QuietInv
<1>1. sender.dialog = "none"
  BY <1>0 DEF OneFile
<1>2. /\ sender'.start = sender.start /\ sender'.awaiting = sender.awaiting /\ sender'.retry = sender.retry
      /\ sender'.push = sender.push /\ sender'.dialog # "none" /\ sender'.files = sender.files
      /\ SameCounts(sender, sender') /\ sender'.result = sender.result
      /\ calls' = calls \o RemoveSession(sender)
  BY <1>0, <1>1, ErrorIs DEF Do
<1> DEFINE call == [op |-> "remove", session |-> sender.push]
           cs == <<call>>
<1>3. call \in CallSet /\ call.op = "remove" /\ RemoveSession(sender) = cs
  BY <1>0 DEF CallSet, RemoveSession
<1>4. calls' = calls \o cs
  BY <1>2, <1>3
<1> HIDE DEF call
<1>5. cs \in Seq(CallSet) /\ \A i \in 1 .. Len(cs) : cs[i].op = "remove"
  BY <1>3
<1> HIDE DEF cs
<1>6. cs \in Requests
  BY <1>5 DEF Requests
<1>7. Left(1)
  BY Reading
<1>8. /\ Asked = {} /\ Offered = {} /\ ~sender.start /\ ~sender.awaiting /\ ~sender.retry
  BY <1>0 DEF AskedOnce
<1>9. Offered' = {}
  BY <1>7, <1>8, WhatIsLeft
<1>10. AskedOnce'
  BY <1>0, <1>2, <1>4, <1>5, <1>7, <1>8, <1>9, KeepsAsked
<1>11. QuietInv'
  BY <1>2, <1>4, <1>6, <1>7, <1>10, FlagsQuietly DEF SameCounts
<1>12. TruthInv'
  BY <1>2, TruthKept
<1> QED
  BY <1>11, <1>12

\* What is known when the Sender reads of a transfer that has not ended yet.
LEMMA UnderWay ==
    ASSUME TypeInv, QuietInv, Calm, NEW kind \in {"started", "progress"}, Receive(kind)
    PROVE  /\ \E p \in Paths : p = Message.path /\ (IsActive(p) \/ EndsAfter(1, p))
           /\ sender.dialog = "none"
           /\ kind = "started" => /\ sender.transferred = 0 /\ Begun(Message.path) /\ wired[Message.path] = 0
                                  /\ Message.session = sender.push
<1>0. /\ Numbered /\ OwnSession /\ OneFile /\ StartsFirst /\ MovesRightly
      /\ Left(1) /\ 1 \in Positions /\ Kind(1) = kind /\ queue[1] = Message
      /\ Message \in MessageSet /\ Message.kind = kind
  BY Reading DEF QuietInv
<1>1. PICK p \in Paths : p = queue[1].path
  BY <1>0, SentFields
<1>2. IsActive(p) \/ EndsAfter(1, p)
  BY <1>0, <1>1 DEF StartsFirst
<1>3. EndsAfter(1, p) => \E i \in Finished : queue[i].path = p
  BY DEF EndsAfter, Finished
<1>4. IsActive(p) => \E a \in obexd.active : a.path = p
  BY DEF IsActive
<1>5. sender.dialog = "none"
  BY <1>0, <1>2, <1>3, <1>4 DEF OneFile
<1>6. ASSUME kind = "started"
      PROVE  /\ sender.transferred = 0 /\ Begun(queue[1].path) /\ wired[queue[1].path] = 0
             /\ queue[1].session = sender.push
  <2>1. Begun(queue[1].path) /\ wired[queue[1].path] = 0 /\ queue[1].session = sender.push
    BY <1>0, <1>6 DEF Numbered, StartsFirst, OwnSession
  <2>2. ~Moving
    <3> SUFFICES ASSUME NEW q \in Paths, wired[q] > 0, IsActive(q) \/ EndsAfter(0, q) PROVE FALSE
      BY DEF Moving
    <3>1. q # p
      BY <1>1, <2>1
    <3>2. EndsAfter(0, q) => \E i \in Finished : queue[i].path = q
      BY DEF EndsAfter, Finished
    <3>3. IsActive(q) => \E a \in obexd.active : a.path = q
      BY DEF IsActive
    <3>4. CASE IsActive(p) /\ IsActive(q)
      BY <1>0, <1>4, <3>1, <3>3, <3>4 DEF OneFile
    <3>5. CASE IsActive(p) /\ EndsAfter(0, q)
      BY <1>0, <1>4, <3>2, <3>5 DEF OneFile
    <3>6. CASE EndsAfter(1, p) /\ IsActive(q)
      BY <1>0, <1>3, <3>3, <3>6 DEF OneFile
    <3>7. CASE EndsAfter(1, p) /\ EndsAfter(0, q)
      BY <1>0, <1>3, <3>1, <3>2, <3>7 DEF OneFile
    <3> QED
      BY <1>2, <3>4, <3>5, <3>6, <3>7
  <2>3. sender.transferred = 0
    BY <1>0, <1>5, <2>2, SenderFields DEF MovesRightly, TypeInv
  <2> QED
    BY <2>1, <2>3
<1> QED
  BY <1>0, <1>1, <1>2, <1>5, <1>6

\* The Sender hears of a transfer that has not ended, and does nothing but count.
LEMMA CountingQuietly ==
    ASSUME TypeInv, Calm, QuietInv, NEW kind \in {"started", "progress"}, Receive(kind),
           UNCHANGED <<world, obexd, sent, skipped>>, calls' = calls \o <<>>,
           SameWaits(sender, sender'), sender'.files = sender.files,
           UNCHANGED wired \/ kind = "started",
           \A p \in Paths : wired'[p] = wired[p] \/ (wired'[p] = 1 /\ Begun(p)),
           MovesRightly'
    PROVE  QuietInv'
<1>0. /\ Numbered /\ AskedOnce /\ OwnSession /\ OneFile /\ StartsFirst /\ NextIsSent
      /\ Left(1) /\ 1 \in Positions /\ Kind(1) = kind
  BY Reading DEF QuietInv
<1>n. <<>> \in Seq(CallSet) /\ \A i \in 1 .. Len(<<>>) : FALSE
  BY SmallRequests DEF Requests
<1>1. Offered = {} => Offered' = {}
  BY <1>0, WhatIsLeft
<1>2. Numbered'
  BY <1>0, <1>n, KeepsNumbered DEF Numbered, SameWaits
<1>3. AskedOnce'
  BY <1>0, <1>1, <1>n, KeepsAsked DEF AskedOnce, SameWaits
<1>4. OwnSession'
  BY <1>0, <1>n, KeepsOwn DEF SameWaits
<1>5. StartsFirst'
  BY <1>0, KeepsStarts
<1>6. OneFile' /\ NextIsSent'
  BY <1>0, <1>n, KeepsFile DEF SameWaits
<1> QED
  BY <1>2, <1>3, <1>4, <1>5, <1>6 DEF QuietInv

\* What the Sender hears of its transfers before their end.
LEMMA TransferSteps ==
    ASSUME TypeInv, TypeInv', WaitInv, Calm, QuietInv, TruthInv,
           TransferStarted \/ TransferFailed \/ TransferProgress \/ TransferError
    PROVE  QuietInv' /\ TruthInv'
<1>0. /\ sender \in SenderState /\ wired \in [Paths -> Nat] /\ calls = calls \o <<>>
      /\ Numbered /\ OwnSession /\ MovesRightly /\ Counted /\ sender.files # <<>>
  <2>1. calls = calls \o <<>>
    BY DEF TypeInv
  <2> QED
    BY <2>1 DEF TypeInv, QuietInv, TruthInv, WaitInv, Calm
<1>1. NoSession \notin Owners /\ \A p \in Paths : p[1] \in Owners
  BY SendingConstants DEF Paths, Owners
<1>2. CASE TransferStarted
  <2>1. Receive("started") /\ UNCHANGED <<world, obexd, sent, skipped>>
    BY <1>2 DEF TransferStarted
  <2>2. PICK p \in Paths : p = Message.path /\ Begun(p) /\ wired[p] = 0
    BY <2>1, UnderWay
  <2>3. sender.transferred = 0 /\ Message.session = sender.push
    BY <2>1, UnderWay
  <2>4. sender' = OnTransferStarted(sender) /\ calls' = calls \o <<>> /\ wired' = [wired EXCEPT ![p] = @ + 1]
    BY <1>2, <2>2, <2>3 DEF TransferStarted, Do, Step
  <2>5. /\ SameWaits(sender, sender') /\ sender'.files = sender.files /\ sender'.bytes = sender.bytes
        /\ sender'.total = sender.total /\ sender'.transferred = 0 /\ sender'.last = 0
        /\ sender'.result = sender.result
    BY <1>0, <2>4, ProgressIs
  <2>6. \A q \in Paths : wired'[q] = wired[q] \/ (wired'[q] = 1 /\ Begun(q))
    BY <1>0, <2>2, <2>4
  <2>7. MovesRightly'
    BY <2>5 DEF MovesRightly
  <2>8. QuietInv'
    BY <2>1, <2>4, <2>5, <2>6, <2>7, CountingQuietly
  <2>9. sender'.total = sender.total - sender.transferred
    BY <1>0, <2>3, <2>5, SenderFields
  <2>10. TruthInv'
    BY <2>1, <2>5, <2>9, TruthReset
  <2> QED
    BY <2>8, <2>10
<1>3. CASE TransferFailed
  <2>1. Receive("sendfailed") /\ UNCHANGED <<world, obexd, wired, sent, skipped>>
    BY <1>3 DEF TransferFailed
  <2>2. 1 \in Positions /\ Kind(1) = "sendfailed" /\ queue[1] = Message /\ Message.session \in Owners
    BY <2>1, Reading, SentFields
  <2>3. CASE sender.push = Message.session
    <3>1. Do(OnTransferError(sender))
      BY <1>3, <2>3 DEF TransferFailed
    <3>2. 1 \in Finished
      BY <2>2, <2>3 DEF Finished
    <3> QED
      BY <1>1, <2>1, <2>2, <2>3, <3>1, <3>2, AsksQuietly
  <2>4. CASE sender.push # Message.session
    <3>1. Do(Step(sender, <<>>))
      BY <1>3, <2>4 DEF TransferFailed
    <3>2. sender' = sender
      BY <3>1 DEF Do, Step
    <3> QED
      BY <2>1, <3>1, <3>2, ReadQuietly
  <2> QED
    BY <2>3, <2>4
<1>4. CASE TransferError
  <2>1. Receive("error") /\ UNCHANGED <<world, obexd, wired, sent, skipped>>
    BY <1>4 DEF TransferError, TransferSignal
  <2>2. 1 \in Positions /\ Kind(1) = "error" /\ queue[1] = Message /\ Message.path \in Paths
    BY <2>1, Reading, SentFields
  <2>3. CASE wired[Message.path] # 0
    <3>1. Do(OnTransferError(sender))
      BY <1>4, <2>3 DEF TransferError, TransferSignal
    <3>2. 1 \in Finished
      BY <2>2 DEF Finished
    <3>3. queue[1].path[1] = sender.push
      BY <1>0, <2>2 DEF OwnSession, Reports
    <3>4. sender.push # NoSession
      BY <1>1, <2>2, <3>3
    <3> QED
      BY <2>1, <3>1, <3>2, <3>4, AsksQuietly
  <2>4. CASE wired[Message.path] = 0
    <3>1. Do(Step(sender, <<>>))
      BY <1>4, <2>4 DEF TransferError, TransferSignal
    <3>2. sender' = sender
      BY <3>1 DEF Do, Step
    <3> QED
      BY <2>1, <2>4, <3>1, <3>2, ReadQuietly
  <2> QED
    BY <2>3, <2>4
<1>5. CASE TransferProgress
  <2>1. Receive("progress") /\ UNCHANGED <<world, obexd, wired, sent, skipped>>
    BY <1>5 DEF TransferProgress, TransferSignal
  <2>2. PICK p \in Paths : p = Message.path /\ (IsActive(p) \/ EndsAfter(1, p))
    BY <2>1, UnderWay
  <2>3. CASE wired[p] = 0
    <3>1. Do(Step(sender, <<>>))
      BY <1>5, <2>2, <2>3 DEF TransferProgress, TransferSignal
    <3>2. sender' = sender
      BY <3>1 DEF Do, Step
    <3> QED
      BY <2>1, <3>1, <3>2, ReadQuietly
  <2>4. CASE wired[p] # 0
    <3>1. sender' = OnTransferProgress(sender) /\ calls' = calls \o <<>>
      BY <1>5, <2>2, <2>4 DEF TransferProgress, TransferSignal, Do, Step
    <3>2. /\ SameWaits(sender, sender') /\ sender'.files = sender.files /\ sender'.bytes = sender.bytes
          /\ sender'.total = sender.total + 1 - sender.last /\ sender'.transferred = 1 /\ sender'.last = 1
          /\ sender'.result = sender.result
      BY <1>0, <3>1, ProgressIs
    <3>3. wired[p] > 0
      BY <1>0, <2>4
    <3>4. Moving
      <4>1. EndsAfter(1, p) => EndsAfter(0, p)
        BY DEF EndsAfter, Positions, TypeInv
      <4> QED
        BY <2>2, <3>3, <4>1 DEF Moving
    <3>5. Moving'
      <4>1. Left(1)
        BY <2>1, Reading
      <4>2. EndsAfter(0 + 1, p) => EndsAfter(0, p)'
        BY <4>1, WhatIsLeft
      <4>3. EndsAfter(1, p) => EndsAfter(0, p)'
        BY <4>2
      <4>4. IsActive(p) => IsActive(p)'
        BY <2>1 DEF IsActive
      <4> QED
        BY <2>1, <2>2, <3>3, <4>3, <4>4 DEF Moving
    <3>6. MovesRightly'
      BY <3>2, <3>5 DEF MovesRightly
    <3>7. QuietInv'
      BY <2>1, <3>1, <3>2, <3>6, CountingQuietly
    <3>8. Counted'
      <4>1. /\ sender.total \in Int /\ sender.transferred \in {0, 1} /\ sender.bytes \in Int
            /\ Len(sender.files) \in Nat /\ sender.last = sender.transferred
        BY <1>0, <3>4, SenderFields, ListFacts DEF MovesRightly
      <4> QED
        BY <1>0, <3>2, <4>1 DEF Counted
    <3>9. AllArrive => AllArrive'
      BY <2>1, <3>2 DEF AllArrive, Arrived
    <3> QED
      BY <3>7, <3>8, <3>9 DEF TruthInv, Calm
  <2> QED
    BY <2>3, <2>4
<1> QED
  BY <1>2, <1>3, <1>4, <1>5

\* A file is done with: it has arrived, or the user gave it up.
LEMMA TruthTaken ==
    ASSUME TypeInv, TypeInv', TruthInv, UNCHANGED <<obexd, sent>>, skipped \subseteq skipped', Running,
           sender.files # <<>>, sender'.files = Front(sender.files), sender'.transferred = 0,
           sender'.result = ResultOf(sender.result, Front(sender.files)),
           NEW f, f = NextFile(sender.files), Arrived(f)',
           \/ sender'.total = sender.total /\ sender'.bytes = sender.bytes
           \/ sender'.total = sender.total - sender.transferred /\ sender'.bytes = sender.bytes - 1
    PROVE  TruthInv'
<1>1. /\ sender.total \in Int /\ sender.transferred \in {0, 1} /\ sender.bytes \in Int
      /\ sender.files \in Lists /\ Len(sender.files) \in Nat
  BY SenderFields, ListFacts DEF TypeInv
<1> DEFINE m == Len(sender.files)
<1>2. Len(sender'.files) = m - 1 /\ NextFile(sender.files) = Files[m]
  BY <1>1, ListFacts
<1>3. Counted => Counted'
  BY <1>1, <1>2 DEF Counted
<1>4. ASSUME AllArrive PROVE AllArrive'
  <2>3. \A n \in 1 .. Len(Files) : n > m - 1 => Arrived(Files[n])'
    <3> SUFFICES ASSUME NEW n \in 1 .. Len(Files), n > m - 1 PROVE Arrived(Files[n])'
      OBVIOUS
    <3>1. CASE n = m
      <4>1. f = Files[n]
        BY <1>2, <3>1
      <4> QED
        BY <4>1 DEF Arrived
    <3>2. CASE n # m
      <4>1. n > m
        BY <1>1, <3>2, SendingConstants
      <4>2. Arrived(Files[n])
        BY <1>4, <4>1 DEF AllArrive
      <4> QED
        BY <4>2 DEF Arrived
    <3> QED
      BY <3>1, <3>2
  <2>4. sender'.result = "sent" => sender'.files = <<>>
    BY DEF ResultOf, Running
  <2> QED
    BY <1>2, <2>3, <2>4 DEF AllArrive
<1> QED
  BY <1>3, <1>4 DEF TruthInv

\* The next file is asked to be sent in the session there is.
LEMMA SendsNext ==
    ASSUME TypeInv, Calm, QuietInv, UNCHANGED <<world, obexd, wired>>, NEW d \in {0, 1}, Left(d),
           sender.push # NoSession, sender'.push = sender.push, sender'.files \in Lists, sender'.files # <<>>,
           sender'.start = sender.start, sender'.awaiting = sender.awaiting, sender'.retry = sender.retry,
           sender'.dialog = "none", sender'.transferred = 0,
           Mine = {}, obexd.active = {}, Finished' = {},
           calls' = calls \o NextSend(sender.push, sender'.files)
    PROVE  QuietInv'
<1>0. /\ Numbered /\ AskedOnce /\ OwnSession /\ StartsFirst
      /\ sender.push \in Owners
  BY SenderFields DEF QuietInv, TypeInv
<1> DEFINE call == SendCall(sender.push, NextFile(sender'.files))
           cs == <<call>>
<1>1. /\ call \in CallSet /\ call.op = "send" /\ call.session = sender.push /\ call.file = NextFile(sender'.files)
  BY <1>0, ListFacts DEF SendCall, CallSet
<1>2. calls' = calls \o cs
  BY DEF NextSend
<1>3. PICK push : push = sender.push /\ push = sender'.push
  OBVIOUS
<1> HIDE DEF call
<1>4. cs \in Seq(CallSet) /\ \A i \in 1 .. Len(cs) : cs[i].op = "send" /\ cs[i].session = push
  BY <1>1, <1>3
<1>5. /\ Asked = {} /\ Offered = {} /\ ~sender.start /\ ~sender.awaiting /\ ~sender.retry /\ push \in Past
  BY <1>0, <1>3 DEF AskedOnce, Numbered
<1>6. Offered' = {}
  BY <1>5, WhatIsLeft
<1>7. Numbered'
  BY <1>0, <1>2, <1>3, <1>4, <1>5, KeepsNumbered
<1>8. OwnSession'
  BY <1>0, <1>2, <1>3, <1>4, <1>6, KeepsOwn
<1>9. StartsFirst'
  BY <1>0, KeepsStarts
<1>10. AskedOnce'
  <2>1. \A i \in 1 .. Len(cs) : cs[i].op # "create"
    BY <1>4
  <2> QED
    BY <1>0, <1>2, <1>4, <1>5, <1>6, <2>1, KeepsAsked
<1>11. \A i, j \in Mine' : i = j /\ calls'[i] = call
  <2>1. SendsTo(push) = {} /\ call.session = push
    BY <1>1, <1>3 DEF Mine
  <2>2. PICK c \in CallSet : c = call
    BY <1>1
  <2>3. calls' = calls \o <<c>> /\ c.op = "send" /\ c.session = push
    BY <1>1, <1>2, <2>1, <2>2
  <2>4. \A i, j \in SendsTo(push)' : i = j /\ calls'[i] = c
    BY <2>1, <2>3, OneMoreCall
  <2>5. Mine' = SendsTo(push)'
    BY <1>3 DEF Mine, SendsTo
  <2> QED
    BY <2>2, <2>4, <2>5
<1> QED
  BY <1>1, <1>7, <1>8, <1>9, <1>10, <1>11, EmptyQuietly

\* A file has arrived.
LEMMA CompletedQuietly ==
    ASSUME TypeInv, TypeInv', WaitInv, Calm, QuietInv, TruthInv, TransferCompleted
    PROVE  QuietInv' /\ TruthInv'
<1>0. /\ sender \in SenderState /\ wired \in [Paths -> Nat] /\ sender.files \in Lists /\ sender.files # <<>>
      /\ Numbered /\ OwnSession /\ OneFile /\ NextIsSent
      /\ Receive("done") /\ UNCHANGED <<world, obexd, wired, sent, skipped>>
      /\ Do(IF wired[Message.path] = 0 THEN Step(sender, <<>>)
            ELSE IF wired[Message.path] = 1 THEN OnTransferCompleted(sender)
            ELSE Then(OnTransferCompleted(sender), OnTransferCompleted))
  BY SenderFields DEF TransferCompleted, TransferSignal, TypeInv, QuietInv, WaitInv, Calm
<1>1. /\ Left(1) /\ 1 \in Positions /\ Kind(1) = "done" /\ queue[1] = Message /\ Message.path \in Paths
  BY <1>0, Reading, SentFields
<1>2. CASE wired[Message.path] = 0
  <2>1. Do(Step(sender, <<>>))
    BY <1>0, <1>2
  <2>2. sender' = sender
    BY <2>1 DEF Do, Step
  <2> QED
    BY <1>0, <1>2, <2>1, <2>2, ReadQuietly
<1>3. CASE wired[Message.path] # 0
  <2>1. wired[Message.path] = 1
    BY <1>0, <1>1, <1>3 DEF Numbered
  <2>2. Do(OnTransferCompleted(sender))
    BY <1>0, <2>1
  <2>3. /\ SameWaits(sender, sender') /\ sender'.files = Front(sender.files) /\ sender'.bytes = sender.bytes
        /\ sender'.total = sender.total /\ sender'.transferred = 0
        /\ sender'.result = ResultOf(sender.result, Front(sender.files))
        /\ calls' = calls \o NextSend(sender.push, Front(sender.files))
    BY <1>0, <2>2, CompletedIs DEF Do
  <2>4. 1 \in Finished
    BY <1>1 DEF Finished
  <2>5. /\ Mine = {} /\ obexd.active = {} /\ sender.dialog = "none" /\ \A i \in Finished : i = 1
    BY <1>0, <2>4 DEF OneFile
  <2>6. Finished' = {}
    <3>1. \A i \in Finished' : i + 1 \in Finished /\ i + 1 > 1
      BY <1>1, <2>3, WhatIsLeft DEF Finished, Left, SameWaits
    <3>2. \A i : i + 1 > 1 /\ i + 1 = 1 => FALSE
      OBVIOUS
    <3> QED
      BY <2>5, <3>1, <3>2
  <2>7. sender.push # NoSession
    <3>1. queue[1].path[1] = sender.push
      BY <1>0, <1>1 DEF OwnSession, Reports
    <3>2. NoSession \notin Owners /\ \A p \in Paths : p[1] \in Owners
      BY SendingConstants DEF Paths, Owners
    <3> QED
      BY <1>1, <3>1, <3>2
  <2>8. QuietInv'
    <3>1. CASE ~Running'
      BY <3>1 DEF QuietInv, Calm
    <3>2. CASE Running'
      <4>1. sender'.files # <<>> /\ sender'.files \in Lists
        BY <2>3, <3>2, SenderFields DEF ResultOf, Running, TypeInv
      <4>2. calls' = calls \o NextSend(sender.push, sender'.files)
        BY <2>3
      <4> QED
        BY <1>0, <1>1, <2>3, <2>5, <2>6, <2>7, <4>1, <4>2, SendsNext DEF SameWaits
    <3> QED
      BY <3>1, <3>2
  <2>9. TruthInv'
    <3>1. Arrived(NextFile(sender.files))
      BY <1>0, <1>1 DEF NextIsSent
    <3>2. PICK f : f = NextFile(sender.files) /\ Arrived(f)
      BY <3>1
    <3>3. Arrived(f)'
      BY <1>0, <3>2 DEF Arrived
    <3> QED
      BY <1>0, <2>3, <3>2, <3>3, TruthTaken DEF Calm
  <2> QED
    BY <2>8, <2>9
<1> QED
  BY <1>2, <1>3

\* The user has answered: nothing is under way, and the next file is asked to be sent, or a session for it.
LEMMA AnsweredQuietly ==
    ASSUME TypeInv, TypeInv', Calm, QuietInv, sender.dialog # "none",
           UNCHANGED <<world, obexd, queue, wired>>,
           NEW s \in SenderState, SameWaits(sender, s), Do(AfterDialog(s)), s.result = "none"
    PROVE  QuietInv'
<1>0. /\ Numbered /\ AskedOnce /\ OwnSession /\ OneFile /\ StartsFirst
      /\ sender'.start = s.start /\ sender'.awaiting = s.awaiting /\ sender'.retry = s.retry
      /\ sender'.push = s.push /\ sender'.dialog = "none" /\ sender'.files = s.files
      /\ sender'.transferred = 0 /\ sender'.result = ResultOf(s.result, s.files)
      /\ calls' = calls \o (IF s.push = NoSession THEN ForASession ELSE NextSend(s.push, s.files))
  BY AfterDialogIs DEF Do, QuietInv, ForASession
<1>1. /\ Mine = {} /\ Finished = {} /\ obexd.active = {}
      /\ Asked = {} /\ Offered = {} /\ ~sender.start /\ ~sender.awaiting /\ ~sender.retry
  BY <1>0 DEF OneFile, AskedOnce
<1>2. Left(0) /\ Offered' = {}
  BY <1>1, Reading, WhatIsLeft
<1>3. s.push = sender.push
  BY DEF SameWaits
<1>4. Finished' = {}
  <2>1. sender'.push = sender.push
    BY <1>0, <1>3
  <2> QED
    BY <1>1, <2>1 DEF Finished, Positions, Kind
<1>5. CASE ~Running'
  BY <1>5 DEF QuietInv, Calm
<1>6. CASE Running' /\ sender.push # NoSession
  <2>1. s.files # <<>> /\ s.files \in Lists
    BY <1>0, <1>6, SenderFields DEF ResultOf, Running
  <2>2. calls' = calls \o NextSend(sender.push, sender'.files)
    BY <1>0, <1>3, <1>6
  <2> QED
    BY <1>0, <1>1, <1>2, <1>3, <1>4, <1>6, <2>1, <2>2, SendsNext DEF SameWaits
<1>7. CASE sender.push = NoSession
  <2>1. calls' = calls \o ForASession /\ sender'.push = NoSession
    BY <1>0, <1>3, <1>7
  <2>2. ForASession \in Seq(CallSet) /\ \A i \in 1 .. Len(ForASession) : ForASession[i].op # "send"
    BY SmallRequests DEF Requests
  <2>3. Numbered'
    BY <1>0, <1>2, <2>1, <2>2, KeepsNumbered
  <2>4. OwnSession'
    BY <1>0, <1>2, <1>7, <2>1, <2>2, KeepsOwn
  <2>5. StartsFirst'
    BY <1>0, <1>2, KeepsStarts
  <2>6. AskedOnce'
    BY <1>0, <1>1, <1>2, <2>1, AsksOnce DEF SameWaits
  <2>7. Mine' = {}
    <3>1. \A i \in 1 .. Len(calls') : calls'[i] \in CallSet
      BY DEF TypeInv
    <3>2. \A i \in 1 .. Len(calls') : calls'[i].op = "send" => calls'[i].session # NoSession
      BY <3>1, SentFields, SendingConstants
    <3> QED
      BY <2>1, <3>2 DEF Mine, SendsTo
  <2> QED
    BY <1>0, <1>1, <1>4, <2>3, <2>4, <2>5, <2>6, <2>7, EmptyQuietly
<1> QED
  BY <1>5, <1>6, <1>7

\* The steps of the user.
LEMMA UserSteps ==
    ASSUME TypeInv, TypeInv', WaitInv, Calm, QuietInv, TruthInv, Retry \/ Skip \/ Cancel \/ FatalClosed
    PROVE  QuietInv' /\ TruthInv'
<1>0. sender \in SenderState /\ sender.files \in Lists /\ sender.files # <<>> /\ sender.result = "none"
  BY SenderFields DEF TypeInv, WaitInv, Calm, Running
<1>1. CASE Retry
  <2>1. /\ sender.dialog # "none" /\ Do(AfterDialog(sender))
        /\ UNCHANGED <<world, obexd, queue, wired, sent, skipped>>
    BY <1>1 DEF Retry
  <2>2. QuietInv'
    BY <1>0, <2>1, AnsweredQuietly DEF SameWaits
  <2>3. /\ sender'.files = sender.files /\ sender'.bytes = sender.bytes
        /\ sender'.total = sender.total - sender.transferred /\ sender'.transferred = 0
        /\ sender'.result = sender.result
    BY <1>0, <2>1, AfterDialogIs DEF Do, ResultOf
  <2>4. TruthInv'
    BY <2>1, <2>3, TruthReset
  <2> QED
    BY <2>2, <2>4
<1>2. CASE Skip
  <2> DEFINE s == DropFile(sender)
  <2>1. /\ sender.dialog # "none" /\ Do(AfterDialog(s))
        /\ UNCHANGED <<world, obexd, queue, wired, sent>>
        /\ skipped' = skipped \cup {sender.files[Len(sender.files)]}
    BY <1>2 DEF Skip
  <2>2. /\ s \in SenderState /\ SameWaits(sender, s) /\ s.files = Front(sender.files)
        /\ s.bytes = sender.bytes - 1 /\ s.total = sender.total /\ s.transferred = sender.transferred
        /\ s.result = sender.result
    BY <1>0, DropIs
  <2> HIDE DEF s
  <2>3. QuietInv'
    BY <1>0, <2>1, <2>2, AnsweredQuietly
  <2>4. /\ sender'.files = Front(sender.files) /\ sender'.bytes = sender.bytes - 1
        /\ sender'.total = sender.total - sender.transferred /\ sender'.transferred = 0
        /\ sender'.result = ResultOf(sender.result, Front(sender.files))
    BY <2>1, <2>2, AfterDialogIs DEF Do
  <2>5. PICK f : f = NextFile(sender.files)
    OBVIOUS
  <2>6. f \in skipped'
    BY <2>1, <2>5 DEF NextFile
  <2>7. Arrived(f)'
    BY <2>6 DEF Arrived
  <2>8. TruthInv'
    BY <1>0, <2>1, <2>4, <2>5, <2>7, TruthTaken DEF Calm
  <2> QED
    BY <2>3, <2>8
<1>3. CASE Cancel
  <2>1. Do(OnCancel(sender)) /\ UNCHANGED <<world, obexd, sent, skipped>>
    BY <1>3 DEF Cancel
  <2>2. /\ sender'.files = sender.files /\ SameCounts(sender, sender') /\ sender'.result = "failed"
    BY <1>0, <2>1, CancelIs DEF Do
  <2>3. QuietInv'
    BY <2>2 DEF QuietInv, Calm, Running
  <2>4. TruthInv'
    BY <2>1, <2>2, TruthKept
  <2> QED
    BY <2>3, <2>4
<1>4. CASE FatalClosed
  <2>1. sender' = [sender EXCEPT !.result = "failed"] /\ UNCHANGED <<world, obexd, sent, skipped>>
    BY <1>0, <1>4 DEF FatalClosed, Do, Emit, Step, SenderState, SenderRecords
  <2>2. /\ sender'.files = sender.files /\ SameCounts(sender, sender') /\ sender'.result = "failed"
    BY <1>0, <2>1 DEF SenderState, SenderRecords, SameCounts
  <2>3. QuietInv'
    BY <2>2 DEF QuietInv, Calm, Running
  <2>4. TruthInv'
    BY <2>1, <2>2, TruthKept
  <2> QED
    BY <2>3, <2>4
<1> QED
  BY <1>1, <1>2, <1>3, <1>4

\* What was not quiet once is not quiet again.
LEMMA NoiseStays ==
    ASSUME TypeInv,
           ObexdHandles \/ LateSession \/ OtherSession \/ ObexdDies
           \/ (\E a \in obexd.active : TransferMoves(a) \/ TransferEnds(a))
           \/ (\E session \in obexd.sessions \cap Sessions : LinkLost(session))
    PROVE  obexd'.noise = 0 => obexd.noise = 0
<1>0. obexd \in ObexdState /\ obexd.noise \in Nat
  BY DEF TypeInv, ObexdState
<1>1. \A session : DropSession(session) => obexd'.noise = obexd.noise
  BY <1>0 DEF DropSession, ObexdState
<1>2. HandleCreate => obexd'.noise = obexd.noise
  BY <1>0 DEF HandleCreate, ObexdState
<1>3. \A session : HandleRemove(session) => obexd'.noise = obexd.noise
  BY <1>1 DEF HandleRemove
<1>4. \A session, file, noise : BeginTransfer(session, file, noise) => obexd'.noise = noise
  BY <1>0 DEF BeginTransfer, ObexdState
<1>5. \A session, file : HandleSend(session, file) => obexd'.noise \in {obexd.noise, obexd.noise + 1}
  BY <1>4 DEF HandleSend
<1>6. ASSUME ObexdHandles PROVE obexd'.noise \in {obexd.noise, obexd.noise + 1}
  BY <1>2, <1>3, <1>5, <1>6 DEF ObexdHandles
<1>7. ASSUME LateSession \/ OtherSession \/ ObexdDies PROVE obexd'.noise \in {obexd.noise, obexd.noise + 1}
  <2>1. LateSession => obexd'.noise = obexd.noise + 1
    BY <1>0 DEF LateSession, ObexdState
  <2>2. ObexdDies => obexd'.noise = obexd.noise + 1
    BY <1>0 DEF ObexdDies, FreshObexd, ObexdState
  <2>3. OtherSession /\ Other \notin obexd.sessions => obexd'.noise = obexd.noise + 1
    BY <1>0 DEF OtherSession, ObexdState
  <2>4. OtherSession /\ Other \in obexd.sessions => obexd'.noise = obexd.noise
    BY <1>1 DEF OtherSession
  <2> QED
    BY <1>7, <2>1, <2>2, <2>3, <2>4
<1>8. \A a : TransferMoves(a) \/ TransferEnds(a) => obexd'.noise = obexd.noise
  BY <1>0 DEF TransferMoves, TransferEnds, ObexdState
<1>9. \A session : LinkLost(session) => obexd'.noise = obexd.noise
  BY <1>1 DEF LinkLost
<1>10. obexd'.noise \in {obexd.noise, obexd.noise + 1}
  BY <1>6, <1>7, <1>8, <1>9
<1> QED
  BY <1>0, <1>10

\* What obexd does changes no count, and no file that has arrived is lost.
LEMMA ObexdTruthful ==
    ASSUME TypeInv, TruthInv,
           ObexdHandles \/ LateSession \/ OtherSession \/ ObexdDies
           \/ (\E a \in obexd.active : TransferMoves(a) \/ TransferEnds(a))
           \/ (\E session \in obexd.sessions \cap Sessions : LinkLost(session))
    PROVE  TruthInv'
<1>1. UNCHANGED <<sender, skipped>> /\ sent \subseteq sent'
  BY DEF ObexdHandles, LateSession, OtherSession, ObexdDies, TransferMoves, TransferEnds, LinkLost
<1>2. obexd'.noise = 0 => obexd.noise = 0
  BY NoiseStays
<1> QED
  BY <1>1, <1>2, TruthKept DEF SameCounts

\* Every step of a quiet world.
LEMMA QuietStep ==
    ASSUME TypeInv, TypeInv', WaitInv, QuietInv, TruthInv, SenderNext PROVE QuietInv' /\ TruthInv'
<1>1. Running /\ (obexd'.noise = 0 => obexd.noise = 0)
  <2>1. CASE \/ ObexdHandles \/ LateSession \/ OtherSession \/ ObexdDies
             \/ (\E a \in obexd.active : TransferMoves(a) \/ TransferEnds(a))
             \/ (\E session \in obexd.sessions \cap Sessions : LinkLost(session))
    BY <2>1, NoiseStays DEF ObexdHandles, LateSession, OtherSession, ObexdDies, TransferMoves, TransferEnds,
       LinkLost
  <2>2. CASE UNCHANGED obexd /\ Running
    BY <2>2
  <2> QED
    BY <2>1, <2>2 DEF SenderNext, StartSendSession, DeviceReady, DeviceConnectAnswers, RetryTimeout, Receive,
       SessionAdded, SessionRemoved, SessionFailed, TransferStarted, TransferFailed, TransferProgress,
       TransferError, TransferCompleted, TransferSignal, Retry, Skip, Cancel, FatalClosed
<1>2. CASE obexd.noise # 0
  BY <1>1, <1>2 DEF QuietInv, TruthInv, Calm
<1>3. CASE Calm
  <2>1. CASE \/ ObexdHandles \/ LateSession \/ OtherSession \/ ObexdDies
             \/ (\E a \in obexd.active : TransferMoves(a) \/ TransferEnds(a))
             \/ (\E session \in obexd.sessions \cap Sessions : LinkLost(session))
    BY <1>3, <2>1, ObexdQuietly, ObexdTruthful
  <2>2. CASE StartSendSession \/ DeviceReady \/ DeviceConnectAnswers \/ RetryTimeout \/ SessionFailed
    BY <1>3, <2>2, FlagSteps
  <2>3. CASE SessionAdded
    BY <1>3, <2>3, AddedQuietly
  <2>4. CASE SessionRemoved
    BY <1>3, <2>4, RemovedQuietly
  <2>5. CASE TransferStarted \/ TransferFailed \/ TransferProgress \/ TransferError
    BY <1>3, <2>5, TransferSteps
  <2>6. CASE TransferCompleted
    BY <1>3, <2>6, CompletedQuietly
  <2>7. CASE Retry \/ Skip \/ Cancel \/ FatalClosed
    BY <1>3, <2>7, UserSteps
  <2> QED
    BY <2>1, <2>2, <2>3, <2>4, <2>5, <2>6, <2>7 DEF SenderNext
<1> QED
  BY <1>1, <1>2, <1>3 DEF Calm

\* At first nothing is under way, and nothing is counted.
LEMMA QuietAtFirst == SenderInit => QuietInv /\ TruthInv
<1> SUFFICES ASSUME SenderInit PROVE QuietInv /\ TruthInv
  OBVIOUS
<1>1. /\ sender.start /\ ~sender.awaiting /\ ~sender.retry /\ sender.push = NoSession /\ sender.dialog = "none"
      /\ sender.files = Files /\ sender.bytes = Len(Files) /\ sender.total = 0 /\ sender.transferred = 0
      /\ sender.result = "none" /\ obexd.sessions = {} /\ obexd.active = {}
      /\ Positions = {} /\ 1 .. Len(calls) = {} /\ \A p \in Paths : wired[p] = 0
  BY DEF SenderInit, FreshObexd, Positions
<1>2. Asked = {} /\ Offered = {} /\ Mine = {} /\ Finished = {} /\ ~Moving
  BY <1>1 DEF Asked, Offered, Mine, SendsTo, Finished, Moving
<1>3. QuietInv
  BY <1>1, <1>2 DEF QuietInv, Numbered, AskedOnce, OwnSession, OneFile, StartsFirst, MovesRightly, NextIsSent
<1>4. TruthInv
  <2>1. Len(Files) \in Nat
    BY SendingConstants
  <2> QED
    BY <1>1, <2>1 DEF TruthInv, Counted, AllArrive
<1> QED
  BY <1>3, <1>4

LEMMA TruthInvHolds == SenderSpec => [](QuietInv /\ TruthInv)
<1>1. QuietInv /\ TruthInv /\ UNCHANGED senderVars => QuietInv' /\ TruthInv'
  <2>1. ASSUME QuietInv, UNCHANGED senderVars PROVE QuietInv'
    BY <2>1 DEF senderVars, QuietInv, Calm, Running, Numbered, Past, Begun, AskedOnce, OwnSession, OneFile,
       StartsFirst, MovesRightly, NextIsSent, Asked, Offered, Mine, SendsTo, Finished, Moving, Arrived,
       NextFile, Kind, Positions, EndsAfter, IsActive
  <2>2. ASSUME TruthInv, UNCHANGED senderVars PROVE TruthInv'
    BY <2>2 DEF senderVars, TruthInv, Counted, AllArrive, Arrived
  <2> QED
    BY <2>1, <2>2
<1>2. QuietInv /\ TruthInv /\ TypeInv /\ TypeInv' /\ WaitInv /\ [SenderNext]_senderVars => QuietInv' /\ TruthInv'
  BY <1>1, QuietStep
<1> QED
  BY <1>2, QuietAtFirst, SendingTypes, WaitInvHolds, PTL DEF SenderSpec

\* In a quiet world the bar stays within its bounds, and success means that the device has every
\* file but those the user skipped: on_session_removed, on_transfer_error and on_response take back
\* what was counted of a transfer, and no file leaves the list before it has arrived.
THEOREM ProgressIsTrueHolds == SenderSpec => []ProgressIsTrue
<1>1. ASSUME TypeInv, TruthInv PROVE ProgressIsTrue
  <2>1. /\ sender.total \in Int /\ sender.transferred \in {0, 1} /\ sender.bytes \in Int
        /\ sender.files \in Lists /\ Len(sender.files) \in Nat /\ (sender.files = <<>> <=> Len(sender.files) = 0)
    BY <1>1, SenderFields, ListFacts DEF TypeInv
  <2>2. ProgressInBounds
    BY <1>1, <2>1 DEF ProgressInBounds, Quiet, TruthInv, Counted
  <2>3. SentWhenQuiet
    <3> SUFFICES ASSUME Quiet, sender.result = "sent", NEW n \in 1 .. Len(Files)
                 PROVE  n \notin Missing
      BY DEF SentWhenQuiet, Missing
    <3>0. obexd.noise = 0
      BY DEF Quiet
    <3>1. sender.files = <<>> /\ n > Len(sender.files)
      BY <1>1, <2>1, <3>0 DEF TruthInv, AllArrive
    <3>2. Arrived(Files[n])
      BY <1>1, <3>0, <3>1 DEF TruthInv, AllArrive
    <3> QED
      BY <3>2 DEF Arrived, Missing
  <2> QED
    BY <2>2, <2>3 DEF ProgressIsTrue
<1> QED
  BY <1>1, SendingTypes, TruthInvHolds, PTL
===============================================================================
