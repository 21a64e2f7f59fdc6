---------------------------- MODULE AnnotationsProofs ----------------------------
(***************************************************************************)
(* Proofs about Annotations for every number of controllers, scans, counts *)
(* and faults.  AInv says that not only the image's record but everything  *)
(* a writer has read or is about to store is of one scan, and that no scan *)
(* is filed in the Hub before or after its controller uploads it: so a     *)
(* merge of what was read once and what was made later is of one scan too. *)
(***************************************************************************)
EXTENDS Annotations, TLAPS

\* A record of one scan, complete, or of none.
Coherent(info) ==
    /\ info.scan # None => info.url = mapped[info.scan]
    /\ info.by = None <=> info.scan = None
    /\ info.url = None <=> info.scan = None
    /\ info.counts = None <=> info.scan = None

\* What a writer has read and what it is about to store, and when it has
\* something to store.
WriterOK(q) ==
    /\ Coherent(q.base)
    /\ Coherent(q.results)
    /\ q.pc \in {"get", "again", "update"} => q.results.scan # None

WritersOK == \A w \in Writer : WriterOK(writer[w])

\* A controller at a scan whose results it has not tried to store yet.
Scanning(q) == q.pc \notin {"idle"} \cup Outcome

\* A controller's scan is its own and in the Hub once it is uploaded; its
\* results have nothing of others in them, and what it has read is what is
\* there as long as nobody has written.
ControllerOK(q) ==
    /\ Scanning(q) => q.n \in 1..scans
    /\ q.pc = "scan" => mapped[q.n] = None
    /\ q.results.foreign = None
    /\ q.pc = "update" /\ q.fresh => q.base = ann

ControllersOK == \A c \in Controller : ControllerOK(writer[c])

ScansOK ==
    /\ \A c, d \in Controller :
          c # d /\ Scanning(writer[c]) /\ Scanning(writer[d]) => writer[c].n # writer[d].n
    /\ \A m \in 1..MaxScans : m > scans => mapped[m] = None

\* A controller that is about to report that it has stored its results has.
OutcomesOK == \A c \in Controller : writer[c].pc = "stored" => ann.scan # None

AInv ==
    /\ TypeOK
    /\ Coherent(ann)
    /\ WritersOK
    /\ ControllersOK
    /\ ScansOK
    /\ OutcomesOK
    /\ ScannedMeansAnnotated
    /\ ReportedMeansStored

-----------------------------------------------------------------------------
(***************************************************************************)
(* Records.                                                                *)
(***************************************************************************)

\* What the assumption says, part by part.
LEMMA Constants ==
    /\ MaxScans \in Nat /\ MaxCount \in Nat /\ MaxEdits \in Nat /\ MaxFaults \in Nat
    /\ None \notin Version /\ None \notin Nat /\ None \notin Labels
    /\ None # TRUE
    /\ \A w \in Writer : VersionOf[w] \in Version /\ VersionOf[w] # None
    /\ \A n \in 0..MaxCount : RiskLabel(n) \in Labels /\ RiskLabel(n) # None
    /\ Arbiter \in Writer /\ Arbiter \notin Controller /\ Controller \subseteq Writer
<1>1. /\ MaxScans \in Nat /\ MaxCount \in Nat /\ MaxEdits \in Nat /\ MaxFaults \in Nat
      /\ None \notin Version /\ None \notin Nat /\ None \notin Labels
      /\ None # TRUE
      /\ Arbiter \notin Controller
  BY AnnotationsAssumption DEF AnnotationsAssumption
<1>2. \A w \in Writer : VersionOf[w] \in Version /\ VersionOf[w] # None
  BY <1>1 DEF Version
<1>3. \A n \in 0..MaxCount : RiskLabel(n) \in Labels /\ RiskLabel(n) # None
  BY <1>1 DEF Labels
<1> QED
  BY <1>1, <1>2, <1>3 DEF Writer

\* An empty record has no key.
LEMMA NoInfoIs ==
    /\ NoInfo \in Info
    /\ NoInfo.by = None /\ NoInfo.url = None /\ NoInfo.scan = None
    /\ NoInfo.counts = None /\ NoInfo.foreign = None
  BY DEF NoInfo, Info

\* A writer that has nothing to do.
LEMMA IdleIs ==
    /\ Idle \in WriterState /\ Idle.pc = "idle" /\ Idle.n = 0
    /\ Idle.results = NoInfo /\ Idle.base = NoInfo /\ Idle.fresh = FALSE
  BY NoInfoIs, Constants DEF Idle, WriterState

\* Key by key, a merge takes the new value where there is one.
LEMMA MergeIs ==
    ASSUME NEW base \in Info, NEW new \in Info
    PROVE  LET m == mapMerge(base, new)
           IN  /\ m \in Info
               /\ m.by = IF new.by # None THEN new.by ELSE base.by
               /\ m.url = IF new.url # None THEN new.url ELSE base.url
               /\ m.scan = IF new.scan # None THEN new.scan ELSE base.scan
               /\ m.counts = IF new.counts # None THEN new.counts ELSE base.counts
               /\ m.foreign = IF new.foreign # None THEN new.foreign ELSE base.foreign
<1> DEFINE m == mapMerge(base, new)
           pick(k) == IF new[k] # None THEN new[k] ELSE base[k]
<1>1. DOMAIN base = {"by", "url", "scan", "counts", "foreign"}
  BY DEF Info
<1>2. m = [by |-> pick("by"), url |-> pick("url"), scan |-> pick("scan"),
           counts |-> pick("counts"), foreign |-> pick("foreign")]
  BY <1>1 DEF mapMerge
<1>3. /\ pick("by") \in Version \cup {None} /\ pick("url") \in 1..MaxScans \cup {None}
      /\ pick("scan") \in 1..MaxScans \cup {None} /\ pick("counts") \in Labels \cup {None}
      /\ pick("foreign") \in 0..MaxEdits \cup {None}
  BY DEF Info
<1> HIDE DEF m
<1>4. m \in Info
  BY <1>2, <1>3 DEF Info
<1>5. /\ m.by = pick("by") /\ m.url = pick("url") /\ m.scan = pick("scan")
      /\ m.counts = pick("counts") /\ m.foreign = pick("foreign")
  BY <1>2
<1> QED
  BY <1>4, <1>5 DEF m

\* A merge of two coherent records is coherent: it has all four keys of the
\* new one, or none.
LEMMA MergeCoherent ==
    ASSUME NEW base \in Info, NEW new \in Info, Coherent(base), Coherent(new)
    PROVE  Coherent(mapMerge(base, new))
  BY MergeIs DEF Coherent

\* The result for a scan, and what it keeps of the record it starts from.
LEMMA ResultIs ==
    ASSUME NEW info \in Info, NEW by \in Version, NEW n \in 1..MaxScans,
           NEW url \in 1..MaxScans, url = mapped[n], NEW count \in 0..MaxCount
    PROVE  LET m == UpdateAnnotations(info, by, url, n, count)
           IN  m \in Info /\ Coherent(m) /\ m.scan = n /\ m.foreign = info.foreign
<1> DEFINE new == [by |-> by, url |-> url, scan |-> n, counts |-> RiskLabel(count), foreign |-> None]
           m == mapMerge(info, new)
<1>1. /\ new \in Info /\ new.by = by /\ new.url = url /\ new.scan = n
      /\ new.counts = RiskLabel(count) /\ new.foreign = None
  BY Constants DEF Info
<1>2. by # None /\ url # None /\ n # None /\ RiskLabel(count) # None
  BY Constants
<1> HIDE DEF new
<1>3. /\ m \in Info /\ m.by = by /\ m.url = url /\ m.scan = n /\ m.counts = RiskLabel(count)
      /\ m.foreign = info.foreign
  BY <1>1, <1>2, MergeIs
<1>4. UpdateAnnotations(info, by, url, n, count) = m
  BY DEF UpdateAnnotations, new
<1> HIDE DEF m
<1>5. Coherent(m)
  BY <1>2, <1>3 DEF Coherent
<1> QED
  BY <1>3, <1>4, <1>5

-----------------------------------------------------------------------------
(***************************************************************************)
(* Steps of one writer.                                                    *)
(***************************************************************************)

\* What AInv says of each variable and each writer.
LEMMA Types ==
    ASSUME AInv
    PROVE  /\ ann \in Info /\ Coherent(ann)
           /\ hub \in [1..MaxScans -> 0..MaxCount \cup {None}]
           /\ mapped \in [1..MaxScans -> 1..MaxScans \cup {None}]
           /\ writer \in [Writer -> WriterState]
           /\ scans \in 0..MaxScans /\ edits \in 0..MaxEdits /\ faults \in 0..MaxFaults
           /\ \A w \in Writer : /\ writer[w] \in WriterState /\ writer[w].base \in Info
                                /\ writer[w].results \in Info /\ WriterOK(writer[w])
           /\ \A c \in Controller : ControllerOK(writer[c])
<1>1. writer \in [Writer -> WriterState]
  BY DEF AInv, TypeOK
<1>2. \A w \in Writer : writer[w] \in WriterState
  BY <1>1
<1>3. \A w \in Writer : writer[w].base \in Info /\ writer[w].results \in Info
  BY <1>2 DEF WriterState
<1> QED
  BY <1>1, <1>2, <1>3 DEF AInv, TypeOK, WritersOK, ControllersOK

\* Project versions in the Hub.
LEMMA InHubIs ==
    ASSUME AInv, NEW url \in 1..MaxScans \cup {None}, InHub(url)
    PROVE  url \in 1..MaxScans /\ hub[url] \in 0..MaxCount
<1>1. url # None
  BY DEF InHub
<1>2. hub[url] # None
  BY <1>1 DEF InHub
<1> QED
  BY <1>1, <1>2, Types

\* A writer whose locals are in order at its next point, with the scan it had.
LEMMA WriterStep ==
    ASSUME AInv, NEW w \in Writer, NEW q \in WriterState,
           writer' = [writer EXCEPT ![w] = q], UNCHANGED <<ann, mapped, scans>>,
           WriterOK(q), q.pc # "stored",
           w \in Controller => /\ ControllerOK(q)
                               /\ Scanning(q) => q.n = writer[w].n /\ Scanning(writer[w])
    PROVE  /\ writer' \in [Writer -> WriterState]
           /\ Coherent(ann)' /\ WritersOK' /\ ControllersOK' /\ ScansOK' /\ OutcomesOK'
<1>1. /\ writer' \in [Writer -> WriterState] /\ writer'[w] = q
      /\ \A v \in Writer : v # w => writer'[v] = writer[v]
  BY Types
<1>2. Coherent(ann)'
  BY Types DEF Coherent
<1>3. \A v \in Writer : WriterOK(writer'[v])
  BY <1>1, Types
<1>4. WritersOK'
  BY <1>3 DEF WritersOK, WriterOK, Coherent
<1>5. \A c \in Controller : ControllerOK(writer'[c])
  BY <1>1, Types, Constants
<1>6. ControllersOK'
  BY <1>5 DEF ControllersOK, ControllerOK, Scanning
<1>7. \A c \in Controller :
          Scanning(writer'[c]) => writer'[c].n = writer[c].n /\ Scanning(writer[c])
  BY <1>1, Constants
<1>8. ScansOK'
  BY <1>7 DEF AInv, ScansOK, Scanning
<1>9. OutcomesOK'
  BY <1>1, Constants DEF AInv, OutcomesOK
<1> QED
  BY <1>1, <1>2, <1>4, <1>6, <1>8, <1>9

\* A writer that has nothing to do is in order.
LEMMA IdleOK ==
    WriterOK(Idle) /\ ControllerOK(Idle) /\ ~Scanning(Idle)
  BY IdleIs, NoInfoIs DEF WriterOK, ControllerOK, Coherent, Scanning

\* A controller that has stored its results, or failed to.
LEMMA EndedIs ==
    ASSUME NEW outcome \in Outcome
    PROVE  LET q == [Idle EXCEPT !.pc = outcome]
           IN  /\ q \in WriterState /\ q.pc = outcome
               /\ WriterOK(q) /\ ControllerOK(q) /\ ~Scanning(q)
<1> DEFINE q == [Idle EXCEPT !.pc = outcome]
<1>1. /\ q \in WriterState /\ q.pc = outcome /\ q.results = NoInfo /\ q.base = NoInfo
  BY IdleIs DEF WriterState
<1>2. outcome \in {"stored", "lost"}
  BY DEF Outcome
<1> HIDE DEF q
<1>3. ~Scanning(q)
  BY <1>1 DEF Scanning
<1> QED
  BY <1>1, <1>2, <1>3, NoInfoIs DEF q, WriterOK, ControllerOK, Coherent

\* A writer stops, having written nothing.
LEMMA GiveUpStep ==
    ASSUME AInv, NEW w \in Writer, GiveUp(w), UNCHANGED <<ann, mapped, scans>>
    PROVE  /\ writer' \in [Writer -> WriterState]
           /\ Coherent(ann)' /\ WritersOK' /\ ControllersOK' /\ ScansOK' /\ OutcomesOK'
<1>1. writer' = [writer EXCEPT ![w] = Idle]
  BY DEF GiveUp
<1>2. Idle \in WriterState /\ Idle.pc = "idle" /\ WriterOK(Idle) /\ ControllerOK(Idle) /\ ~Scanning(Idle)
  BY IdleIs, IdleOK
<1> HIDE DEF Idle
<1> QED
  BY <1>1, <1>2, WriterStep

\* A controller's results are not stored.
LEMMA LostStep ==
    ASSUME AInv, NEW c \in Controller, writer' = Updated(c, "lost"), UNCHANGED <<ann, mapped, scans>>
    PROVE  /\ writer' \in [Writer -> WriterState]
           /\ Coherent(ann)' /\ WritersOK' /\ ControllersOK' /\ ScansOK' /\ OutcomesOK'
<1> DEFINE q == [Idle EXCEPT !.pc = "lost"]
<1>1. writer' = [writer EXCEPT ![c] = q] /\ c \in Writer
  BY Constants DEF Updated
<1>2. q \in WriterState /\ q.pc = "lost" /\ WriterOK(q) /\ ControllerOK(q) /\ ~Scanning(q)
  BY EndedIs DEF Outcome
<1> HIDE DEF q
<1> QED
  BY <1>1, <1>2, WriterStep

\* The object is written: everybody's copy is out of date, and the one who
\* wrote is done.
LEMMA WriteStep ==
    ASSUME AInv, NEW new \in Info, Coherent(new), NEW locals \in [Writer -> WriterState],
           ann.scan # None => new.scan # None,
           \A v \in Writer : \/ locals[v] = writer[v]
                             \/ locals[v] = Idle
                             \/ locals[v] = [Idle EXCEPT !.pc = "stored"] /\ new.scan # None,
           Write(new, locals), UNCHANGED <<mapped, scans>>
    PROVE  /\ writer' \in [Writer -> WriterState] /\ ann' \in Info
           /\ Coherent(ann)' /\ WritersOK' /\ ControllersOK' /\ ScansOK' /\ OutcomesOK'
<1>1. ann' = new /\ writer' = [w \in Writer |-> [locals[w] EXCEPT !.fresh = FALSE]]
  BY DEF Write
<1>a. LET q == [Idle EXCEPT !.pc = "stored"]
      IN  WriterOK(q) /\ ControllerOK(q) /\ ~Scanning(q)
  BY EndedIs DEF Outcome
<1>2. \A v \in Writer : locals[v] \in WriterState /\ WriterOK(locals[v])
  BY <1>a, Types, IdleOK
<1>3. \A v \in Writer : /\ writer'[v] \in WriterState /\ writer'[v].fresh = FALSE
                        /\ writer'[v].pc = locals[v].pc /\ writer'[v].n = locals[v].n
                        /\ writer'[v].results = locals[v].results
                        /\ writer'[v].base = locals[v].base
  <2> SUFFICES ASSUME NEW v \in Writer
               PROVE  /\ writer'[v] \in WriterState /\ writer'[v].fresh = FALSE
                      /\ writer'[v].pc = locals[v].pc /\ writer'[v].n = locals[v].n
                      /\ writer'[v].results = locals[v].results
                      /\ writer'[v].base = locals[v].base
    OBVIOUS
  <2>1. writer'[v] = [locals[v] EXCEPT !.fresh = FALSE] /\ locals[v] \in WriterState
    BY <1>1, <1>2
  <2> QED
    BY <2>1 DEF WriterState
<1>4. writer' \in [Writer -> WriterState]
  BY <1>1, <1>3
<1>5. Coherent(ann)'
  BY <1>1 DEF Coherent
<1>6. \A v \in Writer : WriterOK(writer'[v])
  BY <1>2, <1>3 DEF WriterOK
<1>7. WritersOK'
  BY <1>6 DEF WritersOK, WriterOK, Coherent
<1>8. \A c \in Controller : Scanning(writer'[c]) =>
          Scanning(writer[c]) /\ writer'[c].n = writer[c].n
  <2> SUFFICES ASSUME NEW c \in Controller, Scanning(writer'[c])
               PROVE  Scanning(writer[c]) /\ writer'[c].n = writer[c].n
    OBVIOUS
  <2>1. c \in Writer /\ writer'[c].pc = locals[c].pc /\ writer'[c].n = locals[c].n
    BY <1>3, Constants
  <2>2. Scanning(locals[c])
    BY <2>1 DEF Scanning
  <2>3. locals[c] = writer[c]
    BY <1>a, <2>1, <2>2, IdleOK
  <2> QED
    BY <2>1, <2>2, <2>3
<1>9. ASSUME NEW c \in Controller
      PROVE  ControllerOK(writer[c])'
  <2>1. ControllerOK(locals[c])
    BY <1>a, Types, IdleOK, Constants
  <2>2. /\ writer'[c].pc = locals[c].pc /\ writer'[c].n = locals[c].n
        /\ writer'[c].results = locals[c].results /\ writer'[c].fresh = FALSE
    BY <1>3, Constants
  <2> QED
    BY <2>1, <2>2 DEF ControllerOK, Scanning
<1>10. ControllersOK'
  BY <1>9 DEF ControllersOK
<1>11. ScansOK'
  BY <1>8 DEF AInv, ScansOK, Scanning
<1>12. OutcomesOK'
  <2> SUFFICES ASSUME NEW c \in Controller, writer'[c].pc = "stored" PROVE new.scan # None
    BY <1>1 DEF OutcomesOK
  <2>1. c \in Writer /\ locals[c].pc = "stored"
    BY <1>3, Constants
  <2>2. locals[c] # Idle
    BY <2>1, IdleIs
  <2> QED
    BY <2>1, <2>2 DEF AInv, OutcomesOK
<1> QED
  BY <1>1, <1>4, <1>5, <1>7, <1>10, <1>11, <1>12

\* A writer with results merges them into what it has read, and stores that.
LEMMA StoreStep ==
    ASSUME AInv, NEW w \in Writer, writer[w].pc = "update",
           NEW q \in {Idle, [Idle EXCEPT !.pc = "stored"]},
           Write(Merged(w), [writer EXCEPT ![w] = q]), UNCHANGED <<mapped, scans>>
    PROVE  /\ writer' \in [Writer -> WriterState] /\ ann' \in Info /\ ann'.scan # None
           /\ Coherent(ann)' /\ WritersOK' /\ ControllersOK' /\ ScansOK' /\ OutcomesOK'
<1> DEFINE new == Merged(w)
           locals == [writer EXCEPT ![w] = q]
<1>1. /\ writer[w].base \in Info /\ writer[w].results \in Info
      /\ Coherent(writer[w].base) /\ Coherent(writer[w].results)
      /\ writer[w].results.scan # None
  BY Types DEF WriterOK
<1>2. new \in Info /\ Coherent(new) /\ new.scan # None
  BY <1>1, MergeIs, MergeCoherent DEF Merged
<1>3. /\ locals \in [Writer -> WriterState]
      /\ \A v \in Writer : locals[v] = writer[v] \/ locals[v] = q
  <2>1. q \in WriterState
    BY IdleIs, EndedIs DEF Outcome
  <2> QED
    BY <2>1, Types
<1>4. ann' = new /\ Write(new, locals)
  BY DEF Write
<1> HIDE DEF new, locals
<1>5. /\ writer' \in [Writer -> WriterState] /\ ann' \in Info
      /\ Coherent(ann)' /\ WritersOK' /\ ControllersOK' /\ ScansOK' /\ OutcomesOK'
  BY <1>2, <1>3, <1>4, WriteStep
<1> QED
  BY <1>2, <1>4, <1>5

-----------------------------------------------------------------------------
(***************************************************************************)
(* The actions.                                                            *)
(***************************************************************************)

\* The parts of AInv that a step of a writer has to re-establish.
Rest ==
    /\ writer' \in [Writer -> WriterState]
    /\ Coherent(ann)' /\ WritersOK' /\ ControllersOK' /\ ScansOK' /\ OutcomesOK'

\* AInv from its parts, for a step that leaves the Hub alone.
LEMMA Assemble ==
    ASSUME AInv, Rest, ann' \in Info, UNCHANGED <<hub, mapped>>, scans' \in 0..MaxScans,
           edits' \in 0..MaxEdits, faults' \in 0..MaxFaults,
           notified' \in {TRUE, FALSE, None}, notified' = TRUE => ann'.scan # None,
           done' \subseteq Outcome, "stored" \in done' => ann'.scan # None
    PROVE  AInv'
<1>1. TypeOK'
  BY DEF AInv, TypeOK, Rest
<1>2. ScannedMeansAnnotated' /\ ReportedMeansStored'
  BY DEF ScannedMeansAnnotated, ReportedMeansStored
<1> QED
  BY <1>1, <1>2 DEF AInv, Rest

\* A failing call is counted.
LEMMA FaultType ==
    ASSUME AInv, Fault \/ UNCHANGED faults
    PROVE  faults' \in 0..MaxFaults
  BY Types, Constants DEF Fault

\* A controller's scan begins, under a number of its own.
LEMMA StartScanAInv ==
    ASSUME AInv, NEW c \in Controller, StartScan(c)
    PROVE  AInv'
<1> DEFINE q == [Idle EXCEPT !.pc = "scan", !.n = scans + 1]
<1>1. /\ writer[c].pc = "idle" /\ scans < MaxScans /\ scans' = scans + 1
      /\ writer' = [writer EXCEPT ![c] = q] /\ c \in Writer
      /\ UNCHANGED <<ann, hub, mapped, notified, done, edits>>
      /\ Fault \/ UNCHANGED faults
  BY Constants DEF StartScan, reports
<1>2. scans \in 0..MaxScans /\ scans + 1 \in 1..MaxScans /\ scans \in Nat
  BY <1>1, Types, Constants
<1>3. /\ q \in WriterState /\ q.pc = "scan" /\ q.n = scans + 1 /\ q.results = NoInfo /\ q.base = NoInfo
  <2>1. scans + 1 \in 0..MaxScans
    BY <1>2
  <2> QED
    BY <2>1, NoInfoIs DEF Idle, WriterState
<1> HIDE DEF q
<1>4. WriterOK(q)
  BY <1>3, NoInfoIs DEF WriterOK, Coherent
<1>5. /\ writer' \in [Writer -> WriterState] /\ writer'[c] = q
      /\ \A v \in Writer : v # c => writer'[v] = writer[v]
  BY <1>1, <1>3, Types
<1>6. Coherent(ann)'
  BY <1>1, Types DEF Coherent
<1>7. \A v \in Writer : WriterOK(writer'[v])
  BY <1>4, <1>5, Types
<1>8. WritersOK'
  BY <1>1, <1>7 DEF WritersOK, WriterOK, Coherent
<1>9. mapped[scans + 1] = None
  BY <1>2 DEF AInv, ScansOK
<1>10. \A d \in Controller : d # c /\ Scanning(writer[d]) => writer[d].n \in 1..scans
  BY Types DEF ControllerOK
<1>11. ASSUME NEW d \in Controller
       PROVE  ControllerOK(writer[d])'
  <2>1. CASE d = c
    BY <1>1, <1>2, <1>3, <1>5, <1>9, <2>1, NoInfoIs DEF ControllerOK
  <2>2. CASE d # c
    <3>1. writer'[d] = writer[d] /\ ControllerOK(writer[d])
      BY <1>5, <2>2, Types, Constants
    <3>2. Scanning(writer[d]) => writer[d].n \in 1..scans'
      BY <1>1, <1>2, <1>10, <2>2
    <3> QED
      BY <1>1, <3>1, <3>2 DEF ControllerOK
  <2> QED
    BY <2>1, <2>2
<1>12. ControllersOK'
  BY <1>11 DEF ControllersOK
<1>13. ScansOK'
  <2>1. \A m \in 1..MaxScans : m > scans' => mapped'[m] = None
    BY <1>1, <1>2 DEF AInv, ScansOK
  <2>2. \A d \in Controller : d # c => writer'[d] = writer[d]
    BY <1>5, Constants
  <2>3. \A d \in Controller : d # c /\ Scanning(writer'[d]) => writer'[d].n # q.n
    BY <1>2, <1>3, <1>10, <2>2
  <2>4. \A d, e \in Controller :
            d # e /\ Scanning(writer'[d]) /\ Scanning(writer'[e]) => writer'[d].n # writer'[e].n
    BY <1>5, <2>2, <2>3 DEF AInv, ScansOK
  <2> QED
    BY <2>1, <2>4 DEF ScansOK
<1>14. scans' \in 0..MaxScans /\ faults' \in 0..MaxFaults
  BY <1>1, <1>2, FaultType
<1>15. OutcomesOK'
  BY <1>1, <1>3, <1>5, Constants DEF AInv, OutcomesOK
<1> QED
  BY <1>1, <1>5, <1>6, <1>8, <1>12, <1>13, <1>14, <1>15, Types, Assemble
     DEF Rest, AInv, TypeOK, ScannedMeansAnnotated, ReportedMeansStored

\* The scan reaches the Hub.  Its project version was not known before, so no
\* record says anything else of it.
LEMMA UploadAInv ==
    ASSUME AInv, NEW c \in Controller, Upload(c)
    PROVE  AInv'
<1> DEFINE n == writer[c].n
           url == IF \E p \in DOMAIN hub : InHub(p)
                  THEN CHOOSE p \in DOMAIN hub : InHub(p) ELSE n
           q == [writer[c] EXCEPT !.pc = "poll"]
<1>1. /\ writer[c].pc = "scan" /\ c \in Writer /\ writer[c] \in WriterState
      /\ mapped' = [mapped EXCEPT ![n] = url]
      /\ writer' = [writer EXCEPT ![c] = q]
      /\ UNCHANGED <<ann, scans, notified, done, edits, faults>>
  BY Constants, Types DEF Upload, reports, WriterState
<1>2. PICK count \in 0..MaxCount : hub' = [hub EXCEPT ![url] = count]
  BY DEF Upload
<1>3. n \in 1..scans /\ mapped[n] = None /\ scans \in 0..MaxScans
  BY <1>1, Types DEF ControllerOK, Scanning, Outcome
<1>4. n \in 1..MaxScans
  BY <1>3, Constants
<1>5. url \in 1..MaxScans
  <2>1. DOMAIN hub = 1..MaxScans
    BY Types
  <2> QED
    BY <1>4, <2>1
<1>6. /\ q \in WriterState /\ q.pc = "poll" /\ q.n = n /\ q.results = writer[c].results
      /\ q.base = writer[c].base /\ q.fresh = writer[c].fresh
  BY <1>1 DEF WriterState
<1> HIDE DEF q, url, n
<1>7. /\ mapped' \in [1..MaxScans -> 1..MaxScans \cup {None}]
      /\ mapped'[n] = url /\ \A m \in 1..MaxScans : m # n => mapped'[m] = mapped[m]
  BY <1>1, <1>4, <1>5, Types
<1>8. hub' \in [1..MaxScans -> 0..MaxCount \cup {None}]
  BY <1>2, <1>5, Types
<1>9. ASSUME NEW info \in Info, Coherent(info)
      PROVE  /\ info.scan # None => info.url = mapped'[info.scan]
             /\ info.by = None <=> info.scan = None
             /\ info.url = None <=> info.scan = None
             /\ info.counts = None <=> info.scan = None
  <2>1. info.scan # None => info.scan \in 1..MaxScans /\ info.scan # n
    BY <1>3, <1>9 DEF Coherent, Info
  <2> QED
    BY <1>7, <1>9, <2>1 DEF Coherent
<1>10. Coherent(ann)'
  BY <1>1, <1>9, Types DEF Coherent
<1>11. /\ writer' \in [Writer -> WriterState] /\ writer'[c] = q
       /\ \A v \in Writer : v # c => writer'[v] = writer[v]
  BY <1>1, <1>6, Types
<1>12. \A v \in Writer : /\ writer'[v].base = writer[v].base /\ writer'[v].results = writer[v].results
                         /\ writer'[v].pc \in {"get", "again", "update"} => writer'[v].pc = writer[v].pc
  BY <1>6, <1>11
<1>13. WritersOK'
  <2> SUFFICES ASSUME NEW v \in Writer PROVE WriterOK(writer[v])'
    BY DEF WritersOK
  <2>1. WriterOK(writer[v]) /\ writer[v].base \in Info /\ writer[v].results \in Info
    BY Types
  <2>2. Coherent(writer[v].base)'
    BY <1>9, <1>12, <2>1 DEF WriterOK, Coherent
  <2>3. Coherent(writer[v].results)'
    BY <1>9, <1>12, <2>1 DEF WriterOK, Coherent
  <2> QED
    BY <1>12, <2>1, <2>2, <2>3 DEF WriterOK
<1>14. \A d \in Controller : /\ Scanning(writer'[d]) => Scanning(writer[d])
                             /\ writer'[d].n = writer[d].n
                             /\ d # c => writer'[d] = writer[d]
  BY <1>1, <1>6, <1>11, Constants DEF n, Scanning, Outcome
<1>15. ControllersOK'
  <2> SUFFICES ASSUME NEW d \in Controller PROVE ControllerOK(writer[d])'
    BY DEF ControllersOK
  <2>1. ControllerOK(writer[d])
    BY Types
  <2>2. CASE d = c
    BY <1>1, <1>6, <1>11, <2>1, <2>2 DEF ControllerOK, n, Scanning, Outcome
  <2>3. CASE d # c
    <3>1. writer'[d] = writer[d]
      BY <1>14, <2>3
    <3>2. writer[d].pc = "scan" => writer[d].n # n /\ writer[d].n \in 1..MaxScans
      <4>1. writer[d].pc = "scan" => writer[d].n \in 1..scans
        BY <2>1 DEF ControllerOK, Scanning, Outcome
      <4>2. writer[d].pc = "scan" => writer[d].n # n
        BY <1>1, <2>3 DEF AInv, ScansOK, n, Scanning, Outcome
      <4> QED
        BY <1>3, <4>1, <4>2, Constants
    <3> QED
      BY <1>1, <1>7, <2>1, <3>1, <3>2 DEF ControllerOK
  <2> QED
    BY <2>2, <2>3
<1>16. ScansOK'
  <2>1. \A m \in 1..MaxScans : m > scans => m # n
    BY <1>3
  <2>2. \A m \in 1..MaxScans : m > scans' => mapped'[m] = None
    BY <1>1, <1>7, <2>1 DEF AInv, ScansOK
  <2> QED
    BY <1>14, <2>2 DEF AInv, ScansOK
<1>17. TypeOK'
  BY <1>1, <1>7, <1>8, <1>11 DEF AInv, TypeOK
<1>18. ScannedMeansAnnotated' /\ ReportedMeansStored'
  BY <1>1 DEF AInv, ScannedMeansAnnotated, ReportedMeansStored
<1>19. OutcomesOK'
  BY <1>1, <1>6, <1>11, Constants DEF AInv, OutcomesOK
<1> QED
  BY <1>10, <1>13, <1>15, <1>16, <1>17, <1>18, <1>19 DEF AInv

\* The results of an uploaded scan are made, or there are none.
LEMMA ScanResultsAInv ==
    ASSUME AInv, NEW c \in Controller, ScanResults(c)
    PROVE  AInv'
<1> DEFINE n == writer[c].n
           url == mapped[n]
           m == UpdateAnnotations(NoInfo, VersionOf[c], url, n, hub[url])
           q == [writer[c] EXCEPT !.pc = "get", !.results = m]
<1>1. /\ writer[c].pc = "poll" /\ c \in Writer /\ writer[c] \in WriterState
      /\ UNCHANGED <<ann, hub, mapped, scans, notified, done, edits, faults>>
  BY Constants, Types DEF ScanResults, reports
<1>2. Rest
  <2>1. CASE GiveUp(c)
    BY <1>1, <2>1, GiveUpStep DEF Rest
  <2>2. CASE InHub(url) /\ writer' = [writer EXCEPT ![c].pc = "get", ![c].results = m]
    <3>1. n \in 1..scans /\ n \in 1..MaxScans
      <4>1. n \in 1..scans /\ scans \in 0..MaxScans
        BY <1>1, Types DEF ControllerOK, Scanning, Outcome
      <4> QED
        BY <4>1, Constants
    <3>2. url \in 1..MaxScans \cup {None}
      BY <3>1, Types
    <3>3. url \in 1..MaxScans /\ hub[url] \in 0..MaxCount
      BY <2>2, <3>2, InHubIs
    <3>4. m \in Info /\ Coherent(m) /\ m.scan = n /\ m.foreign = None
      BY <1>1, <3>1, <3>3, ResultIs, NoInfoIs, Constants
    <3> HIDE DEF m
    <3>5. writer' = [writer EXCEPT ![c] = q]
      BY <2>2, Types
    <3>6. /\ q \in WriterState /\ q.pc = "get" /\ q.n = n /\ q.results = m /\ q.base = writer[c].base
      BY <1>1, <3>4 DEF WriterState
    <3> HIDE DEF q
    <3>7. WriterOK(q)
      <4>1. n # None
        BY <3>1, Constants
      <4> QED
        BY <1>1, <3>4, <3>6, <4>1, Types DEF WriterOK
    <3>8. ControllerOK(q)
      BY <3>1, <3>4, <3>6 DEF ControllerOK
    <3> QED
      BY <1>1, <3>5, <3>6, <3>7, <3>8, WriterStep DEF Rest, Scanning, Outcome
  <2> QED
    BY <2>1, <2>2 DEF ScanResults
<1> QED
  BY <1>1, <1>2, Types, Assemble DEF AInv, TypeOK, ScannedMeansAnnotated, ReportedMeansStored

\* A controller's scan or one of its calls fails.
LEMMA ControllerFailsAInv ==
    ASSUME AInv, NEW c \in Controller, ControllerFails(c)
    PROVE  AInv'
<1>1. /\ Fault /\ GiveUp(c) /\ c \in Writer
      /\ UNCHANGED <<ann, hub, mapped, scans, notified, done, edits>>
  BY Constants DEF ControllerFails, reports
<1>2. Rest /\ faults' \in 0..MaxFaults
  BY <1>1, GiveUpStep, FaultType DEF Rest
<1> QED
  BY <1>1, <1>2, Types, Assemble DEF AInv, TypeOK, ScannedMeansAnnotated, ReportedMeansStored

\* A controller reads the image.
LEMMA GetImageAInv ==
    ASSUME AInv, NEW c \in Controller, GetImage(c)
    PROVE  AInv'
<1> DEFINE q == [writer[c] EXCEPT !.pc = "update", !.base = ann, !.fresh = TRUE]
<1>1. /\ writer[c].pc = "get" /\ c \in Writer /\ writer[c] \in WriterState
      /\ writer' = [writer EXCEPT ![c] = q]
      /\ UNCHANGED <<ann, hub, mapped, scans, notified, done, edits, faults>>
  BY Constants, Types DEF GetImage, reports
<1>2. /\ q \in WriterState /\ q.pc = "update" /\ q.n = writer[c].n
      /\ q.results = writer[c].results /\ q.base = ann
  BY <1>1, Types DEF WriterState
<1> HIDE DEF q
<1>3. WriterOK(writer[c]) /\ ControllerOK(writer[c]) /\ Coherent(ann)
  BY <1>1, Types
<1>4. WriterOK(q)
  BY <1>1, <1>2, <1>3 DEF WriterOK
<1>5. ControllerOK(q)
  BY <1>1, <1>2, <1>3 DEF ControllerOK, Scanning, Outcome
<1>6. Rest
  BY <1>1, <1>2, <1>4, <1>5, WriterStep DEF Rest, Scanning, Outcome
<1> QED
  BY <1>1, <1>6, Types, Assemble DEF AInv, TypeOK, ScannedMeansAnnotated, ReportedMeansStored

\* A controller stores its results, or meets a conflict.
LEMMA UpdateAInv ==
    ASSUME AInv, NEW c \in Controller, Update(c)
    PROVE  AInv'
<1>1. /\ writer[c].pc = "update" /\ c \in Writer
      /\ UNCHANGED <<hub, mapped, scans, notified, done, edits, faults>>
  BY Constants DEF Update, reports
<1>2. CASE Write(Merged(c), Updated(c, "stored"))
  <2>1. Write(Merged(c), [writer EXCEPT ![c] = [Idle EXCEPT !.pc = "stored"]])
    BY <1>2 DEF Updated
  <2>2. Rest /\ ann' \in Info /\ ann'.scan # None
    BY <1>1, <2>1, StoreStep DEF Rest
  <2> QED
    BY <1>1, <2>2, Types, Assemble DEF AInv, TypeOK
<1>3. CASE writer' = Updated(c, "lost") /\ UNCHANGED ann
  <2>1. Rest
    BY <1>1, <1>3, LostStep DEF Rest
  <2> QED
    BY <1>1, <1>3, <2>1, Types, Assemble DEF AInv, TypeOK, ScannedMeansAnnotated, ReportedMeansStored
<1> QED
  BY <1>2, <1>3 DEF Update

\* Reading or writing the image fails.
LEMMA UpdateFailsAInv ==
    ASSUME AInv, NEW c \in Controller, UpdateFails(c)
    PROVE  AInv'
<1>1. /\ Fault /\ writer' = Updated(c, "lost")
      /\ UNCHANGED <<ann, hub, mapped, scans, notified, done, edits>>
  BY DEF UpdateFails, reports
<1>2. Rest /\ faults' \in 0..MaxFaults
  BY <1>1, LostStep, FaultType DEF Rest
<1> QED
  BY <1>1, <1>2, Types, Assemble DEF AInv, TypeOK, ScannedMeansAnnotated, ReportedMeansStored

\* A scan is reported done, whatever became of its results.
LEMMA ReportAInv ==
    ASSUME AInv, NEW c \in Controller, Report(c)
    PROVE  AInv'
<1>1. /\ writer[c].pc \in Outcome /\ done' = done \cup {writer[c].pc}
      /\ GiveUp(c) /\ c \in Writer
      /\ UNCHANGED <<ann, hub, mapped, scans, notified, edits, faults>>
  BY Constants DEF Report
<1>2. Rest
  BY <1>1, GiveUpStep DEF Rest
<1>3. done' \subseteq Outcome
  BY <1>1 DEF AInv, TypeOK
<1>4. "stored" \in done' => ann'.scan # None
  BY <1>1 DEF AInv, OutcomesOK, ReportedMeansStored
<1> QED
  BY <1>1, <1>2, <1>3, <1>4, Types, Assemble DEF AInv, TypeOK, ScannedMeansAnnotated

\* The arbiter's job reads the image, asks the Hub, and reads the image twice.
LEMMA ArbiterReadsAInv ==
    ASSUME AInv, GetImageAnnotationInfo \/ versionResults \/ ArbiterGets \/ ArbiterGetsAgain
    PROVE  AInv'
<1> DEFINE a == writer[Arbiter]
<1>0. Arbiter \in Writer /\ Arbiter \notin Controller /\ a \in WriterState
      /\ WriterOK(a) /\ Coherent(ann) /\ ann \in Info
  BY Constants, Types
<1>1. CASE GetImageAnnotationInfo
  <2> DEFINE q == [Idle EXCEPT !.pc = "results", !.base = ann]
  <2>1. /\ writer' = [writer EXCEPT ![Arbiter] = q]
        /\ UNCHANGED <<ann, hub, mapped, scans, notified, done, edits, faults>>
    BY <1>1 DEF GetImageAnnotationInfo, reports
  <2>2. q \in WriterState /\ q.pc = "results" /\ q.results = NoInfo /\ q.base = ann
    BY <1>0, IdleIs DEF WriterState
  <2> HIDE DEF q
  <2>3. WriterOK(q)
    BY <1>0, <2>2, NoInfoIs DEF WriterOK, Coherent
  <2>4. Rest
    BY <1>0, <2>1, <2>2, <2>3, WriterStep DEF Rest
  <2> QED
    BY <2>1, <2>4, Types, Assemble DEF AInv, TypeOK, ScannedMeansAnnotated, ReportedMeansStored
<1>2. CASE versionResults
  <2> DEFINE info == a.base
             m == UpdateAnnotations(info, VersionOf[Arbiter], info.url, info.scan, hub[info.url])
             q == [a EXCEPT !.pc = "get", !.results = m]
  <2>1. UNCHANGED <<ann, hub, mapped, scans, done, edits, faults>>
    BY <1>2 DEF versionResults
  <2>2. CASE Done(FALSE)
    <3>1. Rest /\ notified' = FALSE
      BY <1>0, <2>1, <2>2, GiveUpStep DEF Rest, Done
    <3> QED
      BY <2>1, <3>1, Types, Assemble DEF AInv, TypeOK, ReportedMeansStored
  <2>3. CASE /\ HasProject(info) /\ InHub(info.url) /\ UNCHANGED notified
             /\ writer' = [writer EXCEPT ![Arbiter].pc = "get", ![Arbiter].results = m]
    <3>1. info \in Info /\ Coherent(info) /\ info.scan # None
      BY <1>0, <2>3, Types DEF WriterOK, HasProject
    <3>2. info.scan \in 1..MaxScans /\ info.url \in 1..MaxScans \cup {None} /\ info.url = mapped[info.scan]
      BY <3>1 DEF Info, Coherent
    <3>3. info.url \in 1..MaxScans /\ hub[info.url] \in 0..MaxCount
      BY <2>3, <3>2, InHubIs
    <3>4. m \in Info /\ Coherent(m) /\ m.scan = info.scan
      BY <1>0, <3>1, <3>2, <3>3, ResultIs, Constants
    <3> HIDE DEF m
    <3>5. writer' = [writer EXCEPT ![Arbiter] = q]
      BY <2>3, Types
    <3>6. q \in WriterState /\ q.pc = "get" /\ q.results = m /\ q.base = info
      BY <1>0, <3>4 DEF WriterState
    <3> HIDE DEF q
    <3>7. WriterOK(q)
      BY <3>1, <3>4, <3>6 DEF WriterOK
    <3>8. Rest
      BY <1>0, <2>1, <3>5, <3>6, <3>7, WriterStep DEF Rest
    <3> QED
      BY <2>1, <2>3, <3>8, Types, Assemble DEF AInv, TypeOK, ScannedMeansAnnotated, ReportedMeansStored
  <2> QED
    BY <1>2, <2>2, <2>3 DEF versionResults
<1>3. CASE ArbiterGets
  <2> DEFINE q == [a EXCEPT !.pc = "again", !.fresh = TRUE]
  <2>1. /\ a.pc = "get" /\ writer' = [writer EXCEPT ![Arbiter] = q]
        /\ UNCHANGED <<ann, hub, mapped, scans, notified, done, edits, faults>>
    BY <1>3, Types DEF ArbiterGets, reports
  <2>2. q \in WriterState /\ q.pc = "again" /\ q.results = a.results /\ q.base = a.base
    BY <1>0 DEF WriterState
  <2> HIDE DEF q
  <2>3. WriterOK(q)
    BY <1>0, <2>1, <2>2 DEF WriterOK
  <2>4. Rest
    BY <1>0, <2>1, <2>2, <2>3, WriterStep DEF Rest
  <2> QED
    BY <2>1, <2>4, Types, Assemble DEF AInv, TypeOK, ScannedMeansAnnotated, ReportedMeansStored
<1>4. CASE ArbiterGetsAgain
  <2> DEFINE q == [a EXCEPT !.pc = "update", !.base = ann]
  <2>1. /\ a.pc = "again" /\ writer' = [writer EXCEPT ![Arbiter] = q]
        /\ UNCHANGED <<ann, hub, mapped, scans, notified, done, edits, faults>>
    BY <1>4, Types DEF ArbiterGetsAgain, reports
  <2>2. q \in WriterState /\ q.pc = "update" /\ q.results = a.results /\ q.base = ann
    BY <1>0 DEF WriterState
  <2> HIDE DEF q
  <2>3. WriterOK(q)
    BY <1>0, <2>1, <2>2 DEF WriterOK
  <2>4. Rest
    BY <1>0, <2>1, <2>2, <2>3, WriterStep DEF Rest
  <2> QED
    BY <2>1, <2>4, Types, Assemble DEF AInv, TypeOK, ScannedMeansAnnotated, ReportedMeansStored
<1> QED
  BY <1>1, <1>2, <1>3, <1>4

\* The arbiter's job fails, dies, or stores what it has: only then does it
\* report the image as scanned.
LEMMA ArbiterEndsAInv ==
    ASSUME AInv, ArbiterFails \/ ArbiterPanics \/ ArbiterUpdates
    PROVE  AInv'
<1>0. Arbiter \in Writer
  BY Constants
<1>1. ASSUME NEW result \in {FALSE, None}, Done(result), Fault \/ UNCHANGED faults,
             UNCHANGED <<ann, hub, mapped, scans, done, edits>>
      PROVE  AInv'
  <2>1. GiveUp(Arbiter) /\ notified' = result
    BY <1>1 DEF Done
  <2>2. Rest /\ faults' \in 0..MaxFaults
    BY <1>0, <1>1, <2>1, GiveUpStep, FaultType DEF Rest
  <2>3. notified' \in {TRUE, FALSE, None} /\ (notified' = TRUE => ann'.scan # None)
    BY <1>1, <2>1, Constants
  <2> QED
    BY <1>1, <2>2, <2>3, Types, Assemble DEF AInv, TypeOK, ReportedMeansStored
<1>2. CASE /\ writer[Arbiter].pc = "update"
           /\ Write(Merged(Arbiter), [writer EXCEPT ![Arbiter] = Idle])
           /\ notified' = TRUE /\ UNCHANGED <<hub, mapped, scans, done, edits, faults>>
  <2>1. Rest /\ ann' \in Info /\ ann'.scan # None
    BY <1>0, <1>2, StoreStep DEF Rest
  <2> QED
    BY <1>2, <2>1, Types, Assemble DEF AInv, TypeOK, ReportedMeansStored
<1> QED
  BY <1>1, <1>2 DEF ArbiterFails, ArbiterPanics, ArbiterUpdates

\* The Hub counts anew, or loses the project version.
LEMMA HubChangesAInv ==
    ASSUME AInv, NEW n \in 1..MaxScans, HubChanges(n)
    PROVE  AInv'
<1>1. /\ edits > 0 /\ edits' = edits - 1
      /\ UNCHANGED <<ann, mapped, writer, scans, notified, done, faults>>
  BY DEF HubChanges, reports
<1>2. PICK count \in 0..MaxCount \cup {None} : hub' = [hub EXCEPT ![n] = count]
  BY DEF HubChanges
<1>3. hub' \in [1..MaxScans -> 0..MaxCount \cup {None}]
  BY <1>2, Types
<1>4. edits' \in 0..MaxEdits
  BY <1>1, Types, Constants
<1>5. TypeOK'
  BY <1>1, <1>3, <1>4 DEF AInv, TypeOK
<1>6. Coherent(ann)' /\ ScansOK' /\ OutcomesOK' /\ ScannedMeansAnnotated' /\ ReportedMeansStored'
  BY <1>1 DEF AInv, Coherent, ScansOK, Scanning, OutcomesOK, ScannedMeansAnnotated,
     ReportedMeansStored
<1>7. WritersOK' /\ ControllersOK'
  BY <1>1 DEF AInv, WritersOK, WriterOK, Coherent, ControllersOK, ControllerOK, Scanning
<1> QED
  BY <1>5, <1>6, <1>7 DEF AInv

\* Somebody else annotates the image.
LEMMA ForeignEditAInv ==
    ASSUME AInv, ForeignEdit
    PROVE  AInv'
<1> DEFINE new == [ann EXCEPT !.foreign = MaxEdits - edits + 1]
<1>1. /\ edits > 0 /\ edits' = edits - 1 /\ Write(new, writer)
      /\ UNCHANGED <<hub, mapped, scans, notified, done, faults>>
  BY DEF ForeignEdit, reports
<1>2. edits' \in 0..MaxEdits /\ MaxEdits - edits + 1 \in 0..MaxEdits
  BY <1>1, Types, Constants
<1>3. /\ new \in Info /\ new.by = ann.by /\ new.url = ann.url /\ new.scan = ann.scan
      /\ new.counts = ann.counts
  BY <1>2, Types DEF Info
<1>4. ann' = new
  BY <1>1 DEF Write
<1> HIDE DEF new
<1>5. Coherent(new)
  BY <1>3, Types DEF Coherent
<1>6. Rest /\ ann' \in Info
  BY <1>1, <1>3, <1>5, Types, WriteStep DEF Rest
<1> QED
  BY <1>1, <1>2, <1>3, <1>4, <1>6, Types, Assemble DEF AInv, TypeOK, ScannedMeansAnnotated, ReportedMeansStored

\* Nobody has written yet.
LEMMA InitAInv ==
    ASSUME Init
    PROVE  AInv
<1>1. /\ ann \in Info /\ ann.by = None /\ ann.url = None /\ ann.scan = None /\ ann.counts = None
  BY NoInfoIs, Constants DEF Init, Info
<1>2. TypeOK
  BY <1>1, IdleIs, Constants DEF Init, TypeOK
<1>3. Coherent(ann)
  BY <1>1 DEF Coherent
<1>4. \A w \in Writer : writer[w] = Idle
  BY DEF Init
<1>5. WritersOK
  BY <1>4, IdleOK DEF WritersOK
<1>6. ControllersOK
  BY <1>4, IdleOK, Constants DEF ControllersOK
<1>7. ScansOK
  BY <1>4, IdleOK, Constants DEF ScansOK, Init
<1>8. OutcomesOK /\ ScannedMeansAnnotated /\ ReportedMeansStored
  BY <1>4, IdleIs, Constants DEF Init, OutcomesOK, ScannedMeansAnnotated, ReportedMeansStored
<1> QED
  BY <1>2, <1>3, <1>5, <1>6, <1>7, <1>8 DEF AInv

\* One case for each action.
LEMMA NextAInv ==
    ASSUME AInv, [Next]_vars
    PROVE  AInv'
<1>1. ASSUME NEW c \in Controller,
             StartScan(c) \/ ControllerStep(c) \/ ControllerFails(c) \/ UpdateFails(c)
      PROVE  AInv'
  BY <1>1, StartScanAInv, UploadAInv, ScanResultsAInv, GetImageAInv, UpdateAInv, ReportAInv,
     ControllerFailsAInv, UpdateFailsAInv DEF ControllerStep
<1>2. CASE Notification \/ ArbiterFails \/ ArbiterPanics
  BY <1>2, ArbiterReadsAInv, ArbiterEndsAInv DEF Notification
<1>3. ASSUME NEW n \in 1..MaxScans, HubChanges(n)
      PROVE  AInv'
  BY <1>3, HubChangesAInv
<1>4. CASE ForeignEdit
  BY <1>4, ForeignEditAInv
<1>5. CASE UNCHANGED vars
  BY <1>5 DEF vars, reports, AInv, TypeOK, WritersOK, WriterOK, Coherent, ControllersOK,
     ControllerOK, ScansOK, Scanning, OutcomesOK, ScannedMeansAnnotated, ReportedMeansStored
<1> QED
  BY <1>1, <1>2, <1>3, <1>4, <1>5 DEF Next

-----------------------------------------------------------------------------
(***************************************************************************)
(* Theorems.                                                               *)
(***************************************************************************)

\* AInv is an inductive invariant.
THEOREM AnnotationsInvariant == Spec => []AInv
<1>1. Init => AInv
  BY InitAInv
<1>2. AInv /\ [Next]_vars => AInv'
  BY NextAInv
<1> QED
  BY <1>1, <1>2, PTL DEF Spec

\* Type correctness.
THEOREM AnnotationsTypeCorrect == Spec => []TypeOK
<1>1. AInv => TypeOK
  BY DEF AInv
<1> QED
  BY <1>1, AnnotationsInvariant, PTL

\* The image's record is of one scan, whoever merged what he had read into
\* whatever is there: project version, scan id, counts and attestation always
\* come together.
THEOREM RecordsAlwaysCoherent == Spec => []RecordsCoherent
<1>1. AInv => RecordsCoherent
  BY DEF AInv, Coherent, RecordsCoherent
<1> QED
  BY <1>1, AnnotationsInvariant, PTL

\* The arbiter's notification job says "scanned" only of an image that carries
\* the record of a scan.
THEOREM NotifiedScansAnnotated == Spec => []ScannedMeansAnnotated
<1>1. AInv => ScannedMeansAnnotated
  BY DEF AInv
<1> QED
  BY <1>1, AnnotationsInvariant, PTL

\* A scan that was reported done and whose results were accepted has a record
\* on the image, now and for ever after, whatever others merge into it.
THEOREM ReportedScansStored == Spec => []ReportedMeansStored
<1>1. AInv => ReportedMeansStored
  BY DEF AInv
<1> QED
  BY <1>1, AnnotationsInvariant, PTL

\* A controller stores its results without taking back what others have
\* annotated, however their reads and writes interleave.
THEOREM ForeignAnnotationsKept == Spec => ControllersKeepForeign
<1> DEFINE Kept == \A c \in Controller :
              (writer[c].pc = "update" /\ writer'[c].pc # "update") => ann'.foreign = ann.foreign
<1>1. AInv /\ [Next]_vars => [Kept]_vars
  <2> SUFFICES ASSUME AInv, Next, NEW c \in Controller,
                      writer[c].pc = "update", writer'[c].pc # "update"
               PROVE  ann'.foreign = ann.foreign
    OBVIOUS
  <2>0. c \in Writer /\ c # Arbiter /\ writer \in [Writer -> WriterState]
    BY Constants, Types
  <2>1. ASSUME NEW d \in Controller, Update(d), ann' # ann
        PROVE  ann'.foreign = ann.foreign
    <3>1. writer[d].fresh /\ writer[d].pc = "update" /\ ann' = Merged(d)
      BY <2>1 DEF Update, Write
    <3>2. d \in Writer /\ writer[d].results.foreign = None /\ writer[d].base = ann
      BY <3>1, Types, Constants DEF ControllerOK
    <3> QED
      BY <3>1, <3>2, Types, MergeIs DEF Merged
  <2>2. ASSUME NEW new, NEW locals, Write(new, locals), locals[c] = writer[c]
        PROVE  FALSE
    <3>1. writer'[c] = [locals[c] EXCEPT !.fresh = FALSE] /\ writer[c] \in WriterState
      BY <2>0, <2>2 DEF Write
    <3>2. writer'[c].pc = writer[c].pc
      BY <2>2, <3>1 DEF WriterState
    <3> QED
      BY <3>2
  <2>3. ~ForeignEdit
    BY <2>2 DEF ForeignEdit
  <2>4. ArbiterUpdates => UNCHANGED ann
    <3>1. [writer EXCEPT ![Arbiter] = Idle][c] = writer[c]
      BY <2>0
    <3> QED
      BY <2>2, <3>1 DEF ArbiterUpdates
  <2>5. ASSUME ~ForeignEdit, ~ArbiterUpdates, \A d \in Controller : ~Update(d)
        PROVE  UNCHANGED ann
    BY <2>5 DEF Next, ControllerStep, Notification, StartScan, Upload, ScanResults, GetImage,
       ControllerFails, UpdateFails, Report, GetImageAnnotationInfo, versionResults, ArbiterGets, ArbiterGetsAgain,
       ArbiterFails, ArbiterPanics, HubChanges
  <2> QED
    BY <2>1, <2>3, <2>4, <2>5
<1> QED
  BY <1>1, AnnotationsInvariant, PTL DEF Spec, ControllersKeepForeign
=============================================================================
