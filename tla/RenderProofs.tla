---------------------------- MODULE RenderProofs ----------------------------
(***************************************************************************)
(* What the page shows belongs together and is what was chosen, for any     *)
(* number of overlapping renders, targets, windows and filters, with        *)
(* requests answered in any order.                                          *)
(***************************************************************************)
EXTENDS Render, TLAPS

Pcs == {"unborn", "list", "series", "compare"} \cup Over

ARender == [pc : Pcs, list : SUBSET SUBSET Names, name : Names \cup {NoName},
            win : Windows \cup {0}, mode : Modes, aborted : BOOLEAN,
            cmp : {"off", "flying", "aborted", "line", "empty", "failed"}]

Types ==
    /\ r \in [Renders -> ARender]
    /\ table \subseteq Names /\ call \subseteq Names \cup {NoName}
    /\ targets \subseteq Names /\ pills \subseteq targets
    /\ current \in Names \cup {NoName} /\ win \in Windows /\ cmpMode \in Modes
    /\ renderSeq \in Renders /\ inflight \in 0 .. renderSeq /\ cmpInflight \in 0 .. renderSeq
    /\ rendering \in BOOLEAN /\ late \in BOOLEAN
    /\ drawn.seq \in 0 .. renderSeq /\ cmpData.seq \in 0 .. renderSeq
    /\ legend \in {"plain", "promised", "unavailable", "noData"}

\* The controllers the page keeps; nothing aborts a render that has sent no request.
Controllers ==
    /\ \A k \in Renders : r[k].pc = "unborn" <=> k > renderSeq
    /\ \A k \in Renders : r[k].pc \in {"unborn", "list"} => ~r[k].aborted /\ r[k].cmp = "off"
    /\ \A k \in Renders : r[k].pc = "unborn" => r[k].list = {}
    /\ inflight # 0 => r[inflight].pc = "series" /\ ~r[inflight].aborted
    /\ cmpInflight # 0 => r[cmpInflight].cmp = "flying"

\* The newest render has asked for what is chosen, and goes on.
Newest ==
    LET n == r[renderSeq]
    IN  /\ ~n.aborted /\ n.cmp # "aborted"
        /\ n.pc \in {"series", "compare"} =>
              /\ n.win = win /\ n.mode = cmpMode /\ (n.name = current \/ late)
              /\ n.cmp = "off" <=> n.mode = "off"
        /\ n.pc = "compare" =>
              /\ drawn.seq = renderSeq /\ drawn.name = n.name /\ drawn.win = n.win /\ drawn.mode = n.mode
              /\ cmpData = NoLine
              /\ legend = IF n.mode = "off" THEN "plain" ELSE "promised"
        /\ n.pc = "done" =>
              /\ drawn.seq = renderSeq /\ drawn.win = win /\ drawn.mode = cmpMode
              /\ drawn.name = current \/ late
              /\ legend = "promised" <=> cmpData # NoLine

\* A list the newest render has been served lacks only what is gone.
Missing ==
    /\ Names \ table \subseteq gone
    /\ \A got \in r[renderSeq].list : Names \ got \subseteq gone

IInv == Types /\ Controllers /\ LockedWhileNewestRuns /\ OneChart /\ Newest /\ Missing
-----------------------------------------------------------------------------
LEMMA Numbers ==
    ASSUME Types
    PROVE  /\ Renders \subseteq Nat /\ renderSeq \in Renders /\ renderSeq \in Nat /\ renderSeq > 0
           /\ 0 \notin Renders /\ inflight \in 0 .. renderSeq /\ cmpInflight \in 0 .. renderSeq
           /\ inflight # 0 => inflight \in Renders
           /\ cmpInflight # 0 => cmpInflight \in Renders
BY RenderAssumption DEF Types, Renders

LEMMA InitIInv == Init => IInv
<1> SUFFICES ASSUME Init PROVE IInv
  OBVIOUS
<1>1. /\ 1 \in Renders /\ renderSeq = 1 /\ rendering = TRUE
      /\ Renders \subseteq Nat /\ \A k \in Renders : k > 1 <=> k # 1
  BY RenderAssumption DEF Init, Renders
<1>2. Unborn \in ARender /\ [Unborn EXCEPT !.pc = "list"] \in ARender
  BY DEF Unborn, ARender, Pcs, Over, Modes
<1>3. \A k \in Renders : r[k] = IF k = 1 THEN [Unborn EXCEPT !.pc = "list"] ELSE Unborn
  BY DEF Init
<1>4. r \in [Renders -> ARender]
  BY <1>2 DEF Init
<1>5. Types
  <2>1. current \in Names \cup {NoName} /\ win \in Windows /\ cmpMode \in Modes
    BY RenderAssumption DEF Init, Modes
  <2>2. /\ table \subseteq Names /\ call = {} /\ targets = {} /\ pills = {}
        /\ inflight = 0 /\ cmpInflight = 0 /\ late = FALSE
        /\ drawn.seq = 0 /\ cmpData.seq = 0 /\ legend = "plain"
    BY DEF Init, NoLine
  <2>3. inflight \in 0 .. renderSeq /\ cmpInflight \in 0 .. renderSeq
    BY <1>1, <2>2
  <2>4. drawn.seq \in 0 .. renderSeq /\ cmpData.seq \in 0 .. renderSeq
    BY <1>1, <2>2
  <2>5. rendering \in BOOLEAN /\ late \in BOOLEAN
    BY <1>1, <2>2
  <2> QED
    BY <1>1, <1>4, <2>1, <2>2, <2>3, <2>4, <2>5 DEF Types
<1>6. Controllers
  BY <1>1, <1>3 DEF Init, Controllers, Unborn
<1>7. LockedWhileNewestRuns /\ OneChart /\ Newest /\ Missing
  BY <1>1, <1>3 DEF Init, LockedWhileNewestRuns, OneChart, Newest, Missing, Unborn, Over, NoLine
<1> QED
  BY <1>5, <1>6, <1>7 DEF IInv

\* A click, the minute, or an answer to the editor: a new render.
LEMMA BeginKeeps ==
    ASSUME IInv, Begin, UNCHANGED << table, flights, chart, targets, pills >>,
           call' \subseteq Names \cup {NoName}, current' \in Names \cup {NoName},
           win' \in Windows, cmpMode' \in Modes
    PROVE  IInv'
<1> DEFINE n == renderSeq + 1
<1>1. /\ n \in Renders /\ renderSeq' = n /\ rendering' = TRUE /\ late' = FALSE
      /\ r' = [r EXCEPT ![n].pc = "list"] /\ gone' = Names \ table
      /\ renderSeq \in Renders /\ Renders \subseteq Nat
  BY RenderAssumption DEF Begin, IInv, Types, Renders
<1>2. r \in [Renders -> ARender] /\ r[n] \in ARender
  BY <1>1 DEF IInv, Types
<1>3. /\ r[n].pc = "unborn" /\ ~r[n].aborted /\ r[n].cmp = "off" /\ r[n].list = {}
  BY <1>1 DEF IInv, Controllers
<1>4. /\ r' \in [Renders -> ARender]
      /\ \A k \in Renders : k # n => r'[k] = r[k]
      /\ r'[n].pc = "list" /\ ~r'[n].aborted /\ r'[n].cmp = "off" /\ r'[n].list = {}
  BY <1>1, <1>2, <1>3 DEF ARender, Pcs
<1>5. Types'
  <2>1. \A k : k \in 0 .. renderSeq => k \in 0 .. n
    BY <1>1
  <2> QED
    BY <1>1, <1>4, <2>1 DEF IInv, Types, flights, chart
<1>6. Controllers'
  <2>1. /\ \A k \in Renders : r'[k].pc = "unborn" <=> k > n
        /\ \A k \in Renders : r'[k].pc \in {"unborn", "list"} => ~r'[k].aborted /\ r'[k].cmp = "off"
        /\ \A k \in Renders : r'[k].pc = "unborn" => r'[k].list = {}
    BY <1>1, <1>4 DEF IInv, Controllers
  <2>2. inflight' # 0 => r'[inflight'].pc = "series" /\ ~r'[inflight'].aborted
    BY <1>1, <1>4 DEF IInv, Controllers, Types, flights, Renders
  <2>3. cmpInflight' # 0 => r'[cmpInflight'].cmp = "flying"
    BY <1>1, <1>4 DEF IInv, Controllers, Types, flights, Renders
  <2> QED
    BY <1>1, <2>1, <2>2, <2>3 DEF Controllers
<1>7. LockedWhileNewestRuns' /\ Newest' /\ Missing'
  BY <1>1, <1>4 DEF LockedWhileNewestRuns, Newest, Missing, Over
<1>8. OneChart'
  BY DEF IInv, OneChart, chart
<1> QED
  BY <1>5, <1>6, <1>7, <1>8 DEF IInv

\* A write at the server.
LEMMA AltersKeeps ==
    ASSUME IInv, NEW T \in SUBSET Names, Alters(T), call' \subseteq Names \cup {NoName}
    PROVE  IInv'
<1>1. /\ table' = T /\ gone' = gone \cup (Names \ T)
      /\ UNCHANGED << targets, pills, current, filter, win, cmpMode, renderSeq, rendering,
                      inflight, cmpInflight, r, drawn, cmpData, legend, late >>
  BY DEF Alters, page, choice, flights, chart
<1>2. Types' /\ Controllers'
  BY <1>1 DEF IInv, Types, Controllers
<1>3. LockedWhileNewestRuns' /\ OneChart' /\ Newest'
  BY <1>1 DEF IInv, LockedWhileNewestRuns, OneChart, Newest
<1>4. Missing'
  BY <1>1 DEF IInv, Missing
<1> QED
  BY <1>2, <1>3, <1>4 DEF IInv

LEMMA ServeKeeps ==
    ASSUME IInv, NEW k \in Renders, Serve(k)
    PROVE  IInv'
<1>1. /\ r[k].pc = "list" /\ r' = [r EXCEPT ![k].list = {table}]
      /\ UNCHANGED << table, call, targets, pills, current, filter, win, cmpMode, renderSeq, rendering,
                      inflight, cmpInflight, drawn, cmpData, legend, gone, late >>
  BY DEF Serve, server, page, choice, flights, chart
<1>2. r \in [Renders -> ARender] /\ r[k] \in ARender /\ table \subseteq Names
  BY DEF IInv, Types
<1>3. /\ r' \in [Renders -> ARender]
      /\ \A j \in Renders : /\ r'[j].pc = r[j].pc /\ r'[j].name = r[j].name /\ r'[j].win = r[j].win
                            /\ r'[j].mode = r[j].mode /\ r'[j].aborted = r[j].aborted /\ r'[j].cmp = r[j].cmp
                            /\ r'[j].list = IF j = k THEN {table} ELSE r[j].list
  <2>1. [r[k] EXCEPT !.list = {table}] \in ARender
    BY <1>2 DEF ARender
  <2>2. r' = [r EXCEPT ![k] = [r[k] EXCEPT !.list = {table}]]
    BY <1>1
  <2> QED
    BY <1>2, <2>1, <2>2 DEF ARender
<1>4. renderSeq \in Renders /\ Renders \subseteq Nat
  BY DEF IInv, Types, Renders
<1>5. Types'
  BY <1>1, <1>3 DEF IInv, Types
<1>6. Controllers'
  <2>1. /\ inflight # 0 => inflight \in Renders
        /\ cmpInflight # 0 => cmpInflight \in Renders
    BY Numbers DEF IInv
  <2> QED
    BY <1>1, <1>3, <2>1 DEF IInv, Controllers
<1>7. LockedWhileNewestRuns' /\ OneChart' /\ Newest'
  BY <1>1, <1>3, <1>4 DEF IInv, LockedWhileNewestRuns, OneChart, Newest
<1>8. Missing'
  BY <1>1, <1>3, <1>4 DEF IInv, Missing
<1> QED
  BY <1>5, <1>6, <1>7, <1>8 DEF IInv

\* What a render that is over leaves behind.
LEMMA LeavesFacts ==
    ASSUME IInv, NEW k \in Renders, NEW how \in {"done", "gaveUp"}, Leaves(k, how)
    PROVE  /\ r' \in [Renders -> ARender]
           /\ \A j \in Renders : j # k => r'[j] = r[j]
           /\ r'[k].pc = IF k # renderSeq THEN "superseded" ELSE how
           /\ ~r'[k].aborted /\ r'[k].list = {}
           /\ r'[k].cmp = IF r[k].cmp = "flying" THEN "flying" ELSE "off"
           /\ rendering' = (rendering /\ k # renderSeq)
<1> DEFINE over == [Unborn EXCEPT !.pc = IF Superseded(k) THEN "superseded" ELSE how,
                                  !.cmp = IF r[k].cmp = "flying" THEN "flying" ELSE "off"]
<1>1. r' = [r EXCEPT ![k] = over] /\ r \in [Renders -> ARender]
  BY DEF Leaves, IInv, Types
<1>2. /\ over.pc = (IF k # renderSeq THEN "superseded" ELSE how)
      /\ over.cmp = (IF r[k].cmp = "flying" THEN "flying" ELSE "off")
      /\ over.aborted = FALSE /\ over.list = {}
      /\ over \in ARender
  BY DEF Unborn, Superseded, ARender, Pcs, Over, Modes
<1> HIDE DEF over
<1> QED
  BY <1>1, <1>2 DEF Leaves, Unlock, Superseded

\* A render ends without touching the chart: superseded, or nothing to show.
LEMMA GivesUpKeeps ==
    ASSUME IInv, NEW k \in Renders, Leaves(k, "gaveUp"), r[k].pc \notin {"unborn"} \cup Over,
           UNCHANGED << table, call, filter, win, cmpMode, renderSeq, cmpInflight, chart, gone >>,
           inflight' = (IF r[k].pc = "series" /\ inflight = k THEN 0 ELSE inflight),
           targets' \subseteq Names, pills' \subseteq targets', current' \in Names \cup {NoName},
           late' \in BOOLEAN, late => late', current' # current => late' \/ k = renderSeq
    PROVE  IInv'
<1>1. /\ r' \in [Renders -> ARender]
      /\ \A j \in Renders : j # k => r'[j] = r[j]
      /\ r'[k].pc = IF k # renderSeq THEN "superseded" ELSE "gaveUp"
      /\ ~r'[k].aborted /\ r'[k].list = {}
      /\ r'[k].cmp = IF r[k].cmp = "flying" THEN "flying" ELSE "off"
      /\ rendering' = (rendering /\ k # renderSeq)
  BY LeavesFacts
<1>2. renderSeq \in Renders /\ Renders \subseteq Nat /\ renderSeq' = renderSeq /\ renderSeq \in Nat
  BY Numbers DEF IInv
<1>3. /\ inflight \in 0 .. renderSeq /\ cmpInflight \in 0 .. renderSeq
      /\ inflight # 0 => inflight \in Renders
      /\ cmpInflight # 0 => cmpInflight \in Renders
  BY Numbers DEF IInv
<1>4. Types'
  <2>1. inflight' \in 0 .. renderSeq
    BY <1>2, <1>3
  <2>2. rendering' \in BOOLEAN
    BY <1>1
  <2> QED
    BY <1>1, <1>2, <2>1, <2>2 DEF IInv, Types, chart
<1>5. Controllers'
  <2>1. \A j \in Renders : r'[j].pc = "unborn" <=> j > renderSeq
    BY <1>1 DEF IInv, Controllers, Over
  <2>2. /\ \A j \in Renders : r'[j].pc \in {"unborn", "list"} => ~r'[j].aborted /\ r'[j].cmp = "off"
        /\ \A j \in Renders : r'[j].pc = "unborn" => r'[j].list = {}
    BY <1>1 DEF IInv, Controllers
  <2>3. inflight' # 0 => r'[inflight'].pc = "series" /\ ~r'[inflight'].aborted
    BY <1>1, <1>3 DEF IInv, Controllers
  <2>4. cmpInflight # 0 => r'[cmpInflight].cmp = "flying"
    BY <1>1, <1>3 DEF IInv, Controllers
  <2> QED
    BY <2>1, <2>2, <2>3, <2>4 DEF Controllers
<1>6. LockedWhileNewestRuns'
  BY <1>1, <1>2 DEF IInv, LockedWhileNewestRuns, Over
<1>7. OneChart'
  BY DEF IInv, OneChart, chart
<1>8. Newest'
  <2>1. CASE k = renderSeq
    BY <1>1, <1>2, <2>1 DEF IInv, Newest
  <2>2. CASE k # renderSeq
    <3>1. r'[renderSeq] = r[renderSeq] /\ (current' = current \/ late')
      BY <1>1, <1>2, <2>2
    <3> QED
      BY <1>2, <3>1 DEF IInv, Newest, chart
  <2> QED
    BY <2>1, <2>2
<1>9. Missing'
  BY <1>1, <1>2 DEF IInv, Missing
<1> QED
  BY <1>4, <1>5, <1>6, <1>7, <1>8, <1>9 DEF IInv

\* The newest render sends its requests and aborts those in flight.
LEMMA RequestsKeeps ==
    ASSUME IInv, NEW k \in Renders, k = renderSeq, r[k].pc = "list",
           NEW cur \in Names \cup {NoName}, Requests(k, cur), current' = cur,
           UNCHANGED << table, call, filter, win, renderSeq, chart, gone, late >>,
           targets' \subseteq Names, pills' \subseteq targets'
    PROVE  IInv'
<1> DEFINE mode == IF CmpValid(cmpMode) THEN cmpMode ELSE "off"
<1>1. /\ cmpMode' = mode /\ inflight' = k /\ cmpInflight' = (IF mode = "off" THEN 0 ELSE k)
      /\ r' = [j \in Renders |->
                 IF j = k
                 THEN [r[k] EXCEPT !.pc = "series", !.list = {}, !.name = cur, !.win = win, !.mode = mode,
                                   !.cmp = IF mode = "off" THEN "off" ELSE "flying"]
                 ELSE [r[j] EXCEPT !.aborted = @ \/ j = inflight,
                                   !.cmp = IF j # cmpInflight THEN @
                                           ELSE IF r[j].pc \in Over THEN "off" ELSE "aborted"]]
      /\ rendering' = rendering
  BY DEF Requests
<1>2. mode \in Modes /\ win \in Windows
  BY DEF IInv, Types, Modes
<1> HIDE DEF mode
<1>3. \A j \in Renders : r[j] \in ARender
  BY DEF IInv, Types
<1>4. /\ r'[k] \in ARender
      /\ r'[k].pc = "series" /\ r'[k].list = {} /\ r'[k].name = cur /\ r'[k].win = win
      /\ r'[k].mode = mode /\ r'[k].aborted = r[k].aborted
      /\ r'[k].cmp = IF mode = "off" THEN "off" ELSE "flying"
  <2> DEFINE new == [r[k] EXCEPT !.pc = "series", !.list = {}, !.name = cur, !.win = win, !.mode = mode,
                                 !.cmp = IF mode = "off" THEN "off" ELSE "flying"]
  <2>1. r'[k] = new
    BY <1>1
  <2>2. new \in ARender /\ new.pc = "series" /\ new.list = {} /\ new.name = cur /\ new.win = win
    BY <1>2, <1>3 DEF ARender, Pcs
  <2>3. /\ new.mode = mode /\ new.aborted = r[k].aborted
        /\ new.cmp = IF mode = "off" THEN "off" ELSE "flying"
    BY <1>2, <1>3 DEF ARender
  <2> HIDE DEF new
  <2> QED
    BY <2>1, <2>2, <2>3
<1>5. ASSUME NEW j \in Renders, j # k
      PROVE  /\ r'[j] \in ARender
             /\ r'[j].pc = r[j].pc /\ r'[j].list = r[j].list
             /\ r'[j].aborted = (r[j].aborted \/ j = inflight)
             /\ r'[j].cmp = IF j # cmpInflight THEN r[j].cmp
                            ELSE IF r[j].pc \in Over THEN "off" ELSE "aborted"
  <2> DEFINE c == IF j # cmpInflight THEN r[j].cmp
                  ELSE IF r[j].pc \in Over THEN "off" ELSE "aborted"
             a == r[j].aborted \/ j = inflight
             new == [r[j] EXCEPT !.aborted = a, !.cmp = c]
  <2>1. r'[j] = new
    BY <1>1, <1>5
  <2>2. c \in {"off", "flying", "aborted", "line", "empty", "failed"} /\ a \in BOOLEAN
    BY <1>3 DEF ARender
  <2> HIDE DEF c, a
  <2>3. new \in ARender /\ new.pc = r[j].pc /\ new.list = r[j].list /\ new.aborted = a /\ new.cmp = c
    BY <2>2, <1>3 DEF ARender
  <2> HIDE DEF new
  <2> QED
    BY <2>1, <2>3 DEF c, a
<1>6. /\ Renders \subseteq Nat /\ 0 \notin Renders /\ renderSeq \in Nat /\ renderSeq > 0 /\ renderSeq' = renderSeq
      /\ inflight # 0 => inflight \in Renders
      /\ cmpInflight # 0 => cmpInflight \in Renders
  BY Numbers DEF IInv
<1>7. Types'
  <2>1. r' \in [Renders -> ARender]
    BY <1>1, <1>4, <1>5
  <2>2. inflight' \in 0 .. renderSeq /\ cmpInflight' \in 0 .. renderSeq
    <3>1. inflight' = renderSeq /\ (cmpInflight' = 0 \/ cmpInflight' = renderSeq)
      BY <1>1
    <3> QED
      BY <3>1, <1>6
  <2> QED
    BY <1>1, <1>2, <1>6, <2>1, <2>2 DEF IInv, Types, chart
<1>8. ~r[k].aborted /\ r[k].cmp = "off"
  BY DEF IInv, Controllers
<1>9. Controllers'
  <2>1. \A j \in Renders : r'[j].pc = "unborn" <=> j > renderSeq
    BY <1>4, <1>5, <1>6 DEF IInv, Controllers
  <2>2. ASSUME NEW j \in Renders, r'[j].pc \in {"unborn", "list"}
        PROVE  ~r'[j].aborted /\ r'[j].cmp = "off"
    <3>1. j # k
      BY <2>2, <1>4
    <3>2. r[j].pc \in {"unborn", "list"}
      BY <2>2, <3>1, <1>5
    <3>3. ~r[j].aborted /\ r[j].cmp = "off" /\ j # inflight /\ j # cmpInflight
      BY <3>2, <1>6 DEF IInv, Controllers
    <3> QED
      BY <3>1, <3>3, <1>5
  <2>3. \A j \in Renders : r'[j].pc = "unborn" => r'[j].list = {}
    BY <1>4, <1>5 DEF IInv, Controllers
  <2>4. inflight' # 0 => r'[inflight'].pc = "series" /\ ~r'[inflight'].aborted
    BY <1>1, <1>4, <1>8
  <2>5. cmpInflight' # 0 => r'[cmpInflight'].cmp = "flying"
    BY <1>1, <1>4
  <2> QED
    BY <1>6, <2>1, <2>2, <2>3, <2>4, <2>5 DEF Controllers
<1>10. LockedWhileNewestRuns'
  BY <1>1, <1>4, <1>6 DEF IInv, LockedWhileNewestRuns, Over
<1>11. OneChart'
  BY DEF IInv, OneChart, chart
<1>12. Newest'
  <2>1. /\ r'[renderSeq'].pc = "series" /\ ~r'[renderSeq'].aborted /\ r'[renderSeq'].cmp # "aborted"
        /\ r'[renderSeq'].win = win' /\ r'[renderSeq'].mode = cmpMode'
        /\ r'[renderSeq'].name = current'
    <3>1. renderSeq' = k /\ (IF mode = "off" THEN "off" ELSE "flying") # "aborted"
      BY <1>6
    <3>2. win' = win /\ cmpMode' = mode /\ current' = cur
      BY <1>1
    <3> QED
      BY <3>1, <3>2, <1>4, <1>8
  <2>2. r'[renderSeq'].cmp = "off" <=> r'[renderSeq'].mode = "off"
    BY <1>4, <1>6
  <2> QED
    BY <2>1, <2>2 DEF Newest
<1>13. Missing'
  BY <1>4, <1>6 DEF IInv, Missing
<1> QED
  BY <1>7, <1>9, <1>10, <1>11, <1>12, <1>13 DEF IInv

LEMMA ListArrivesKeeps ==
    ASSUME IInv, NEW k \in Renders, ListArrives(k)
    PROVE  IInv'
<1>1. PICK got \in r[k].list : \E cur \in FallBack(got \cap filter) :
         /\ targets' = got /\ pills' = got \cap filter /\ current' = cur
         /\ AfterList(k, got, cur)
  BY DEF ListArrives
<1>2. PICK cur \in FallBack(got \cap filter) :
         /\ targets' = got /\ pills' = got \cap filter /\ current' = cur
         /\ AfterList(k, got, cur)
  BY <1>1
<1>3. /\ r[k].pc = "list" /\ late' = (late \/ k # renderSeq)
      /\ UNCHANGED << table, call, filter, win, renderSeq, chart, gone >>
  BY DEF ListArrives, Superseded, server
<1>4. got \subseteq Names /\ cur \in Names \cup {NoName} /\ late \in BOOLEAN
  <2>1. r[k] \in ARender /\ current \in Names \cup {NoName} /\ late \in BOOLEAN
    BY DEF IInv, Types
  <2>2. got \subseteq Names
    BY <2>1 DEF ARender
  <2> QED
    BY <2>1, <2>2 DEF FallBack
<1>5. CASE ~Superseded(k) /\ cur \in got
  <2>1. Requests(k, cur) /\ k = renderSeq /\ late' = late
    BY <1>2, <1>3, <1>4, <1>5 DEF AfterList, Superseded
  <2> QED
    BY <2>1, <1>2, <1>3, <1>4, RequestsKeeps
<1>6. CASE ~(~Superseded(k) /\ cur \in got)
  <2>1. Leaves(k, "gaveUp") /\ UNCHANGED << cmpMode, inflight, cmpInflight >>
    BY <1>2, <1>6 DEF AfterList, flights
  <2>2. late' \in BOOLEAN /\ (late => late') /\ (late' \/ k = renderSeq)
    BY <1>3, <1>4
  <2> QED
    BY <2>1, <2>2, <1>2, <1>3, <1>4, GivesUpKeeps DEF Over
<1> QED
  BY <1>5, <1>6

LEMMA ListFailsKeeps ==
    ASSUME IInv, NEW k \in Renders, ListFails(k)
    PROVE  IInv'
<1>1. /\ r[k].pc = "list" /\ Leaves(k, "gaveUp")
      /\ UNCHANGED << table, call, targets, pills, current, filter, win, cmpMode, renderSeq,
                      inflight, cmpInflight, chart, gone, late >>
  BY DEF ListFails, server, page, choice, flights
<1> QED
  BY <1>1, GivesUpKeeps DEF IInv, Types, Over

\* The newest render draws the main chart.
LEMMA DrawKeeps ==
    ASSUME IInv, NEW k \in Renders, k = renderSeq, r[k].pc = "series",
           Draw(k), r' = [r EXCEPT ![k].pc = "compare"],
           inflight' = (IF inflight = k THEN 0 ELSE inflight),
           UNCHANGED << table, call, targets, pills, current, filter, win, cmpMode, renderSeq, rendering,
                        cmpInflight, gone, late >>
    PROVE  IInv'
<1>1. /\ drawn' = [seq |-> k, name |-> r[k].name, win |-> r[k].win, label |-> win, mode |-> r[k].mode]
      /\ cmpData' = NoLine /\ legend' = IF r[k].mode = "off" THEN "plain" ELSE "promised"
  BY DEF Draw
<1>2. /\ Renders \subseteq Nat /\ renderSeq \in Nat /\ renderSeq > 0
      /\ inflight \in 0 .. renderSeq /\ cmpInflight \in 0 .. renderSeq
      /\ inflight # 0 => inflight \in Renders
      /\ cmpInflight # 0 => cmpInflight \in Renders
  BY Numbers DEF IInv
<1>3. /\ r' \in [Renders -> ARender] /\ r'[k].pc = "compare"
      /\ \A j \in Renders : /\ j # k => r'[j].pc = r[j].pc
                            /\ r'[j].list = r[j].list /\ r'[j].name = r[j].name /\ r'[j].win = r[j].win
                            /\ r'[j].mode = r[j].mode /\ r'[j].aborted = r[j].aborted /\ r'[j].cmp = r[j].cmp
  <2>1. r \in [Renders -> ARender] /\ r[k] \in ARender
    BY DEF IInv, Types
  <2>2. [r[k] EXCEPT !.pc = "compare"] \in ARender
    BY <2>1 DEF ARender, Pcs
  <2>3. r' = [r EXCEPT ![k] = [r[k] EXCEPT !.pc = "compare"]]
    OBVIOUS
  <2> QED
    BY <2>1, <2>2, <2>3 DEF ARender
<1>4. r[k].win = win
  BY DEF IInv, Newest
<1>5. Types'
  <2>1. inflight' \in 0 .. renderSeq /\ drawn'.seq \in 0 .. renderSeq /\ cmpData'.seq \in 0 .. renderSeq
    BY <1>1, <1>2 DEF NoLine
  <2>2. legend' \in {"plain", "promised", "unavailable", "noData"}
    BY <1>1
  <2> QED
    BY <1>3, <2>1, <2>2 DEF IInv, Types
<1>6. Controllers'
  <2>1. \A j \in Renders : r'[j].pc = "unborn" <=> j > renderSeq
    BY <1>2, <1>3 DEF IInv, Controllers
  <2>2. /\ \A j \in Renders : r'[j].pc \in {"unborn", "list"} => ~r'[j].aborted /\ r'[j].cmp = "off"
        /\ \A j \in Renders : r'[j].pc = "unborn" => r'[j].list = {}
    BY <1>3 DEF IInv, Controllers
  <2>3. inflight' # 0 => r'[inflight'].pc = "series" /\ ~r'[inflight'].aborted
    BY <1>2, <1>3 DEF IInv, Controllers
  <2>4. cmpInflight # 0 => r'[cmpInflight].cmp = "flying"
    BY <1>2, <1>3 DEF IInv, Controllers
  <2> QED
    BY <2>1, <2>2, <2>3, <2>4 DEF Controllers
<1>7. LockedWhileNewestRuns'
  BY <1>3 DEF IInv, LockedWhileNewestRuns, Over
<1>8. OneChart'
  BY <1>1, <1>4 DEF OneChart
<1>9. Newest'
  BY <1>1, <1>3 DEF IInv, Newest
<1>10. Missing'
  BY <1>3 DEF IInv, Missing
<1> QED
  BY <1>5, <1>6, <1>7, <1>8, <1>9, <1>10 DEF IInv

LEMMA SeriesKeeps ==
    ASSUME IInv, NEW k \in Renders, Series(k)
    PROVE  IInv'
<1>1. /\ r[k].pc = "series" /\ inflight' = (IF inflight = k THEN 0 ELSE inflight)
      /\ UNCHANGED << table, call, targets, pills, current, filter, win, cmpMode, renderSeq,
                      cmpInflight, gone, late >>
  BY DEF Series, server, page, choice
<1>2. \/ AfterSeries(k)
      \/ Leaves(k, "gaveUp") /\ UNCHANGED chart
      \/ r[k].aborted /\ Leaves(k, "superseded") /\ UNCHANGED chart
  BY DEF Series
<1>3. ASSUME Leaves(k, "gaveUp"), UNCHANGED chart
      PROVE  IInv'
  BY <1>1, <1>3, GivesUpKeeps DEF IInv, Types, Over
<1>4. ASSUME Superseded(k), Leaves(k, "superseded")
      PROVE  Leaves(k, "gaveUp")
  BY <1>4 DEF Leaves
<1>5. r[k].aborted => Superseded(k)
  BY DEF IInv, Newest, Superseded
<1>6. CASE ~Superseded(k) /\ Draw(k) /\ r' = [r EXCEPT ![k].pc = "compare"] /\ UNCHANGED rendering
  BY <1>1, <1>6, DrawKeeps DEF Superseded
<1> QED
  BY <1>2, <1>3, <1>4, <1>5, <1>6 DEF AfterSeries

LEMMA CompareEndsKeeps ==
    ASSUME IInv, NEW k \in Renders, NEW how \in {"line", "empty", "failed"}, CompareEnds(k, how)
    PROVE  IInv'
<1> DEFINE c == IF r[k].pc \in Over THEN "off" ELSE how
<1>1. /\ r[k].cmp = "flying" /\ r' = [r EXCEPT ![k].cmp = c]
      /\ cmpInflight' = (IF cmpInflight = k THEN 0 ELSE cmpInflight)
      /\ UNCHANGED << table, call, targets, pills, current, filter, win, cmpMode, renderSeq, rendering,
                      inflight, drawn, cmpData, legend, gone, late >>
  BY DEF CompareEnds, server, page, choice, chart
<1>2. /\ Renders \subseteq Nat /\ 0 \notin Renders /\ renderSeq \in Nat /\ renderSeq \in Renders
      /\ inflight \in 0 .. renderSeq /\ cmpInflight \in 0 .. renderSeq
      /\ inflight # 0 => inflight \in Renders
      /\ cmpInflight # 0 => cmpInflight \in Renders
  BY Numbers DEF IInv
<1>3. /\ r' \in [Renders -> ARender]
      /\ \A j \in Renders : /\ r'[j].pc = r[j].pc /\ r'[j].list = r[j].list /\ r'[j].name = r[j].name
                            /\ r'[j].win = r[j].win /\ r'[j].mode = r[j].mode /\ r'[j].aborted = r[j].aborted
                            /\ r'[j].cmp = IF j = k THEN c ELSE r[j].cmp
  <2>1. r \in [Renders -> ARender] /\ r[k] \in ARender
    BY DEF IInv, Types
  <2>2. c \in {"off", "line", "empty", "failed"}
    OBVIOUS
  <2> HIDE DEF c
  <2>3. [r[k] EXCEPT !.cmp = c] \in ARender
    BY <2>1, <2>2 DEF ARender
  <2>4. r' = [r EXCEPT ![k] = [r[k] EXCEPT !.cmp = c]]
    BY <1>1
  <2> QED
    BY <2>1, <2>3, <2>4 DEF ARender
<1>4. r[k].pc \notin {"unborn", "list"}
  BY <1>1 DEF IInv, Controllers
<1>5. Types'
  <2>1. cmpInflight' \in 0 .. renderSeq
    BY <1>1, <1>2
  <2> QED
    BY <1>1, <1>3, <2>1 DEF IInv, Types
<1>6. Controllers'
  <2>1. /\ \A j \in Renders : r'[j].pc = "unborn" <=> j > renderSeq
        /\ \A j \in Renders : r'[j].pc = "unborn" => r'[j].list = {}
    BY <1>3 DEF IInv, Controllers
  <2>2. \A j \in Renders : r'[j].pc \in {"unborn", "list"} => ~r'[j].aborted /\ r'[j].cmp = "off"
    BY <1>3, <1>4 DEF IInv, Controllers
  <2>3. inflight # 0 => r'[inflight].pc = "series" /\ ~r'[inflight].aborted
    BY <1>2, <1>3 DEF IInv, Controllers
  <2>4. cmpInflight' # 0 => r'[cmpInflight'].cmp = "flying"
    BY <1>1, <1>2, <1>3 DEF IInv, Controllers
  <2> QED
    BY <1>1, <2>1, <2>2, <2>3, <2>4 DEF Controllers
<1>7. LockedWhileNewestRuns' /\ OneChart'
  BY <1>1, <1>2, <1>3 DEF IInv, LockedWhileNewestRuns, OneChart
<1>8. Newest'
  <2>1. CASE k # renderSeq
    BY <1>1, <1>2, <1>3, <2>1 DEF IInv, Newest
  <2>2. CASE k = renderSeq
    <3>1. c # "aborted" /\ (r[k].pc \in {"series", "compare"} => c # "off")
      BY DEF Over
    <3>2. r[k].pc \in {"series", "compare"} => r[k].mode # "off"
      BY <1>1, <2>2 DEF IInv, Newest
    <3> HIDE DEF c
    <3> QED
      BY <1>1, <1>2, <1>3, <2>2, <3>1, <3>2 DEF IInv, Newest
  <2> QED
    BY <2>1, <2>2
<1>9. Missing'
  BY <1>1, <1>2, <1>3 DEF IInv, Missing
<1> QED
  BY <1>5, <1>6, <1>7, <1>8, <1>9 DEF IInv

LEMMA FinishKeeps ==
    ASSUME IInv, NEW k \in Renders, Finish(k)
    PROVE  IInv'
<1> DEFINE stale == Superseded(k) \/ r[k].cmp \in {"off", "aborted"} \/ r[k].mode # cmpMode
           line == [seq |-> k, name |-> r[k].name, win |-> r[k].win, mode |-> r[k].mode]
<1>1. /\ r[k].pc = "compare" /\ r[k].cmp # "flying" /\ Leaves(k, "done")
      /\ UNCHANGED << table, call, targets, pills, current, filter, win, cmpMode, renderSeq,
                      inflight, cmpInflight, drawn, gone, late >>
  BY DEF Finish, server, page, choice, flights
<1>2. /\ cmpData' = IF stale \/ r[k].cmp # "line" THEN cmpData ELSE line
      /\ legend' = IF stale THEN legend
                   ELSE IF r[k].cmp = "failed" THEN "unavailable"
                   ELSE IF r[k].cmp = "empty" THEN "noData" ELSE legend
  BY DEF Finish
<1>3. CASE k # renderSeq
  <2>1. cmpData' = cmpData /\ legend' = legend /\ Leaves(k, "gaveUp")
    BY <1>1, <1>2, <1>3 DEF Superseded, Leaves
  <2> QED
    BY <1>1, <2>1, GivesUpKeeps DEF chart, Over, IInv, Types
<1>4. CASE k = renderSeq
  <2>1. /\ r' \in [Renders -> ARender]
        /\ \A j \in Renders : j # k => r'[j] = r[j]
        /\ r'[k].pc = "done" /\ ~r'[k].aborted /\ r'[k].list = {}
        /\ r'[k].cmp = "off" /\ rendering' = FALSE
    BY <1>1, <1>4, LeavesFacts
  <2>2. /\ Renders \subseteq Nat /\ 0 \notin Renders /\ renderSeq \in Nat /\ renderSeq \in Renders
        /\ inflight # 0 => inflight \in Renders
        /\ cmpInflight # 0 => cmpInflight \in Renders
    BY Numbers DEF IInv
  <2>3. /\ r[k].cmp # "aborted" /\ r[k].win = win /\ r[k].mode = cmpMode
        /\ (r[k].name = current \/ late) /\ (r[k].cmp = "off" <=> r[k].mode = "off")
        /\ drawn.seq = k /\ drawn.name = r[k].name /\ drawn.win = r[k].win /\ drawn.mode = r[k].mode
        /\ cmpData = NoLine /\ legend = IF r[k].mode = "off" THEN "plain" ELSE "promised"
    BY <1>1, <1>4 DEF IInv, Newest
  <2>4. stale <=> r[k].cmp = "off"
    BY <1>4, <2>3 DEF Superseded
  <2>5. r[k].cmp \in {"off", "line", "empty", "failed"}
    BY <1>1, <2>3 DEF IInv, Types, ARender
  <2>6. line # NoLine /\ line.seq = k /\ \A f \in DOMAIN line : line[f] = drawn[f]
    BY <2>2, <2>3 DEF NoLine
  <2>7. cmpData' = IF r[k].cmp = "line" THEN line ELSE NoLine
    BY <1>2, <2>3, <2>4, <2>5
  <2>8. legend' \in {"plain", "promised", "unavailable", "noData"}
        /\ (legend' = "promised" <=> r[k].cmp = "line")
    BY <1>2, <2>3, <2>4, <2>5
  <2> HIDE DEF line, stale
  <2>9. Types'
    <3>1. cmpData'.seq \in 0 .. renderSeq
      BY <1>4, <2>2, <2>6, <2>7 DEF NoLine
    <3> QED
      BY <1>1, <2>1, <2>8, <3>1 DEF IInv, Types
  <2>10. Controllers'
    <3>1. \A j \in Renders : r'[j].pc = "unborn" <=> j > renderSeq
      BY <1>4, <2>1, <2>2 DEF IInv, Controllers
    <3>2. /\ \A j \in Renders : r'[j].pc \in {"unborn", "list"} => ~r'[j].aborted /\ r'[j].cmp = "off"
          /\ \A j \in Renders : r'[j].pc = "unborn" => r'[j].list = {}
      BY <2>1 DEF IInv, Controllers
    <3>3. inflight # 0 => r'[inflight].pc = "series" /\ ~r'[inflight].aborted
      BY <1>1, <2>1, <2>2 DEF IInv, Controllers
    <3>4. cmpInflight # 0 => r'[cmpInflight].cmp = "flying"
      BY <1>1, <2>1, <2>2 DEF IInv, Controllers
    <3> QED
      BY <1>1, <3>1, <3>2, <3>3, <3>4 DEF Controllers
  <2>11. LockedWhileNewestRuns' /\ Missing'
    BY <1>1, <1>4, <2>1 DEF IInv, LockedWhileNewestRuns, Missing, Over
  <2>12. OneChart'
    <3>1. drawn.label = drawn.win
      BY DEF IInv, OneChart
    <3> QED
      BY <1>1, <2>6, <2>7, <3>1 DEF OneChart
  <2>13. Newest'
    BY <1>1, <1>4, <2>1, <2>3, <2>6, <2>7, <2>8 DEF Newest
  <2> QED
    BY <2>9, <2>10, <2>11, <2>12, <2>13 DEF IInv
<1> QED
  BY <1>3, <1>4

LEMMA VersionKeeps ==
    ASSUME IInv, Version
    PROVE  IInv'
<1>1. UNCHANGED << table, call, targets, pills, current, filter, win, inflight, cmpInflight, drawn, cmpData, legend >>
  BY DEF Version, server, page, flights, chart
<1>2. CASE UNCHANGED << cmpMode, renderSeq, rendering, r, gone, late >>
  BY <1>1, <1>2 DEF IInv, Types, Controllers, LockedWhileNewestRuns, OneChart, Newest, Missing
<1>3. CASE cmpMode' = "off" /\ Begin
  BY <1>1, <1>3, BeginKeeps DEF flights, chart, Modes, IInv, Types
<1> QED
  BY <1>2, <1>3 DEF Version

\* A click, and the page of itself.
LEMMA RenderKeeps ==
    ASSUME IInv, Render, call' \subseteq Names \cup {NoName}, current' \in Names \cup {NoName},
           win' \in Windows, cmpMode' \in Modes
    PROVE  IInv'
BY BeginKeeps DEF Render, server

LEMMA UserKeeps ==
    ASSUME IInv, User
    PROVE  IInv'
<1>1. /\ call \subseteq Names \cup {NoName} /\ current \in Names \cup {NoName}
      /\ win \in Windows /\ cmpMode \in Modes /\ table \subseteq Names
      /\ pills \subseteq Names
  BY DEF IInv, Types
<1>2. ASSUME NEW n \in Names, PickTarget(n)
      PROVE  IInv'
  BY <1>1, <1>2, RenderKeeps DEF PickTarget, choice
<1>3. ASSUME NEW w \in Windows, PickWindow(w)
      PROVE  IInv'
  BY <1>1, <1>3, RenderKeeps DEF PickWindow
<1>4. ASSUME NEW m \in Modes, PickMode(m)
      PROVE  IInv'
  BY <1>1, <1>4, RenderKeeps DEF PickMode
<1>5. ASSUME NEW f \in Filters, PickFilter(f)
      PROVE  IInv'
  BY <1>1, <1>5, RenderKeeps DEF PickFilter
<1>6. ASSUME NEW n \in Names, Save(n)
      PROVE  IInv'
  <2>1. PICK old \in {{}} \cup {{o} : o \in table} : Alters((table \ old) \cup {n})
    BY <1>6 DEF Save
  <2>2. (table \ old) \cup {n} \in SUBSET Names /\ call' = {n}
    BY <1>1, <1>6 DEF Save
  <2> QED
    BY <2>1, <2>2, AltersKeeps
<1>7. ASSUME NEW n \in Names, Delete(n)
      PROVE  IInv'
  <2>1. Alters(table \ {n}) /\ table \ {n} \in SUBSET Names /\ call' \subseteq {NoName, n}
    BY <1>1, <1>7 DEF Delete
  <2> QED
    BY <2>1, AltersKeeps
<1> QED
  BY <1>2, <1>3, <1>4, <1>5, <1>6, <1>7 DEF User

LEMMA StepKeeps ==
    ASSUME IInv, Next
    PROVE  IInv'
<1>1. CASE AutoRefresh
  BY <1>1, RenderKeeps DEF AutoRefresh, choice, IInv, Types
<1>2. CASE Answered
  <2>1. Render /\ call' = {} /\ win' = win /\ cmpMode' = cmpMode
    BY <1>2 DEF Answered, choice
  <2>2. current' \in Names \cup {NoName}
    BY <1>2 DEF Answered, IInv, Types
  <2> QED
    BY <2>1, <2>2, RenderKeeps DEF IInv, Types
<1>3. ASSUME NEW k \in Renders, Proceeds(k)
      PROVE  IInv'
  BY <1>3, ServeKeeps, ListArrivesKeeps, ListFailsKeeps, SeriesKeeps, FinishKeeps DEF Proceeds
<1>4. ASSUME NEW k \in Renders, CompareArrives(k) \/ CompareTimesOut(k)
      PROVE  IInv'
  BY <1>4, CompareEndsKeeps DEF CompareArrives, CompareTimesOut
<1> QED
  BY <1>1, <1>2, <1>3, <1>4, UserKeeps, VersionKeeps DEF Next

LEMMA StutterKeeps ==
    ASSUME IInv, UNCHANGED vars
    PROVE  IInv'
<1>1. UNCHANGED << table, call, targets, pills, current, filter, win, cmpMode, renderSeq, rendering,
                  inflight, cmpInflight, r, drawn, cmpData, legend, gone, late >>
  BY DEF vars, server, page, choice, flights, chart
<1> QED
  BY <1>1 DEF IInv, Types, Controllers, LockedWhileNewestRuns, OneChart, Newest, Missing

\* The invariant of every behaviour.
THEOREM Invariant == Spec => []IInv
<1>1. ASSUME IInv, [Next]_vars
      PROVE  IInv'
  BY <1>1, StepKeeps, StutterKeeps
<1> QED
  BY InitIInv, <1>1, PTL DEF Spec
-----------------------------------------------------------------------------
(***************************************************************************)
(* What follows.                                                            *)
(***************************************************************************)
\* Every part of the page has its type, and the controllers it keeps are of requests
\* in flight (index.html's inflight, cmpInflight).
THEOREM TypeCorrect == Spec => []TypeOK
<1>1. IInv => TypeOK
  BY DEF IInv, Types, Controllers, TypeOK
<1> QED
  BY Invariant, <1>1, PTL

\* The automatic refresh is held back exactly as long as the newest render is at work.
THEOREM RefreshWaits == Spec => []LockedWhileNewestRuns
BY Invariant, PTL DEF IInv

\* The chart, its label and its compare line belong together.
THEOREM ChartBelongsTogether == Spec => []OneChart
BY Invariant, PTL DEF IInv

\* Nothing but a newer render stops the newest, and when it is through the chart shows
\* what is chosen.
THEOREM ChartShowsTheChoice == Spec => []ShowsTheChoice
<1>1. IInv => ShowsTheChoice
  BY DEF IInv, Newest, ShowsTheChoice
<1> QED
  BY Invariant, <1>1, PTL

\* Of one step: the chosen target is gone or filtered out, or the list is an older
\* render's.
LEMMA StepLeavesOnlyTheGone ==
    ASSUME IInv, Next, current' # current, current # NoName, renderSeq' = renderSeq
    PROVE  late' \/ current \in gone \/ current \notin filter
<1>1. renderSeq \in Nat /\ current \in Names
  BY Numbers DEF IInv, Types
<1>2. ~Begin
  BY <1>1 DEF Begin
<1>3. PICK k \in Renders : ListArrives(k)
  <2>1. \A k \in Renders : ~Serve(k) /\ ~ListFails(k) /\ ~Series(k) /\ ~Finish(k)
    BY DEF Serve, ListFails, Series, Finish, page
  <2>2. \A k \in Renders : ~CompareArrives(k) /\ ~CompareTimesOut(k)
    BY DEF CompareArrives, CompareTimesOut, CompareEnds, page
  <2>3. ~User /\ ~AutoRefresh /\ ~Answered /\ ~Version
    BY <1>2 DEF User, PickTarget, PickWindow, PickMode, PickFilter, Save, Delete, Alters,
                AutoRefresh, Answered, Version, Render, page
  <2> QED
    BY <2>1, <2>2, <2>3 DEF Next, Proceeds
<1>4. PICK got \in r[k].list : current' \in FallBack(got \cap filter)
  BY <1>3 DEF ListArrives
<1>5. current \notin got \cap filter
  BY <1>4 DEF FallBack
<1>6. CASE k # renderSeq
  BY <1>3, <1>6 DEF ListArrives, Superseded
<1>7. CASE k = renderSeq
  BY <1>1, <1>4, <1>5, <1>7 DEF IInv, Missing
<1> QED
  BY <1>6, <1>7

\* The page leaves the chosen target only for a list that does not have it: the target
\* is gone or filtered out, or the list is an older render's (index.html, loadTargets).
THEOREM StaysWithTheChoice == Spec => LeavesOnlyTheGone
<1>1. ASSUME IInv, [Next]_vars
      PROVE  [current' # current /\ current # NoName /\ renderSeq' = renderSeq
                => late' \/ current \in gone \/ current \notin filter]_vars
  BY <1>1, StepLeavesOnlyTheGone
<1> QED
  BY Invariant, <1>1, PTL DEF Spec, LeavesOnlyTheGone
=============================================================================
