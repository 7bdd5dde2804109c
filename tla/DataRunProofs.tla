---------------------------- MODULE DataRunProofs ----------------------------
(***************************************************************************)
(* Proofs about DataRun for every data set, chain length, number of        *)
(* threads and number of starts.                                           *)
(***************************************************************************)
EXTENDS DataRun, FiniteSetTheorems, TLAPS

(***************************************************************************)
(* What a write, finished or cut short, does to the file: nothing; or the  *)
(* open last line turns into one that reads back as nothing; or a line is  *)
(* added, whose text is the example's at best.                             *)
(***************************************************************************)
SamePrefix(f, g) == \A i \in DOMAIN g : i < Len(g) => i \in DOMAIN f /\ g[i] = f[i]

Grows(f, g, id) ==
  /\ g \in Seq(Lines)
  /\ \/ g = f
     \/ /\ Open(f)
        /\ Len(g) = Len(f) /\ SamePrefix(f, g)
        /\ g[Len(g)].text \in {Torn, Garbled}
     \/ /\ ~Open(f)
        /\ Len(g) = Len(f) + 1 /\ SamePrefix(f, g)
        /\ g[Len(g)].text \in {id, Torn, Garbled}

Unique(f) ==
  \A i, j \in DOMAIN f : f[i].text = f[j].text /\ f[i].text \in Examples => i = j

\* g is f with line l in the place of its last one, or after it.
ReplacedIn(f, g, l) ==
  g \in Seq(Lines) /\ Len(g) = Len(f) /\ SamePrefix(f, g) /\ g[Len(g)] = l

AddedTo(f, g, l) ==
  g \in Seq(Lines) /\ Len(g) = Len(f) + 1 /\ SamePrefix(f, g) /\ g[Len(g)] = l

\* What EXCEPT at the last place and Append make.
LEMMA ReplacedLast ==
  ASSUME NEW f \in Seq(Lines), NEW l \in Lines, f # <<>>
  PROVE  ReplacedIn(f, [f EXCEPT ![Len(f)] = l], l)
BY DEF ReplacedIn, SamePrefix

LEMMA AddedLast ==
  ASSUME NEW f \in Seq(Lines), NEW l \in Lines
  PROVE  AddedTo(f, Append(f, l), l)
BY DEF AddedTo, SamePrefix

\* What is glued to a line without newline is no row.
LEMMA GluedIsNoRow ==
  ASSUME NEW t
  PROVE  Glued(t) \in {Torn, Garbled}
BY DEF Glued

\* A finished write and one cut short are both growth.
LEMMA WithRowGrows ==
  ASSUME NEW f \in Seq(Lines), NEW id \in Examples
  PROVE  Grows(f, WithRow(f, id), id)
<1>1. CASE Open(f)
  <2> DEFINE l == [text |-> Glued(Last(f).text), ended |-> TRUE]
  <2>1. l \in Lines /\ l.text \in {Torn, Garbled}
    BY GluedIsNoRow DEF Lines
  <2>2. f # <<>> /\ WithRow(f, id) = [f EXCEPT ![Len(f)] = l]
    BY <1>1 DEF Open, WithRow, Last
  <2> HIDE DEF l
  <2>3. ReplacedIn(f, WithRow(f, id), l)
    BY <2>1, <2>2, ReplacedLast
  <2> QED
    BY <1>1, <2>1, <2>2, <2>3 DEF Grows, ReplacedIn
<1>2. CASE ~Open(f)
  <2> DEFINE l == [text |-> id, ended |-> TRUE]
  <2>1. l \in Lines /\ l.text = id
    BY DEF Lines
  <2>2. WithRow(f, id) = Append(f, l)
    BY <1>2 DEF WithRow
  <2> HIDE DEF l
  <2>3. AddedTo(f, WithRow(f, id), l)
    BY <2>1, <2>2, AddedLast
  <2> QED
    BY <1>2, <2>1, <2>3 DEF Grows, AddedTo
<1> QED
  BY <1>1, <1>2

LEMMA CutShortGrows ==
  ASSUME NEW f \in Seq(Lines), NEW id \in Examples, NEW g \in CutShort(f, id)
  PROVE  Grows(f, g, id)
<1>1. CASE g = f
  BY <1>1 DEF Grows
<1>2. CASE Open(f) /\ g # f
  <2>1. PICK t \in {Glued(Last(f).text), Garbled} :
          g = [f EXCEPT ![Len(f)] = [text |-> t, ended |-> FALSE]]
    BY <1>2 DEF CutShort
  <2> DEFINE l == [text |-> t, ended |-> FALSE]
  <2>2. l \in Lines /\ l.text \in {Torn, Garbled}
    BY GluedIsNoRow DEF Lines
  <2>3. f # <<>> /\ g = [f EXCEPT ![Len(f)] = l]
    BY <1>2, <2>1 DEF Open
  <2> HIDE DEF l
  <2>4. ReplacedIn(f, g, l)
    BY <2>2, <2>3, ReplacedLast
  <2> QED
    BY <1>2, <2>2, <2>4 DEF Grows, ReplacedIn
<1>3. CASE ~Open(f) /\ g # f
  <2>1. PICK t \in {id, Torn, Garbled} : g = Append(f, [text |-> t, ended |-> FALSE])
    BY <1>3 DEF CutShort
  <2> DEFINE l == [text |-> t, ended |-> FALSE]
  <2>2. l \in Lines /\ l.text \in {id, Torn, Garbled}
    BY DEF Lines
  <2>3. g = Append(f, l)
    BY <2>1
  <2> HIDE DEF l
  <2>4. AddedTo(f, g, l)
    BY <2>2, <2>3, AddedLast
  <2> QED
    BY <1>3, <2>2, <2>4 DEF Grows, AddedTo
<1> QED
  BY <1>1, <1>2, <1>3

\* Nothing but the row written is read back that was not before.
LEMMA GrowthAdds ==
  ASSUME NEW f \in Seq(Lines), NEW g, NEW id \in Examples, Grows(f, g, id)
  PROVE  ReadBack(g) \subseteq ReadBack(f) \cup {id}
<1>1. CASE g = f
  BY <1>1
<1>2. CASE g # f
  <2>1. /\ g \in Seq(Lines) /\ SamePrefix(f, g)
        /\ g[Len(g)].text \in {id, Torn, Garbled}
    BY <1>2 DEF Grows
  <2>2. \A i \in DOMAIN g : i = Len(g) \/ (i < Len(g) /\ i \in DOMAIN f /\ g[i] = f[i])
    BY <2>1 DEF SamePrefix
  <2> QED
    BY <2>1, <2>2, DataAssumption DEF ReadBack
<1> QED
  BY <1>1, <1>2

\* Growth by the row of an example that has none keeps rows unique.
LEMMA GrowthKeepsUnique ==
  ASSUME NEW f \in Seq(Lines), NEW g, NEW id \in Examples, Grows(f, g, id),
         Unique(f), id \notin ReadBack(f)
  PROVE  Unique(g)
<1>1. CASE g = f
  BY <1>1
<1>2. CASE g # f
  <2>1. g \in Seq(Lines) /\ SamePrefix(f, g)
    BY <1>2 DEF Grows
  <2>2. g[Len(g)].text \in {id, Torn, Garbled}
    BY <1>2 DEF Grows
  <2>3. \A i \in DOMAIN g : i = Len(g) \/ (i < Len(g) /\ i \in DOMAIN f /\ g[i] = f[i])
    BY <2>1 DEF SamePrefix
  <2>4. \A i \in DOMAIN f : f[i].text # id
    BY DEF ReadBack
  <2>5. \A i \in DOMAIN g : g[i].text \in Examples /\ i # Len(g) => g[i].text # id
    BY <2>3, <2>4
  <2>6. Unique(g)
    <3> SUFFICES ASSUME NEW i \in DOMAIN g, NEW j \in DOMAIN g,
                        g[i].text = g[j].text, g[i].text \in Examples
                 PROVE  i = j
      BY DEF Unique
    <3>1. CASE i = Len(g) \/ j = Len(g)
      <4>1. g[i].text = id /\ g[j].text = id
        BY <3>1, <2>2, DataAssumption
      <4> QED
        BY <4>1, <2>5
    <3>2. CASE i # Len(g) /\ j # Len(g)
      BY <3>2, <2>3 DEF Unique
    <3> QED
      BY <3>1, <3>2
  <2> QED
    BY <2>6
<1> QED
  BY <1>1, <1>2

\* Growth loses no row but that of an open last line.
LEMMA GrowthKeepsRows ==
  ASSUME NEW f \in Seq(Lines), NEW g, NEW id \in Examples, Grows(f, g, id)
  PROVE  ReadBack(f) \ ReadBack(g) \subseteq (IF Open(f) THEN {Last(f).text} ELSE {})
<1>1. CASE g = f
  BY <1>1
<1>2. CASE g # f
  <2>1. g \in Seq(Lines) /\ SamePrefix(f, g) /\ Len(f) \in Nat
    BY <1>2 DEF Grows
  <2>2. CASE Open(f)
    <3>1. Len(g) = Len(f) /\ Last(f) = f[Len(f)]
      BY <1>2, <2>2 DEF Grows, Last
    <3>2. \A i \in DOMAIN f : i # Len(f) => i \in DOMAIN g /\ g[i] = f[i]
      BY <2>1, <3>1 DEF SamePrefix
    <3> QED
      BY <2>2, <3>1, <3>2 DEF ReadBack
  <2>3. CASE ~Open(f)
    <3>1. Len(g) = Len(f) + 1
      BY <1>2, <2>3 DEF Grows
    <3>2. \A i \in DOMAIN f : i \in DOMAIN g /\ g[i] = f[i]
      BY <2>1, <3>1 DEF SamePrefix
    <3> QED
      BY <2>3, <3>2 DEF ReadBack
  <2> QED
    BY <2>2, <2>3
<1> QED
  BY <1>1, <1>2

LinesEnded(f) == \A i \in DOMAIN f : i < Len(f) => f[i].ended

\* All lines but the last have their newline, whatever is written.
LEMMA GrowthKeepsEnded ==
  ASSUME NEW f \in Seq(Lines), NEW g, NEW id \in Examples, Grows(f, g, id), LinesEnded(f)
  PROVE  LinesEnded(g)
<1>1. CASE g = f
  BY <1>1
<1>2. CASE g # f
  <2>1. g \in Seq(Lines) /\ \A i \in DOMAIN g : i < Len(g) => i \in DOMAIN f /\ g[i] = f[i]
    BY <1>2 DEF Grows, SamePrefix
  <2>2. CASE Len(g) = Len(f)
    BY <2>1, <2>2 DEF LinesEnded
  <2>3. CASE Len(g) = Len(f) + 1 /\ ~Open(f)
    <3>1. f # <<>> => f[Len(f)].ended
      BY <2>3 DEF Open, Last
    <3> QED
      BY <2>1, <2>3, <3>1 DEF LinesEnded
  <2> QED
    BY <1>2, <2>2, <2>3 DEF Grows
<1> QED
  BY <1>1, <1>2

\* A finished write ends its line; it adds a row unless the line was open.
LEMMA WithRowEnds ==
  ASSUME NEW f \in Seq(Lines), NEW id \in Examples
  PROVE  /\ ~Open(WithRow(f, id))
         /\ ~Open(f) => ReadBack(WithRow(f, id)) = ReadBack(f) \cup {id}
<1>1. CASE Open(f)
  <2> DEFINE l == [text |-> Glued(f[Len(f)].text), ended |-> TRUE]
  <2>1. l \in Lines /\ l.ended
    BY GluedIsNoRow DEF Lines
  <2>2. f # <<>> /\ WithRow(f, id) = [f EXCEPT ![Len(f)] = l]
    BY <1>1 DEF Open, WithRow
  <2> HIDE DEF l
  <2>3. ReplacedIn(f, WithRow(f, id), l)
    BY <2>1, <2>2, ReplacedLast
  <2> QED
    BY <1>1, <2>1, <2>3 DEF ReplacedIn, Open, Last
<1>2. CASE ~Open(f)
  <2> DEFINE l == [text |-> id, ended |-> TRUE]
             g == Append(f, l)
  <2>1. l \in Lines /\ l.ended /\ l.text = id
    BY DEF Lines
  <2>2. WithRow(f, id) = g
    BY <1>2 DEF WithRow
  <2> HIDE DEF l
  <2>3. /\ Len(g) = Len(f) + 1 /\ g[Len(f) + 1] = l /\ g \in Seq(Lines)
        /\ \A i \in 1 .. Len(f) : g[i] = f[i]
    BY <2>1
  <2> HIDE DEF g
  <2>4. DOMAIN g = DOMAIN f \cup {Len(f) + 1} /\ Len(f) + 1 \notin DOMAIN f
    BY <2>3
  <2>5. ReadBack(g) = ReadBack(f) \cup {id}
    BY <2>1, <2>3, <2>4 DEF ReadBack
  <2> QED
    BY <2>1, <2>2, <2>3, <2>5 DEF Open, Last
<1> QED
  BY <1>1, <1>2
-----------------------------------------------------------------------------
(***************************************************************************)
(* The trajectory of one example: what its thread's locals and its record  *)
(* are like in each phase, in terms of the values alone.                   *)
(***************************************************************************)
Names == Nat \X {"main", "alias"}
Founds == [output : BOOLEAN, names : SUBSET Names]
Steps == [i : Nat, forms : SUBSET Names, found : Founds]
Works == [chain : 0 .. MaxToolCalls, i : Nat, tries : 0 .. MaxIterations - 1,
          forms : SUBSET Names, found : Founds, steps : Seq(Steps), edited : Nat]
Records == [steps : Seq(Steps), success : BOOLEAN, pass : BOOLEAN]

Phases == {"out", "queued", "ended"} \cup Working

\* The output a judge is asked about, and that of a kept step, has a concrete one of
\* the names expected of its answer, if there is one.
Confirmed(e, expected, found) ==
  /\ found.output
  /\ expected \subseteq Generic[e] \/ found.names \cap (expected \ Generic[e]) # {}

Kept(e, s) ==
  s.forms \subseteq {Alias(s.i)} /\ Confirmed(e, {Main(s.i)} \cup s.forms, s.found)

\* The steps found so far, from the last sub-question down to the one behind n.
Backward(e, w, n) ==
  /\ w.i \in 1 .. w.chain /\ w.forms \subseteq {Alias(w.i)} /\ w.edited = 0
  /\ Len(w.steps) = w.chain - n
  /\ \A k \in DOMAIN w.steps : w.steps[k].i = w.chain - k + 1 /\ Kept(e, w.steps[k])

InOrder(e, steps) ==
  \A k \in DOMAIN steps : steps[k].i = k /\ Kept(e, steps[k])

Forward(e, w) ==
  /\ w.i \in 0 .. w.chain /\ w.edited \in 0 .. w.chain
  /\ Len(w.steps) = w.chain /\ InOrder(e, w.steps)

SoundWork(e, ph, w) ==
  /\ w \in Works
  /\ ph \in {"out", "queued", "decompose", "ended"} => w = NoWork
  /\ ph = "command" => Backward(e, w, w.i)
  /\ ph = "judge" => Backward(e, w, w.i) /\ Confirmed(e, {Main(w.i)} \cup w.forms, w.found)
  /\ ph = "bridge" => Backward(e, w, w.i - 1) /\ w.i > 1
  /\ ph \in {"edit", "answer", "quality"} => Forward(e, w)
  /\ ph = "edit" => w.edited < w.chain

SoundResult(e, r) ==
  /\ r \in Records /\ Len(r.steps) <= MaxToolCalls /\ InOrder(e, r.steps)
  /\ r.pass => r.success

Sound ==
  /\ phase \in [Examples -> Phases]
  /\ work = [e \in Examples |-> work[e]] /\ result = [e \in Examples |-> result[e]]
  /\ \A e \in Examples : SoundWork(e, phase[e], work[e]) /\ SoundResult(e, result[e])

LEMMA NamesTyped ==
  \A i \in Nat : Main(i) \in Names /\ Alias(i) \in Names
BY DEF Main, Alias, Names

LEMMA NamesDiffer ==
  /\ \A i, j \in Nat : Main(i) # Alias(j)
  /\ \A i, j \in Nat : Main(i) = Main(j) => i = j
  /\ \A i, j \in Nat : Alias(i) = Alias(j) => i = j
BY DEF Main, Alias

LEMMA NoWorkTyped == NoOutput \in Founds /\ NoWork \in Works
<1>1. NoOutput \in Founds
  BY DEF NoOutput, Founds
<1> QED
  BY <1>1, TrajectoryAssumption DEF NoWork, Works

LEMMA NoWorkSound ==
  ASSUME NEW e \in Examples, NEW ph \in {"out", "queued", "decompose", "ended"}
  PROVE  SoundWork(e, ph, NoWork)
BY NoWorkTyped DEF SoundWork

LEMMA NoResultSound ==
  ASSUME NEW e \in Examples
  PROVE  SoundResult(e, NoResult)
BY TrajectoryAssumption DEF NoResult, SoundResult, Records, InOrder

\* One example moves on, or returns; the others are left alone.
LEMMA GoKeeps ==
  ASSUME Sound, NEW e \in Examples, NEW ph \in Phases, NEW w, Go(e, ph, w),
         SoundWork(e, ph, w)
  PROVE  Sound'
<1>1. /\ phase' = [phase EXCEPT ![e] = ph] /\ work' = [work EXCEPT ![e] = w]
      /\ result' = result
  BY DEF Go
<1>2. ASSUME NEW x \in Examples
      PROVE  SoundWork(x, phase'[x], work'[x]) /\ SoundResult(x, result'[x])
  BY <1>1 DEF Sound
<1>3. /\ phase' \in [Examples -> Phases]
      /\ work' = [x \in Examples |-> work'[x]] /\ result' = [x \in Examples |-> result'[x]]
  BY <1>1 DEF Sound
<1> QED
  BY <1>2, <1>3 DEF Sound

LEMMA ReturnKeeps ==
  ASSUME Sound, NEW e \in Examples, NEW r, Return(e, r), SoundResult(e, r)
  PROVE  Sound'
<1>1. /\ phase' = [phase EXCEPT ![e] = "ended"] /\ work' = [work EXCEPT ![e] = NoWork]
      /\ result' = [result EXCEPT ![e] = r]
  BY DEF Return
<1>2. ASSUME NEW x \in Examples
      PROVE  SoundWork(x, phase'[x], work'[x]) /\ SoundResult(x, result'[x])
  BY <1>1, NoWorkSound DEF Sound
<1>3. /\ phase' \in [Examples -> Phases]
      /\ work' = [x \in Examples |-> work'[x]] /\ result' = [x \in Examples |-> result'[x]]
  BY <1>1 DEF Sound, Phases
<1> QED
  BY <1>2, <1>3 DEF Sound

LEMMA AbortKeeps ==
  ASSUME Sound, NEW e \in Examples, Abort(e)
  PROVE  Sound'
BY ReturnKeeps, NoResultSound DEF Abort

LEMMA WorkOf ==
  ASSUME Sound, NEW e \in Examples
  PROVE  /\ work[e] \in Works /\ SoundWork(e, phase[e], work[e])
         /\ SoundResult(e, result[e])
BY DEF Sound, SoundWork

LEMMA DecomposeKeeps ==
  ASSUME Sound, NEW e \in Examples, Decompose(e)
  PROVE  Sound'
<1>1. ASSUME NEW n \in 1 .. MaxToolCalls,
             Go(e, "command", [NoWork EXCEPT !.chain = n, !.i = n])
      PROVE  Sound'
  <2> DEFINE w == [NoWork EXCEPT !.chain = n, !.i = n]
  <2>1. w \in Works /\ w.chain = n /\ w.i = n
    <3>1. n \in 0 .. MaxToolCalls /\ n \in Nat
      BY TrajectoryAssumption
    <3> QED
      BY <3>1, NoWorkTyped DEF Works
  <2>2. w.forms = {} /\ w.steps = <<>> /\ w.edited = 0
    BY DEF NoWork
  <2>3. Backward(e, w, w.i)
    BY <2>1, <2>2, TrajectoryAssumption DEF Backward
  <2>4. SoundWork(e, "command", w)
    BY <2>1, <2>3 DEF SoundWork
  <2> QED
    BY <1>1, <2>4, GoKeeps DEF Phases, Working
<1> QED
  BY <1>1, AbortKeeps DEF Decompose

LEMMA TryAgainKeeps ==
  ASSUME Sound, NEW e \in Examples, Backward(e, work[e], work[e].i), TryAgain(e)
  PROVE  Sound'
<1>1. ASSUME work[e].tries + 1 < MaxIterations,
             Go(e, "command", [work[e] EXCEPT !.tries = @ + 1, !.found = NoOutput])
      PROVE  Sound'
  <2> DEFINE w == [work[e] EXCEPT !.tries = @ + 1, !.found = NoOutput]
  <2>1. w \in Works
    <3>1. work[e] \in Works /\ NoOutput \in Founds
      BY WorkOf, NoWorkTyped
    <3>2. work[e].tries + 1 \in 0 .. MaxIterations - 1
      BY <1>1, <3>1, TrajectoryAssumption DEF Works
    <3> QED
      BY <3>1, <3>2 DEF Works
  <2>2. /\ w.chain = work[e].chain /\ w.i = work[e].i /\ w.forms = work[e].forms
        /\ w.steps = work[e].steps /\ w.edited = work[e].edited
    BY WorkOf DEF Works
  <2>3. Backward(e, w, w.i)
    BY <2>2 DEF Backward
  <2>4. SoundWork(e, "command", w)
    BY <2>1, <2>3 DEF SoundWork
  <2> QED
    BY <1>1, <2>4, GoKeeps DEF Phases, Working
<1> QED
  BY <1>1, AbortKeeps DEF TryAgain

\* What the code does not refuse without asking the judge confirms the answer.
LEMMA NotRefusedConfirms ==
  ASSUME NEW e \in Examples, NEW found, ~Refused(e, found)
  PROVE  Confirmed(e, {Main(work[e].i)} \cup work[e].forms, found)
<1> DEFINE expected == {Main(work[e].i)} \cup work[e].forms
<1>1. {name \in Acceptable(e) : ~IsGeneric(e, name)} = expected \ Generic[e]
  BY DEF Acceptable, IsGeneric
<1>2. found.output /\ (expected \ Generic[e] = {} \/ found.names \cap (expected \ Generic[e]) # {})
  BY <1>1 DEF Refused
<1> QED
  BY <1>2 DEF Confirmed

LEMMA OutputsTyped ==
  ASSUME NEW i \in Nat, NEW found \in Outputs(i)
  PROVE  found \in Founds
<1>1. {Main(i)} \in SUBSET Names /\ {Alias(i)} \in SUBSET Names /\ {Alias(i + 1)} \in SUBSET Names
  BY NamesTyped
<1>2. CASE found = NoOutput
  BY <1>2, NoWorkTyped
<1>3. CASE found # NoOutput
  <2>1. PICK n \in {{Main(i)}, {Alias(i)}, {Alias(i + 1)}} : found = [output |-> TRUE, names |-> n]
    BY <1>3 DEF Outputs
  <2> QED
    BY <1>1, <2>1 DEF Founds
<1> QED
  BY <1>2, <1>3

LEMMA CommandKeeps ==
  ASSUME Sound, NEW e \in Examples, Command(e)
  PROVE  Sound'
<1>1. phase[e] = "command"
  BY DEF Command
<1>2. work[e] \in Works /\ Backward(e, work[e], work[e].i)
  BY <1>1, WorkOf DEF SoundWork
<1>3. PICK found \in Outputs(work[e].i) :
        \/ Refused(e, found) /\ TryAgain(e)
        \/ ~Refused(e, found) /\ Go(e, "judge", [work[e] EXCEPT !.found = found])
  BY DEF Command
<1>4. CASE TryAgain(e)
  BY <1>2, <1>4, TryAgainKeeps
<1>5. CASE ~Refused(e, found) /\ Go(e, "judge", [work[e] EXCEPT !.found = found])
  <2> DEFINE w == [work[e] EXCEPT !.found = found]
  <2>1. work[e].i \in Nat
    BY <1>2 DEF Works
  <2>2. w \in Works
    BY <1>2, <2>1, OutputsTyped DEF Works
  <2>3. /\ w.chain = work[e].chain /\ w.i = work[e].i /\ w.forms = work[e].forms
        /\ w.steps = work[e].steps /\ w.edited = work[e].edited /\ w.found = found
    BY <1>2 DEF Works
  <2>4. Confirmed(e, {Main(w.i)} \cup w.forms, w.found)
    BY <1>2, <1>5, <2>3, NotRefusedConfirms
  <2>5. Backward(e, w, w.i)
    BY <1>2, <2>3 DEF Backward
  <2>6. SoundWork(e, "judge", w)
    BY <2>2, <2>4, <2>5 DEF SoundWork
  <2> QED
    BY <1>5, <2>6, GoKeeps DEF Phases, Working
<1> QED
  BY <1>3, <1>4, <1>5

\* The steps with the one the judge said yes to.
LEMMA FoundIsNext ==
  ASSUME Sound, NEW e \in Examples, phase[e] = "judge"
  PROVE  /\ Found(e) \in Seq(Steps)
         /\ Len(Found(e)) = work[e].chain - (work[e].i - 1)
         /\ \A k \in DOMAIN Found(e) :
              /\ Found(e)[k].i = work[e].chain - k + 1
              /\ Kept(e, Found(e)[k])
<1> DEFINE w == work[e]
           s == [i |-> w.i, forms |-> w.forms, found |-> w.found]
           f == Append(w.steps, s)
<1>1. /\ w \in Works /\ Backward(e, w, w.i) /\ Confirmed(e, {Main(w.i)} \cup w.forms, w.found)
  BY WorkOf DEF SoundWork
<1>2. s \in Steps /\ w.steps \in Seq(Steps) /\ w.i \in Nat /\ w.chain \in Nat
  BY <1>1, TrajectoryAssumption DEF Works, Steps
<1>3. s.i = w.i /\ Kept(e, s)
  BY <1>1 DEF Kept, Backward
<1>4. /\ Len(w.steps) = w.chain - w.i
      /\ \A k \in DOMAIN w.steps : w.steps[k].i = w.chain - k + 1 /\ Kept(e, w.steps[k])
  BY <1>1 DEF Backward
<1>5. Found(e) = f
  BY DEF Found
<1> HIDE DEF s, w
<1>6. /\ f \in Seq(Steps) /\ Len(f) = Len(w.steps) + 1 /\ f[Len(w.steps) + 1] = s
      /\ \A k \in DOMAIN f : k = Len(w.steps) + 1 \/ (k \in DOMAIN w.steps /\ f[k] = w.steps[k])
  BY <1>2
<1> HIDE DEF f
<1>7. Len(f) = w.chain - (w.i - 1)
  BY <1>2, <1>4, <1>6
<1>8. \A k \in DOMAIN f : f[k].i = w.chain - k + 1 /\ Kept(e, f[k])
  <2> SUFFICES ASSUME NEW k \in DOMAIN f
               PROVE  f[k].i = w.chain - k + 1 /\ Kept(e, f[k])
    OBVIOUS
  <2>1. CASE k = Len(w.steps) + 1
    BY <2>1, <1>2, <1>3, <1>4, <1>6
  <2>2. CASE k # Len(w.steps) + 1
    BY <2>2, <1>4, <1>6
  <2> QED
    BY <2>1, <2>2
<1> QED
  BY <1>5, <1>6, <1>7, <1>8 DEF w

\* Turned round, steps found from the last to the first are in their order.
LEMMA ReversedInOrder ==
  ASSUME NEW e \in Examples, NEW f \in Seq(Steps),
         \A k \in DOMAIN f : f[k].i = Len(f) - k + 1 /\ Kept(e, f[k])
  PROVE  Reverse(f) \in Seq(Steps) /\ Len(Reverse(f)) = Len(f) /\ InOrder(e, Reverse(f))
<1>1. Reverse(f) = [k \in 1 .. Len(f) |-> f[(Len(f) - k) + 1]]
  BY DEF Reverse
<1>2. \A k \in 1 .. Len(f) : (Len(f) - k) + 1 \in DOMAIN f
  OBVIOUS
<1>3. Reverse(f) \in Seq(Steps) /\ Len(Reverse(f)) = Len(f)
  BY <1>1, <1>2
<1>4. ASSUME NEW k \in DOMAIN Reverse(f)
      PROVE  Reverse(f)[k].i = k /\ Kept(e, Reverse(f)[k])
  <2>1. k \in 1 .. Len(f) /\ Reverse(f)[k] = f[(Len(f) - k) + 1]
    BY <1>1
  <2>2. /\ f[(Len(f) - k) + 1].i = Len(f) - ((Len(f) - k) + 1) + 1
        /\ Kept(e, f[(Len(f) - k) + 1])
    BY <1>2, <2>1
  <2>3. Len(f) - ((Len(f) - k) + 1) + 1 = k
    BY <2>1
  <2> QED
    BY <2>1, <2>2, <2>3
<1> QED
  BY <1>3, <1>4 DEF InOrder

LEMMA JudgeKeeps ==
  ASSUME Sound, NEW e \in Examples, Judge(e)
  PROVE  Sound'
<1>1. phase[e] = "judge"
  BY DEF Judge
<1>2. work[e] \in Works /\ Backward(e, work[e], work[e].i)
  BY <1>1, WorkOf DEF SoundWork
<1>3. work[e].i \in Nat /\ work[e].chain \in Nat /\ work[e].i \in 1 .. work[e].chain
  BY <1>2, TrajectoryAssumption DEF Works, Backward
<1>4. CASE TryAgain(e)
  BY <1>2, <1>4, TryAgainKeeps
<1>5. CASE work[e].i > 1 /\ Go(e, "bridge", [work[e] EXCEPT !.steps = Found(e)])
  <2> DEFINE w == [work[e] EXCEPT !.steps = Found(e)]
  <2>1. w \in Works
    BY <1>1, <1>2, FoundIsNext DEF Works
  <2>2. /\ w.chain = work[e].chain /\ w.i = work[e].i /\ w.forms = work[e].forms
        /\ w.steps = Found(e) /\ w.edited = work[e].edited
    BY <1>2 DEF Works
  <2>3. Backward(e, w, w.i - 1)
    BY <1>1, <1>2, <2>2, FoundIsNext DEF Backward
  <2>4. SoundWork(e, "bridge", w)
    BY <1>5, <2>1, <2>2, <2>3 DEF SoundWork
  <2> QED
    BY <1>5, <2>4, GoKeeps DEF Phases, Working
<1>6. CASE work[e].i = 1 /\ Go(e, "edit", [work[e] EXCEPT !.steps = Reverse(Found(e))])
  <2> DEFINE w == [work[e] EXCEPT !.steps = Reverse(Found(e))]
  <2>1. Found(e) \in Seq(Steps) /\ Len(Found(e)) = work[e].chain
    BY <1>1, <1>3, <1>6, FoundIsNext
  <2>2. /\ Reverse(Found(e)) \in Seq(Steps) /\ Len(Reverse(Found(e))) = work[e].chain
        /\ InOrder(e, Reverse(Found(e)))
    BY <1>1, <2>1, FoundIsNext, ReversedInOrder
  <2>3. w \in Works
    BY <1>2, <2>2 DEF Works
  <2>4. /\ w.chain = work[e].chain /\ w.i = work[e].i
        /\ w.steps = Reverse(Found(e)) /\ w.edited = work[e].edited
    BY <1>2 DEF Works
  <2>5. Forward(e, w) /\ w.edited < w.chain
    BY <1>2, <1>3, <2>2, <2>4 DEF Forward, Backward
  <2>6. SoundWork(e, "edit", w)
    BY <2>3, <2>5 DEF SoundWork
  <2> QED
    BY <1>6, <2>6, GoKeeps DEF Phases, Working
<1> QED
  BY <1>4, <1>5, <1>6 DEF Judge

LEMMA BridgeKeeps ==
  ASSUME Sound, NEW e \in Examples, Bridge(e)
  PROVE  Sound'
<1>1. phase[e] = "bridge"
  BY DEF Bridge
<1>2. work[e] \in Works /\ Backward(e, work[e], work[e].i - 1) /\ work[e].i > 1
  BY <1>1, WorkOf DEF SoundWork
<1>3. ASSUME NEW aliases \in SUBSET {Alias(work[e].i - 1)},
             Go(e, "command", [work[e] EXCEPT
               !.i = @ - 1, !.tries = 0, !.forms = FormsFor(e, aliases), !.found = NoOutput])
      PROVE  Sound'
  <2> DEFINE w == [work[e] EXCEPT
                     !.i = @ - 1, !.tries = 0, !.forms = aliases, !.found = NoOutput]
  <2>1. work[e].i - 1 \in Nat /\ work[e].i \in Nat /\ work[e].chain \in Nat
    BY <1>2, TrajectoryAssumption DEF Works
  <2>2. w \in Works
    <3>1. aliases \in SUBSET Names /\ NoOutput \in Founds
      BY <2>1, NamesTyped, NoWorkTyped
    <3>2. 0 \in 0 .. MaxIterations - 1
      BY TrajectoryAssumption
    <3> QED
      BY <1>2, <2>1, <3>1, <3>2 DEF Works
  <2>3. /\ w.chain = work[e].chain /\ w.i = work[e].i - 1 /\ w.forms = aliases
        /\ w.steps = work[e].steps /\ w.edited = work[e].edited
    BY <1>2 DEF Works
  <2>4. Backward(e, w, w.i)
    BY <1>2, <2>1, <2>3 DEF Backward
  <2>5. SoundWork(e, "command", w) /\ Go(e, "command", w)
    BY <1>3, <2>2, <2>4 DEF SoundWork, FormsFor
  <2> QED
    BY <2>5, GoKeeps DEF Phases, Working
<1> QED
  BY <1>3, AbortKeeps DEF Bridge

LEMMA EditKeeps ==
  ASSUME Sound, NEW e \in Examples, Edit(e)
  PROVE  Sound'
<1> DEFINE n == work[e].edited + 1
           ph == IF n = work[e].chain THEN "answer" ELSE "edit"
           w == [work[e] EXCEPT !.edited = n]
<1>1. phase[e] = "edit"
  BY DEF Edit
<1>2. work[e] \in Works /\ Forward(e, work[e]) /\ work[e].edited < work[e].chain
  BY <1>1, WorkOf DEF SoundWork
<1>3. n \in Nat /\ n \in 0 .. work[e].chain /\ work[e].chain \in Nat
  BY <1>2, TrajectoryAssumption DEF Works
<1>4. w \in Works
  BY <1>2, <1>3 DEF Works
<1>5. /\ w.chain = work[e].chain /\ w.i = work[e].i /\ w.steps = work[e].steps
      /\ w.edited = n
  BY <1>2 DEF Works
<1>6. Forward(e, w)
  BY <1>2, <1>3, <1>5 DEF Forward
<1>7. ph = "edit" => w.edited < w.chain
  <2>1. ph = "edit" => n # work[e].chain
    OBVIOUS
  <2> QED
    BY <1>3, <1>5, <2>1
<1>8. SoundWork(e, ph, w) /\ ph \in Phases
  BY <1>4, <1>6, <1>7 DEF SoundWork, Phases, Working
<1>9. CASE Go(e, ph, w)
  <2> HIDE DEF ph, w
  <2> QED
    BY <1>8, <1>9, GoKeeps
<1> QED
  BY <1>9, AbortKeeps DEF Edit

\* Steps in their order make a record, unless it passes without success.
LEMMA AnsweredKeeps ==
  ASSUME Sound, NEW e \in Examples, phase[e] \in {"answer", "quality"},
         NEW success \in BOOLEAN, NEW pass \in BOOLEAN, pass => success,
         Answered(e, success, pass)
  PROVE  Sound'
<1> DEFINE r == [steps |-> work[e].steps, success |-> success, pass |-> pass]
<1>1. work[e] \in Works /\ Forward(e, work[e])
  BY WorkOf DEF SoundWork
<1>2. r \in Records /\ Len(work[e].steps) <= MaxToolCalls
  BY <1>1, TrajectoryAssumption DEF Works, Records, Forward
<1>3. SoundResult(e, r)
  BY <1>1, <1>2 DEF SoundResult, Forward
<1>4. Return(e, r)
  BY DEF Answered
<1> QED
  BY <1>3, <1>4, ReturnKeeps

LEMMA TrajectoryKeeps ==
  ASSUME Sound, NEW e \in Examples, TrajectoryStep(e)
  PROVE  Sound'
<1>1. CASE FinalAnswer(e)
  <2>1. phase[e] = "answer"
    BY <1>1 DEF FinalAnswer
  <2>2. CASE Answered(e, FALSE, FALSE) \/ Answered(e, TRUE, TRUE)
    BY <2>1, <2>2, AnsweredKeeps
  <2>3. CASE Go(e, "quality", work[e])
    <3>1. SoundWork(e, "quality", work[e])
      BY <2>1, WorkOf DEF SoundWork
    <3> QED
      BY <2>3, <3>1, GoKeeps DEF Phases, Working
  <2> QED
    BY <1>1, <2>2, <2>3, AbortKeeps DEF FinalAnswer
<1>2. CASE Quality(e)
  <2>1. PICK pass \in BOOLEAN : Answered(e, TRUE, pass)
    BY <1>2 DEF Quality
  <2> QED
    BY <1>2, <2>1, AnsweredKeeps DEF Quality
<1>3. CASE Raises(e)
  BY <1>3, AbortKeeps DEF Raises
<1> QED
  BY <1>1, <1>2, <1>3, DecomposeKeeps, CommandKeeps, JudgeKeeps, BridgeKeeps, EditKeeps
     DEF TrajectoryStep

\* A thread takes an example up; all threads end or have not begun.
LEMMA BeginKeeps ==
  ASSUME Sound, NEW e \in Examples, Begin(e)
  PROVE  Sound'
<1>1. SoundWork(e, "decompose", NoWork)
  BY NoWorkSound
<1> QED
  BY <1>1, GoKeeps DEF Begin, Phases, Working

LEMMA NobodyKeeps ==
  ASSUME NEW ph \in [Examples -> {"out", "queued"}], NobodyWorks(ph)
  PROVE  Sound'
BY NoWorkSound, NoResultSound DEF NobodyWorks, Sound, Phases

LEMMA CollectedKeeps ==
  ASSUME Sound, NEW e \in Examples, phase[e] = "ended", Collected(e)
  PROVE  Sound'
<1>1. /\ phase' = [phase EXCEPT ![e] = "out"] /\ work' = work
      /\ result' = [result EXCEPT ![e] = NoResult]
  BY DEF Collected
<1>2. SoundWork(e, "out", work[e])
  BY WorkOf DEF SoundWork
<1>3. ASSUME NEW x \in Examples
      PROVE  SoundWork(x, phase'[x], work'[x]) /\ SoundResult(x, result'[x])
  BY <1>1, <1>2, NoResultSound DEF Sound
<1>4. /\ phase' \in [Examples -> Phases]
      /\ work' = [x \in Examples |-> work'[x]] /\ result' = [x \in Examples |-> result'[x]]
  BY <1>1 DEF Sound, Phases
<1> QED
  BY <1>3, <1>4 DEF Sound

LEMMA SoundTells ==
  ASSUME Sound
  PROVE  TrajectoryTypeOK /\ TrainsOnConfirmedSteps
<1>1. ASSUME NEW e \in Examples
      PROVE  /\ work[e].chain \in 0 .. MaxToolCalls /\ work[e].i \in 0 .. work[e].chain
             /\ work[e].tries \in 0 .. MaxIterations - 1
             /\ work[e].edited \in 0 .. work[e].chain
             /\ Len(work[e].steps) <= work[e].chain /\ Len(result[e].steps) <= MaxToolCalls
             /\ result[e].pass => QualityFilter \/ result[e].success
  <2> DEFINE w == work[e]
  <2>1. /\ phase[e] \in Phases /\ w \in Works /\ SoundWork(e, phase[e], w)
        /\ SoundResult(e, result[e])
    BY WorkOf DEF Sound
  <2>2. /\ w.chain \in 0 .. MaxToolCalls /\ w.chain \in Nat /\ w.i \in Nat
        /\ w.tries \in 0 .. MaxIterations - 1
    BY <2>1, TrajectoryAssumption DEF Works
  <2>3. w.i \in 0 .. w.chain /\ w.edited \in 0 .. w.chain /\ Len(w.steps) <= w.chain
    <3>1. CASE w = NoWork
      BY <3>1 DEF NoWork
    <3>2. ASSUME NEW m \in {w.i, w.i - 1}, Backward(e, w, m), m >= 0
          PROVE  w.i \in 0 .. w.chain /\ w.edited \in 0 .. w.chain /\ Len(w.steps) <= w.chain
      BY <2>2, <3>2 DEF Backward
    <3>3. CASE Forward(e, w)
      BY <2>2, <3>3 DEF Forward
    <3> QED
      BY <2>1, <2>2, <3>1, <3>2, <3>3 DEF SoundWork, Phases, Working
  <2> QED
    BY <2>1, <2>2, <2>3 DEF SoundResult
<1>2. TrajectoryTypeOK
  BY <1>1 DEF TrajectoryTypeOK, Sound, Phases
<1>3. ASSUME NEW e \in Examples, NEW k \in DOMAIN result[e].steps
      PROVE  /\ result[e].steps[k].i = k
             /\ result[e].steps[k].found.output
             /\ result[e].steps[k].forms \subseteq {Alias(k)}
             /\ Confirmed(e, {Main(k)} \cup result[e].steps[k].forms, result[e].steps[k].found)
  BY WorkOf DEF SoundResult, InOrder, Kept, Confirmed
<1> QED
  BY <1>2, <1>3 DEF TrainsOnConfirmedSteps, Confirmed
-----------------------------------------------------------------------------
(***************************************************************************)
(* The files.  As long as no start went on behind an open last line, every *)
(* row of the chatml file has its rich row, and while a run is on no       *)
(* example that is worked on has one.                                      *)
(***************************************************************************)
Files ==
  /\ rich \in Seq(Lines) /\ chatml \in Seq(Lines) /\ peer \in Seq(Lines)
  /\ LinesEnded(rich) /\ LinesEnded(chatml) /\ LinesEnded(peer)

History ==
  /\ process \in {"down", "running", "done", "failed"}
  /\ writing = {} \/ \E e \in Examples : writing = {e}
  /\ process # "running" => writing = {}
  /\ starts \in 0 .. MaxStarts
  /\ kills \in Nat /\ kills <= starts
  /\ process = "running" => kills < starts
  /\ glued \in BOOLEAN /\ good \subseteq Examples

Unwritten ==
  process = "running" => \A e \in Examples : phase[e] # "out" => e \notin ReadBack(rich)

OnceTrained ==
  ~glued =>
    /\ Unique(chatml) /\ ReadBack(chatml) \subseteq ReadBack(rich)
    /\ writing \subseteq ReadBack(rich) /\ writing \cap ReadBack(chatml) = {}
    /\ process = "running" => ~Open(rich)

(***************************************************************************)
(* What an open last line of the chatml file will cost when the next row   *)
(* is glued to it, that row and, if the line reads back, its own, is set   *)
(* against the two rows of the kill that left it open.                     *)
(***************************************************************************)
Debt(f) == IF Open(f) THEN (IF Last(f).text \in Examples THEN 2 ELSE 1) ELSE 0

Paid == Cardinality(Untrained) + Debt(chatml) <= 2 * kills

IInv == Sound /\ Files /\ History /\ Unwritten /\ OnceTrained /\ Paid

LEMMA ExamplesFinite == IsFiniteSet(Examples)
<1>1. IsFiniteSet(DOMAIN Dataset)
  <2>1. DOMAIN Dataset = 1 .. Len(Dataset) /\ Len(Dataset) \in Int
    BY DataAssumption
  <2> QED
    BY <2>1, FS_Interval
<1>2. Dataset \in Surjection(DOMAIN Dataset, Examples)
  BY DataAssumption DEF Surjection, ToSet
<1> QED
  BY <1>1, <1>2, FS_Surjection

\* A set that has one more element, or two, at most.
LEMMA OneMore ==
  ASSUME NEW S, IsFiniteSet(S), NEW T, NEW a, T \subseteq S \cup {a}
  PROVE  Cardinality(T) <= Cardinality(S) + 1
<1>1. /\ IsFiniteSet(S \cup {a}) /\ Cardinality(S) \in Nat
      /\ Cardinality(S \cup {a}) <= Cardinality(S) + 1
  BY FS_AddElement, FS_CardinalityType
<1>2. T \in SUBSET (S \cup {a})
  OBVIOUS
<1>3. /\ Cardinality(T) <= Cardinality(S \cup {a}) /\ Cardinality(T) \in Nat
      /\ Cardinality(S \cup {a}) \in Nat
  BY <1>1, <1>2, FS_Subset, FS_CardinalityType
<1> QED
  BY <1>1, <1>3

LEMMA TwoMore ==
  ASSUME NEW S, IsFiniteSet(S), NEW T, NEW a, NEW b, T \subseteq S \cup {a, b}
  PROVE  Cardinality(T) <= Cardinality(S) + 2
<1>1. /\ IsFiniteSet(S \cup {a}) /\ Cardinality(S) \in Nat
      /\ Cardinality(S \cup {a}) <= Cardinality(S) + 1
      /\ Cardinality(S \cup {a}) \in Nat
  <2>1. IsFiniteSet(S \cup {a}) /\ Cardinality(S) \in Nat
    BY FS_AddElement, FS_CardinalityType
  <2> QED
    BY <2>1, OneMore, FS_CardinalityType
<1>2. T \subseteq (S \cup {a}) \cup {b}
  OBVIOUS
<1>3. /\ IsFiniteSet(T) /\ Cardinality(T) \in Nat
  <2>1. IsFiniteSet((S \cup {a}) \cup {b})
    BY <1>1, FS_AddElement
  <2>2. T \in SUBSET ((S \cup {a}) \cup {b})
    BY <1>2
  <2> QED
    BY <2>1, <2>2, FS_Subset, FS_CardinalityType
<1>4. Cardinality(T) <= Cardinality(S \cup {a}) + 1
  BY <1>1, <1>2, OneMore
<1> QED
  BY <1>1, <1>3, <1>4

LEMMA NoneMore ==
  ASSUME NEW S, IsFiniteSet(S), NEW T, T \subseteq S
  PROVE  Cardinality(T) <= Cardinality(S)
<1>1. T \in SUBSET S
  OBVIOUS
<1> QED
  BY <1>1, FS_Subset

\* The examples whose training row is missing, in terms of what reads back.
Lacking(g, rows, due, trained) == {e \in g : e \in rows /\ e \notin due /\ e \notin trained}

LEMMA UntrainedIs ==
  ASSUME good \subseteq Examples
  PROVE  /\ Untrained = Lacking(good, ReadBack(rich), writing, ReadBack(chatml))
         /\ IsFiniteSet(Untrained) /\ Cardinality(Untrained) \in Nat
<1>1. \A e \in Examples : RowsOf(chatml, e) = {} <=> e \notin ReadBack(chatml)
  BY DEF RowsOf, ReadBack
<1>2. Untrained = Lacking(good, ReadBack(rich), writing, ReadBack(chatml))
  BY <1>1 DEF Untrained, Lacking
<1>3. Untrained \in SUBSET Examples
  BY DEF Untrained
<1> QED
  BY <1>2, <1>3, ExamplesFinite, FS_Subset, FS_CardinalityType

\* The same of the next state.
LEMMA UntrainedNext ==
  ASSUME good' \subseteq Examples
  PROVE  /\ Untrained' = Lacking(good', ReadBack(rich'), writing', ReadBack(chatml'))
         /\ IsFiniteSet(Untrained') /\ Cardinality(Untrained') \in Nat
<1>1. \A e \in Examples : RowsOf(chatml', e) = {} <=> e \notin ReadBack(chatml')
  BY DEF RowsOf, ReadBack
<1>2. Untrained' = Lacking(good', ReadBack(rich'), writing', ReadBack(chatml'))
  BY <1>1 DEF Untrained, Lacking
<1>3. Untrained' \in SUBSET Examples
  BY DEF Untrained
<1> QED
  BY <1>2, <1>3, ExamplesFinite, FS_Subset, FS_CardinalityType

\* What a write cut short leaves to pay for.
LEMMA GrowthDebt ==
  ASSUME NEW f \in Seq(Lines), NEW g, NEW id \in Examples, Grows(f, g, id), g # f
  PROVE  /\ Debt(g) \in 0 .. 2
         /\ Open(f) => Debt(g) <= 1
         /\ Debt(g) = 2 => id \in ReadBack(g)
<1>1. /\ g \in Seq(Lines) /\ g[Len(g)].text \in {id, Torn, Garbled}
      /\ Open(f) => g[Len(g)].text \in {Torn, Garbled}
  BY DEF Grows
<1>2. Debt(g) \in 0 .. 2
  BY DEF Debt
<1>3. Open(f) => Debt(g) <= 1
  BY <1>1, DataAssumption DEF Debt, Last
<1>4. ASSUME Debt(g) = 2 PROVE id \in ReadBack(g)
  <2>1. g # <<>> /\ Last(g).text \in Examples
    BY <1>4 DEF Debt, Open
  <2>2. Len(g) \in DOMAIN g /\ g[Len(g)].text = id
    BY <1>1, <2>1, DataAssumption DEF Last
  <2> QED
    BY <2>2 DEF ReadBack
<1> QED
  BY <1>2, <1>3, <1>4

\* The rows lost to a write: that of an open last line, if it reads back.
LEMMA GrowthLoses ==
  ASSUME NEW f \in Seq(Lines), NEW g, NEW id \in Examples, Grows(f, g, id)
  PROVE  /\ Debt(f) = 0 => ReadBack(f) \subseteq ReadBack(g)
         /\ Debt(f) = 1 => ReadBack(f) \subseteq ReadBack(g)
         /\ ReadBack(f) \ ReadBack(g) \subseteq {Last(f).text}
         /\ Debt(f) \in 0 .. 2 /\ (Debt(f) = 0 <=> ~Open(f))
<1>1. ReadBack(f) \ ReadBack(g) \subseteq (IF Open(f) THEN {Last(f).text} ELSE {})
  BY GrowthKeepsRows
<1>2. ReadBack(f) \subseteq Examples
  BY DEF ReadBack
<1>3. Debt(f) \in 0 .. 2 /\ (Debt(f) = 0 <=> ~Open(f))
  BY DEF Debt
<1>4. Debt(f) = 1 => Last(f).text \notin Examples
  BY DEF Debt
<1> QED
  BY <1>1, <1>2, <1>3, <1>4
-----------------------------------------------------------------------------
LEMMA InitIInv == Init => IInv
<1> SUFFICES ASSUME Init PROVE IInv
  OBVIOUS
<1>1. Sound
  BY NoWorkSound, NoResultSound DEF Init, Sound, Phases
<1>2. Files /\ Unwritten
  BY DEF Init, Files, LinesEnded, Unwritten
<1>3. History
  <2>1. MaxStarts \in Nat /\ process = "down" /\ writing = {} /\ starts = 0 /\ kills = 0
        /\ glued = FALSE /\ good = {}
    BY DataAssumption DEF Init
  <2>2. starts \in 0 .. MaxStarts /\ kills \in Nat /\ kills <= starts
    BY <2>1
  <2>3. glued \in BOOLEAN /\ good \subseteq Examples
    BY <2>1
  <2> QED
    BY <2>1, <2>2, <2>3 DEF History
<1>4. OnceTrained
  BY DEF Init, OnceTrained, Unique, ReadBack
<1>5. Paid
  <2>1. Untrained = {} /\ Debt(chatml) = 0 /\ kills = 0
    BY DEF Init, Untrained, Debt, Open
  <2> QED
    BY <2>1, FS_EmptySet DEF Paid
<1> QED
  BY <1>1, <1>2, <1>3, <1>4, <1>5 DEF IInv

LEMMA StartKeeps ==
  ASSUME IInv, NEW resume \in BOOLEAN, Start(resume)
  PROVE  IInv'
<1> DEFINE ph == [e \in Examples |-> IF e \in Done(resume) \cup YesNo THEN "out" ELSE "queued"]
<1>1. /\ process # "running" /\ process' = "running" /\ starts' = starts + 1
      /\ starts < MaxStarts /\ NobodyWorks(ph) /\ phase' = ph
      /\ rich' = (IF resume THEN rich ELSE <<>>) /\ chatml' = ChatmlOpened(resume)
      /\ kills' = (IF resume THEN kills ELSE 0)
      /\ glued' = (resume /\ (glued \/ Open(rich)))
      /\ good' = (IF resume THEN good ELSE {})
      /\ UNCHANGED <<writing, peer>>
  BY DEF Start, NobodyWorks
<1>2. Sound'
  <2>1. ph \in [Examples -> {"out", "queued"}]
    OBVIOUS
  <2> QED
    BY <1>1, <2>1, NobodyKeeps
<1>3. Files'
  BY <1>1 DEF IInv, Files, ChatmlOpened, LinesEnded
<1>4. History'
  <2>1. starts' \in 0 .. MaxStarts
    BY <1>1, DataAssumption DEF IInv, History
  <2>2. kills' \in Nat /\ kills' < starts'
    BY <1>1, DataAssumption DEF IInv, History
  <2>3. kills' <= starts'
    BY <2>1, <2>2, DataAssumption
  <2>4. glued' \in BOOLEAN /\ good' \subseteq Examples
    BY <1>1 DEF IInv, History, Open
  <2> QED
    BY <1>1, <2>1, <2>2, <2>3, <2>4 DEF IInv, History
<1>5. Unwritten'
  <2>1. ReadBack(rich') \subseteq Done(resume)
    BY <1>1 DEF Done, ReadBack
  <2> QED
    BY <1>1, <2>1 DEF Unwritten
<1>6. CASE resume
  <2>1. rich' = rich /\ chatml' = chatml /\ kills' = kills /\ good' = good
    BY <1>1, <1>6 DEF ChatmlOpened
  <2>2. OnceTrained'
    BY <1>1, <1>6, <2>1 DEF IInv, OnceTrained
  <2>3. Paid'
    BY <1>1, <2>1 DEF IInv, Paid, Untrained
  <2> QED
    BY <1>2, <1>3, <1>4, <1>5, <2>2, <2>3 DEF IInv
<1>7. CASE ~resume
  <2>1. rich' = <<>> /\ chatml' = <<>> /\ kills' = 0 /\ good' = {} /\ writing' = {}
    BY <1>1, <1>7 DEF ChatmlOpened, IInv, History
  <2>2. OnceTrained'
    BY <2>1 DEF OnceTrained, Unique, ReadBack, Open
  <2>3. Paid'
    <3>1. Untrained' = {} /\ Debt(chatml') = 0
      BY <2>1 DEF Untrained, Debt, Open
    <3> QED
      BY <2>1, <3>1, FS_EmptySet DEF Paid
  <2> QED
    BY <1>2, <1>3, <1>4, <1>5, <2>2, <2>3 DEF IInv
<1> QED
  BY <1>6, <1>7

\* The threads leave the files alone, and no example leaves "out".
LEMMA ThreadKeeps ==
  ASSUME IInv, Sound', process = "running", UNCHANGED runVars,
         \A x \in Examples : phase[x] = "out" => phase'[x] = "out"
  PROVE  IInv'
<1>1. Files' /\ History'
  BY DEF IInv, runVars, Files, LinesEnded, History
<1>2. Unwritten'
  BY DEF IInv, runVars, Unwritten
<1>3. OnceTrained' /\ Paid'
  BY DEF IInv, runVars, OnceTrained, Paid, Untrained
<1> QED
  BY <1>1, <1>2, <1>3 DEF IInv

LEMMA GoneStayGone ==
  ASSUME Sound, NEW e \in Examples, phase[e] # "out", TrajectoryStep(e) \/ Begin(e)
  PROVE  \A x \in Examples : phase[x] = "out" => phase'[x] = "out"
<1>1. \E ph : phase' = [phase EXCEPT ![e] = ph]
  BY DEF TrajectoryStep, Decompose, Command, TryAgain, Judge, Bridge, Edit, FinalAnswer,
         Quality, Raises, Answered, Abort, Return, Go, Begin
<1> QED
  BY <1>1 DEF Sound

\* Steps that change neither the trajectories nor what is in the two files.
LEMMA OutsideKeeps ==
  ASSUME IInv, StartFails(TRUE) \/ StartFails(FALSE) \/ Finish \/ PeerWrites
  PROVE  IInv'
<1>1. /\ UNCHANGED <<phase, work, result, rich, chatml, writing, kills, glued, good>>
      /\ process' # "running"
  BY DEF StartFails, Finish, PeerWrites, trajectoryVars
<1>2. Sound'
  BY <1>1 DEF IInv, Sound
<1>3. History'
  <2>1. starts' \in 0 .. MaxStarts /\ kills <= starts'
    <3>1. /\ starts' = starts \/ (starts' = starts + 1 /\ starts < MaxStarts)
          /\ starts \in 0 .. MaxStarts /\ kills \in Nat /\ kills <= starts
      BY DEF IInv, History, StartFails, Finish, PeerWrites
    <3>2. MaxStarts \in Nat
      BY DataAssumption
    <3> QED
      BY <3>1, <3>2
  <2>2. process' \in {"down", "done", "failed"} /\ writing = {}
    BY DEF IInv, History, StartFails, Finish, PeerWrites
  <2> QED
    BY <1>1, <2>1, <2>2 DEF IInv, History
<1>4. Unwritten' /\ OnceTrained' /\ Paid'
  BY <1>1 DEF IInv, Unwritten, OnceTrained, Paid, Untrained
<1>5. Files'
  <2>1. CASE peer' = peer
    BY <1>1, <2>1 DEF IInv, Files, LinesEnded
  <2>2. ASSUME NEW e \in Examples, peer' \in CutShort(peer, e)
        PROVE  Files'
    <3>1. Grows(peer, peer', e) /\ peer \in Seq(Lines) /\ LinesEnded(peer)
      BY <2>2, CutShortGrows DEF IInv, Files
    <3>2. LinesEnded(peer') /\ peer' \in Seq(Lines)
      BY <3>1, GrowthKeepsEnded DEF Grows
    <3> QED
      BY <1>1, <3>2 DEF IInv, Files, LinesEnded
  <2>3. ASSUME NEW e \in Examples, Open(peer),
               peer' = [peer EXCEPT ![Len(peer)] = [text |-> e, ended |-> TRUE]]
        PROVE  Files'
    <3>1. [text |-> e, ended |-> TRUE] \in Lines /\ peer # <<>> /\ peer \in Seq(Lines)
      BY <2>3 DEF Lines, Open, IInv, Files
    <3>2. ReplacedIn(peer, peer', [text |-> e, ended |-> TRUE])
      BY <2>3, <3>1, ReplacedLast
    <3>3. peer' \in Seq(Lines) /\ LinesEnded(peer')
      BY <3>1, <3>2 DEF ReplacedIn, SamePrefix, LinesEnded, IInv, Files
    <3> QED
      BY <1>1, <3>3 DEF IInv, Files, LinesEnded
  <2> QED
    BY <2>1, <2>2, <2>3, DataAssumption DEF StartFails, Finish, PeerWrites
<1> QED
  BY <1>2, <1>3, <1>4, <1>5 DEF IInv

LEMMA WriteRichKeeps ==
  ASSUME IInv, NEW e \in Examples, WriteRich(e)
  PROVE  IInv'
<1>1. /\ process = "running" /\ writing = {} /\ phase[e] = "ended" /\ rich' = WithRow(rich, e)
      /\ writing' = (IF Exported(result[e]) THEN {e} ELSE {})
      /\ good' = (IF Exported(result[e]) THEN good \cup {e} ELSE good \ {e})
      /\ Collected(e) /\ phase' = [phase EXCEPT ![e] = "out"]
      /\ UNCHANGED <<process, chatml, peer, starts, kills, glued>>
  BY DEF WriteRich, Collected
<1>2. Sound'
  BY <1>1, CollectedKeeps DEF IInv
<1>3. /\ rich \in Seq(Lines) /\ Grows(rich, rich', e) /\ ~Open(rich')
      /\ ~Open(rich) => ReadBack(rich') = ReadBack(rich) \cup {e}
      /\ ReadBack(rich') \subseteq ReadBack(rich) \cup {e}
      /\ e \notin ReadBack(rich)
  BY <1>1, WithRowGrows, WithRowEnds, GrowthAdds DEF IInv, Files, Unwritten
<1>4. Files'
  <2>1. rich' \in Seq(Lines) /\ LinesEnded(rich')
    BY <1>3, GrowthKeepsEnded DEF IInv, Files, Grows
  <2> QED
    BY <1>1, <2>1 DEF IInv, Files, LinesEnded
<1>5. History'
  <2>1. good' \subseteq Examples /\ (writing' = {} \/ writing' = {e})
    BY <1>1 DEF IInv, History
  <2> QED
    BY <1>1, <2>1 DEF IInv, History
<1>6. Unwritten'
  BY <1>1, <1>3 DEF IInv, Unwritten, Sound
<1>7. OnceTrained'
  BY <1>1, <1>3 DEF IInv, OnceTrained, Unique
<1>8. Paid'
  <2>1. good \subseteq Examples /\ good' \subseteq Examples
    BY <1>5 DEF IInv, History
  <2>2. Untrained' \subseteq Untrained
    BY <1>1, <1>3, <2>1, UntrainedIs, UntrainedNext DEF Lacking
  <2>3. Cardinality(Untrained') <= Cardinality(Untrained)
    BY <2>1, <2>2, UntrainedIs, NoneMore
  <2>4. Cardinality(Untrained') \in Nat /\ Cardinality(Untrained) \in Nat
        /\ Debt(chatml') = Debt(chatml) /\ Debt(chatml) \in 0 .. 2 /\ kills \in Nat /\ kills' = kills
    BY <1>1, <2>1, UntrainedIs, UntrainedNext DEF Debt, IInv, History
  <2> QED
    BY <2>3, <2>4 DEF IInv, Paid
<1> QED
  BY <1>2, <1>4, <1>5, <1>6, <1>7, <1>8 DEF IInv

LEMMA WriteChatmlKeeps ==
  ASSUME IInv, NEW e \in Examples, WriteChatml(e)
  PROVE  IInv'
<1>1. /\ process = "running" /\ writing = {e} /\ writing' = {} /\ chatml' = WithRow(chatml, e)
      /\ UNCHANGED <<phase, work, result, process, rich, peer, starts, kills, glued, good>>
  BY DEF WriteChatml, trajectoryVars
<1>2. /\ chatml \in Seq(Lines) /\ Grows(chatml, chatml', e) /\ ~Open(chatml')
      /\ ~Open(chatml) => ReadBack(chatml') = ReadBack(chatml) \cup {e}
      /\ ReadBack(chatml') \subseteq ReadBack(chatml) \cup {e}
  BY <1>1, WithRowGrows, WithRowEnds, GrowthAdds DEF IInv, Files
<1>3. Sound' /\ History' /\ Unwritten'
  BY <1>1 DEF IInv, Sound, History, Unwritten
<1>4. Files'
  <2>1. chatml' \in Seq(Lines) /\ LinesEnded(chatml')
    BY <1>2, GrowthKeepsEnded DEF IInv, Files, Grows
  <2> QED
    BY <1>1, <2>1 DEF IInv, Files, LinesEnded
<1>5. OnceTrained'
  <2> SUFFICES ASSUME ~glued' PROVE OnceTrained'
    BY DEF OnceTrained
  <2>1. Unique(chatml) /\ e \notin ReadBack(chatml) /\ e \in ReadBack(rich) /\ ~glued
    BY <1>1 DEF IInv, OnceTrained
  <2>2. Unique(chatml')
    BY <1>2, <2>1, GrowthKeepsUnique
  <2> QED
    BY <1>1, <1>2, <2>1, <2>2 DEF IInv, OnceTrained
<1>6. Paid'
  <2>1. good \subseteq Examples /\ good' \subseteq Examples
    BY <1>1 DEF IInv, History
  <2>2. /\ Untrained = Lacking(good, ReadBack(rich), {e}, ReadBack(chatml))
        /\ Untrained' = Lacking(good, ReadBack(rich), {}, ReadBack(chatml'))
        /\ IsFiniteSet(Untrained)
        /\ Cardinality(Untrained) \in Nat /\ Cardinality(Untrained') \in Nat
    BY <1>1, <2>1, UntrainedIs, UntrainedNext
  <2>3. /\ Debt(chatml') = 0 /\ Debt(chatml) \in 0 .. 2 /\ kills \in Nat /\ kills' = kills
        /\ Cardinality(Untrained) + Debt(chatml) <= 2 * kills
    BY <1>1, <1>2 DEF Debt, IInv, History, Paid
  <2>4. CASE Debt(chatml) = 0
    <3>1. ReadBack(chatml') = ReadBack(chatml) \cup {e}
      BY <1>2, <2>4 DEF Debt
    <3>2. Untrained' \subseteq Untrained
      BY <2>2, <3>1 DEF Lacking
    <3>3. Cardinality(Untrained') <= Cardinality(Untrained)
      BY <2>2, <3>2, NoneMore
    <3> QED
      BY <2>2, <2>3, <2>4, <3>3 DEF Paid
  <2>5. CASE Debt(chatml) = 1
    <3>1. Untrained' \subseteq Untrained \cup {e}
      BY <1>2, <2>2, <2>5, GrowthLoses DEF Lacking
    <3>2. Cardinality(Untrained') <= Cardinality(Untrained) + 1
      BY <2>2, <3>1, OneMore
    <3> QED
      BY <2>2, <2>3, <2>5, <3>2 DEF Paid
  <2>6. CASE Debt(chatml) = 2
    <3>1. Untrained' \subseteq Untrained \cup {e, Last(chatml).text}
      BY <1>2, <2>2, GrowthLoses DEF Lacking
    <3>2. Cardinality(Untrained') <= Cardinality(Untrained) + 2
      BY <2>2, <3>1, TwoMore
    <3> QED
      BY <2>2, <2>3, <2>6, <3>2 DEF Paid
  <2> QED
    BY <2>3, <2>4, <2>5, <2>6
<1> QED
  BY <1>3, <1>4, <1>5, <1>6 DEF IInv

(***************************************************************************)
(* A kill: between two writes, in the row of the rich file or in that of   *)
(* the chatml file.  It costs two training rows at most, the debt of the   *)
(* line it may leave open included.                                        *)
(***************************************************************************)
LEMMA KilledPays ==
  ASSUME IInv, Killed
  PROVE  Paid'
<1>1. /\ process = "running" /\ writing' = {} /\ kills' = kills + 1 /\ good' = good
  BY DEF Killed
<1>2. good \subseteq Examples /\ good' \subseteq Examples
  BY <1>1 DEF IInv, History
<1>3. /\ Untrained = Lacking(good, ReadBack(rich), writing, ReadBack(chatml))
      /\ Untrained' = Lacking(good, ReadBack(rich'), {}, ReadBack(chatml'))
      /\ IsFiniteSet(Untrained)
      /\ Cardinality(Untrained) \in Nat /\ Cardinality(Untrained') \in Nat
  BY <1>1, <1>2, UntrainedIs, UntrainedNext
<1>4. /\ Debt(chatml) \in 0 .. 2 /\ Debt(chatml') \in 0 .. 2 /\ kills \in Nat
      /\ Cardinality(Untrained) + Debt(chatml) <= 2 * kills
  BY DEF Debt, IInv, History, Paid
<1>5. CASE chatml' = chatml
  <2>1. Cardinality(Untrained') <= Cardinality(Untrained) + 1
    <3>1. CASE rich' = rich /\ writing = {}
      <4>1. Untrained' \subseteq Untrained
        BY <1>3, <1>5, <3>1 DEF Lacking
      <4> QED
        BY <1>3, <4>1, NoneMore
    <3>2. ASSUME NEW e \in Examples, writing = {e}, rich' = rich
          PROVE  Cardinality(Untrained') <= Cardinality(Untrained) + 1
      <4>1. Untrained' \subseteq Untrained \cup {e}
        BY <1>3, <1>5, <3>2 DEF Lacking
      <4> QED
        BY <1>3, <4>1, OneMore
    <3>3. ASSUME NEW e \in Examples, writing = {}, rich' \in CutShort(rich, e)
          PROVE  Cardinality(Untrained') <= Cardinality(Untrained) + 1
      <4>1. ReadBack(rich') \subseteq ReadBack(rich) \cup {e}
        BY <3>3, CutShortGrows, GrowthAdds DEF IInv, Files
      <4>2. Untrained' \subseteq Untrained \cup {e}
        BY <1>3, <1>5, <3>3, <4>1 DEF Lacking
      <4> QED
        BY <1>3, <4>2, OneMore
    <3> QED
      BY <3>1, <3>2, <3>3 DEF Killed, IInv, History
  <2> QED
    BY <1>1, <1>3, <1>4, <1>5, <2>1 DEF Paid
<1>6. ASSUME NEW e \in writing, chatml' \in CutShort(chatml, e), chatml' # chatml, rich' = rich
      PROVE  Paid'
  <2>1. e \in Examples /\ writing = {e}
    BY DEF IInv, History
  <2>2. chatml \in Seq(Lines) /\ Grows(chatml, chatml', e)
    BY <1>6, <2>1, CutShortGrows DEF IInv, Files
  <2>3. Untrained' \subseteq Untrained \cup {e, Last(chatml).text}
    BY <1>3, <1>6, <2>1, <2>2, GrowthLoses DEF Lacking
  <2>4. Cardinality(Untrained') <= Cardinality(Untrained) + 2
    BY <1>3, <2>3, TwoMore
  <2>5. CASE Debt(chatml) = 0
    <3>1. CASE Debt(chatml') = 2
      <4>1. Untrained' \subseteq Untrained
        BY <1>3, <1>6, <2>1, <2>2, <2>5, <3>1, GrowthLoses, GrowthDebt DEF Lacking
      <4>2. Cardinality(Untrained') <= Cardinality(Untrained)
        BY <1>3, <4>1, NoneMore
      <4> QED
        BY <1>1, <1>3, <1>4, <2>5, <3>1, <4>2 DEF Paid
    <3>2. CASE Debt(chatml') # 2
      <4>1. Untrained' \subseteq Untrained \cup {e}
        BY <1>3, <1>6, <2>1, <2>2, <2>5, GrowthLoses DEF Lacking
      <4>2. Cardinality(Untrained') <= Cardinality(Untrained) + 1
        BY <1>3, <4>1, OneMore
      <4> QED
        BY <1>1, <1>3, <1>4, <2>5, <3>2, <4>2 DEF Paid
    <3> QED
      BY <3>1, <3>2
  <2>6. CASE Debt(chatml) = 1
    <3>1. Untrained' \subseteq Untrained \cup {e}
      BY <1>3, <1>6, <2>1, <2>2, <2>6, GrowthLoses DEF Lacking
    <3>2. Cardinality(Untrained') <= Cardinality(Untrained) + 1
      BY <1>3, <3>1, OneMore
    <3>3. Debt(chatml') <= 1
      BY <1>6, <2>1, <2>2, <2>6, GrowthLoses, GrowthDebt
    <3> QED
      BY <1>1, <1>3, <1>4, <2>6, <3>2, <3>3 DEF Paid
  <2>7. CASE Debt(chatml) = 2
    <3>1. Debt(chatml') <= 1
      BY <1>6, <2>1, <2>2, <2>7, GrowthLoses, GrowthDebt
    <3> QED
      BY <1>1, <1>3, <1>4, <2>4, <2>7, <3>1 DEF Paid
  <2> QED
    BY <1>4, <2>5, <2>6, <2>7
<1> QED
  BY <1>5, <1>6 DEF Killed

LEMMA KilledKeeps ==
  ASSUME IInv, Killed
  PROVE  IInv'
<1>1. /\ process = "running" /\ process' = "down" /\ writing' = {} /\ kills' = kills + 1
      /\ NobodyWorks([e \in Examples |-> "out"])
      /\ UNCHANGED <<peer, starts, glued, good>>
  BY DEF Killed
<1>2. Sound'
  <2>1. [e \in Examples |-> "out"] \in [Examples -> {"out", "queued"}]
    OBVIOUS
  <2> QED
    BY <1>1, <2>1, NobodyKeeps
<1>3. History'
  <2>1. kills' \in Nat /\ kills' <= starts'
    BY <1>1, DataAssumption DEF IInv, History
  <2> QED
    BY <1>1, <2>1 DEF IInv, History
<1>4. Unwritten'
  BY <1>1 DEF Unwritten
<1>5. rich' = rich \/ \E e \in Examples : rich' \in CutShort(rich, e) /\ chatml' = chatml /\ writing = {}
  BY DEF Killed
<1>6. chatml' = chatml \/ \E e \in writing : chatml' \in CutShort(chatml, e) /\ rich' = rich
  BY DEF Killed
<1>7. rich' \in Seq(Lines) /\ LinesEnded(rich') /\ (~Open(rich) => ReadBack(rich) \subseteq ReadBack(rich'))
  <2>1. CASE rich' = rich
    BY <2>1 DEF IInv, Files
  <2>2. ASSUME NEW e \in Examples, rich' \in CutShort(rich, e)
        PROVE  /\ rich' \in Seq(Lines) /\ LinesEnded(rich')
               /\ ~Open(rich) => ReadBack(rich) \subseteq ReadBack(rich')
    <3>1. Grows(rich, rich', e) /\ rich \in Seq(Lines)
      BY <2>2, CutShortGrows DEF IInv, Files
    <3> QED
      BY <3>1, GrowthKeepsEnded, GrowthKeepsRows DEF IInv, Files, Grows
  <2> QED
    BY <1>5, <2>1, <2>2
<1>8. ASSUME NEW e \in writing, chatml' \in CutShort(chatml, e), rich' = rich
      PROVE  Files' /\ OnceTrained'
  <2>1. e \in Examples /\ writing = {e}
    BY DEF IInv, History
  <2>2. chatml \in Seq(Lines) /\ Grows(chatml, chatml', e)
    BY <1>8, <2>1, CutShortGrows DEF IInv, Files
  <2>3. chatml' \in Seq(Lines) /\ LinesEnded(chatml')
    BY <2>1, <2>2, GrowthKeepsEnded DEF IInv, Files, Grows
  <2>4. ReadBack(chatml') \subseteq ReadBack(chatml) \cup {e}
    BY <2>1, <2>2, GrowthAdds
  <2>5. ~glued => Unique(chatml')
    BY <2>1, <2>2, GrowthKeepsUnique DEF IInv, OnceTrained
  <2>6. OnceTrained'
    BY <1>1, <1>8, <2>1, <2>4, <2>5 DEF IInv, OnceTrained
  <2> QED
    BY <1>1, <1>7, <2>3, <2>6 DEF IInv, Files
<1>9. CASE chatml' = chatml
  <2>1. Files'
    BY <1>1, <1>7, <1>9 DEF IInv, Files
  <2>2. OnceTrained'
    BY <1>1, <1>7, <1>9 DEF IInv, OnceTrained
  <2> QED
    BY <1>2, <1>3, <1>4, <2>1, <2>2, KilledPays DEF IInv
<1> QED
  BY <1>2, <1>3, <1>4, <1>6, <1>8, <1>9, KilledPays DEF IInv

LEMMA SpecIInv == Spec => []IInv
<1>1. IInv /\ [Next]_vars => IInv'
  <2> SUFFICES ASSUME IInv, [Next]_vars PROVE IInv'
    OBVIOUS
  <2>1. CASE TakeUp
    <3>1. PICK i \in DOMAIN Dataset : phase[Dataset[i]] = "queued" /\ Begin(Dataset[i])
      BY <2>1 DEF TakeUp
    <3>2. Dataset[i] \in Examples /\ phase[Dataset[i]] # "out"
      BY <3>1, DataAssumption DEF ToSet
    <3>3. process = "running" /\ UNCHANGED runVars
      BY <2>1 DEF TakeUp
    <3> QED
      BY <3>1, <3>2, <3>3, BeginKeeps, GoneStayGone, ThreadKeeps DEF IInv
  <2>2. ASSUME NEW e \in Examples, Generate(e) PROVE IInv'
    <3>1. phase[e] # "out" /\ TrajectoryStep(e) /\ process = "running" /\ UNCHANGED runVars
      BY <2>2 DEF Generate, TrajectoryStep, Decompose, Command, Judge, Bridge, Edit,
                  FinalAnswer, Quality, Raises, Working
    <3> QED
      BY <3>1, TrajectoryKeeps, GoneStayGone, ThreadKeeps DEF IInv
  <2>3. CASE UNCHANGED vars
    BY <2>3 DEF vars, trajectoryVars, runVars, IInv, Sound, Files, LinesEnded, History,
                Unwritten, OnceTrained, Paid, Untrained
  <2>4. ASSUME NEW resume \in BOOLEAN, StartFails(resume) PROVE IInv'
    <3>1. StartFails(TRUE) \/ StartFails(FALSE)
      BY <2>4
    <3> QED
      BY <3>1, OutsideKeeps
  <2> QED
    BY <2>1, <2>2, <2>3, <2>4, StartKeeps, WriteRichKeeps, WriteChatmlKeeps, KilledKeeps,
       OutsideKeeps DEF Next
<1> QED
  BY <1>1, InitIInv, PTL DEF Spec

(***************************************************************************)
(* The threads' locals, the records, the three files and the counters are  *)
(* well typed through every kill and restart: no chain, step or record is  *)
(* longer than the limits allow, and only a file's last line may lack its  *)
(* newline (create_data.py, pipeline.py).                                  *)
(***************************************************************************)
THEOREM TypeCorrect == Spec => []TypeOK
<1>1. IInv => TypeOK
  <2> SUFFICES ASSUME IInv PROVE TypeOK
    OBVIOUS
  <2>1. TrajectoryTypeOK
    BY SoundTells DEF IInv
  <2>2. writing \in SUBSET Examples /\ Cardinality(writing) <= 1
    <3>1. CASE writing = {}
      BY <3>1, FS_EmptySet
    <3>2. ASSUME NEW e \in Examples, writing = {e}
          PROVE  writing \in SUBSET Examples /\ Cardinality(writing) <= 1
      <4>1. Cardinality(writing) = 1
        BY <3>2, FS_Singleton
      <4> QED
        BY <3>2, <4>1
    <3> QED
      BY <3>1, <3>2 DEF IInv, History
  <2>3. kills \in 0 .. MaxStarts
    BY DataAssumption DEF IInv, History
  <2> QED
    BY <2>1, <2>2, <2>3 DEF IInv, Files, History, LinesEnded, TypeOK
<1> QED
  BY <1>1, SpecIInv, PTL

(***************************************************************************)
(* Whatever the models and the judges say, a record that is trained on     *)
(* answers its sub-questions in their order, each by a command with an     *)
(* output that has one of the concrete names expected of its own answer,   *)
(* if any of them is concrete (discover_backward_command, run_backward,    *)
(* generate_trajectory).                                                   *)
(***************************************************************************)
THEOREM ConfirmedStepsOnly == Spec => []TrainsOnConfirmedSteps
<1>1. IInv => TrainsOnConfirmedSteps
  BY SoundTells DEF IInv
<1> QED
  BY <1>1, SpecIInv, PTL

(***************************************************************************)
(* However often the program is killed, in the middle of a row too, and    *)
(* resumed, an example has two training rows only if a run went on behind  *)
(* an open last line of the rich file (create_data.py, main).              *)
(***************************************************************************)
THEOREM TrainedOnce == Spec => []TrainedTwiceOnlyBehindOpenLine
<1>1. IInv => TrainedTwiceOnlyBehindOpenLine
  <2> SUFFICES ASSUME IInv, NEW e \in Examples, ~glued
               PROVE  ~(Cardinality(RowsOf(chatml, e)) > 1)
    BY DEF IInv, History, TrainedTwiceOnlyBehindOpenLine
  <2>1. Unique(chatml)
    BY DEF IInv, OnceTrained
  <2>2. RowsOf(chatml, e) = {} \/ \E i : RowsOf(chatml, e) = {i}
    BY <2>1 DEF Unique, RowsOf
  <2>3. Cardinality(RowsOf(chatml, e)) = 0 \/ Cardinality(RowsOf(chatml, e)) = 1
    BY <2>2, FS_EmptySet, FS_Singleton
  <2> QED
    BY <2>3
<1> QED
  BY <1>1, SpecIInv, PTL

(***************************************************************************)
(* A kill costs two training rows at most: those of examples whose rich    *)
(* row is there, so that no resumed run makes them again (create_data.py). *)
(***************************************************************************)
THEOREM KillsCostTwoRows == Spec => []TrainingRowsLostToKills
<1>1. IInv => TrainingRowsLostToKills
  <2> SUFFICES ASSUME IInv PROVE Cardinality(Untrained) <= 2 * kills
    BY DEF TrainingRowsLostToKills
  <2>1. Cardinality(Untrained) \in Nat /\ kills \in Nat
    BY UntrainedIs DEF IInv, History
  <2>2. Debt(chatml) \in 0 .. 2
    BY DEF Debt
  <2> QED
    BY <2>1, <2>2 DEF IInv, Paid
<1> QED
  BY <1>1, SpecIInv, PTL
=============================================================================
