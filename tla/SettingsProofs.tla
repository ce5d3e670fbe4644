---------------------------- MODULE SettingsProofs ----------------------------
(***************************************************************************)
(* Proofs about Settings, for every set of aliases, processes and names    *)
(* for temporary files: what can be loaded stays loadable, and a save that *)
(* fails leaves nothing behind.                                            *)
(***************************************************************************)
EXTENDS Settings, TLAPS

Places == {"idle", "asking", "checking", "saving", "creating", "writing", "renaming",
           "removing", "done", "failed", "killed"}

\* What is needed of a document.
Entries == {"named", "checked", None}
Keys == {"version", "mode", "relay", "targets", "default", "health", "odd"}
IsDocument(document) ==
  /\ DOMAIN document = Keys
  /\ document.targets \in [Names -> Entries] /\ document.default \in Names \cup {None}

Shape ==
  /\ file # None => IsDocument(file)
  /\ before.file # None => IsDocument(before.file)
  /\ pc \in [Processes -> Places]
  /\ DOMAIN op = Processes /\ \A p \in Processes : op[p] \in Commands
  /\ DOMAIN base = Processes /\ \A p \in Processes : IsDocument(base[p])
  /\ DOMAIN next = Processes /\ \A p \in Processes : IsDocument(next[p])
  /\ DOMAIN slots = Slots

\* A process has one temporary file while it writes it, and it holds what the
\* process is to save, synced, when it is about to be renamed.
SlotOK(s) ==
  slots[s] \notin {None, Stray} =>
    /\ slots[s].of \in Processes
    /\ pc[slots[s].of] \in {"writing", "renaming", "killed"}
    /\ pc[slots[s].of] = "renaming" => slots[s] = Temporary(slots[s].of, next[slots[s].of], TRUE)

OneEach ==
  \A s, t \in Slots : \A p \in Processes :
    Of(p, s) /\ Of(p, t) /\ pc[p] \in {"writing", "renaming"} => s = t

LEMMA OfIs ==
  ASSUME NEW p \in Processes, NEW s \in Slots, Of(p, s)
  PROVE  slots[s] \notin {None, Stray} /\ slots[s].of = p
BY SettingsAssumption DEF Of, Stray

LEMMA NobodyHasStray ==
  ASSUME NEW p \in Processes, NEW s \in Slots, slots[s] \in {None, Stray}
  PROVE  ~Of(p, s)
BY OfIs

\* What is going to be saved can be loaded.
Worthy ==
  \A p \in Processes :
    /\ pc[p] \in {"saving", "creating", "writing", "renaming"} => Parses(next[p])
    /\ pc[p] = "checking" => op[p].kind = "setup"
    /\ pc[p] \in {"asking", "checking"} /\ op[p].kind = "setup" => Parses(base[p])
    /\ pc[p] = "asking" => op[p].kind \in {"setup", "purge"}

\* Same(new, old): what parse looks at besides targets and default.
Same(new, old) == new.version = old.version /\ new.health = old.health

LEMMA RenderedIs ==
  ASSUME NEW document, IsDocument(document)
  PROVE  /\ IsDocument(Rendered(document)) /\ Rendered(document).version = 1
         /\ Rendered(document).health = document.health
         /\ Rendered(document).targets = document.targets
         /\ Rendered(document).default = document.default
BY DEF Rendered, IsDocument, Keys

LEMMA OutcomeIs ==
  ASSUME NEW command \in Commands, NEW document, IsDocument(document),
         command.kind \in {"add", "use", "remove", "setup", "rename"},
         ~Refuses(command, document), Coherent(document)
  PROVE  /\ IsDocument(Outcome(command, document))
         /\ Same(Outcome(command, document), document)
         /\ Coherent(Outcome(command, document))
<1>1. command.name \in Names /\ (command.kind = "rename" => command.to \in Names)
  BY DEF Commands
<1> USE SettingsAssumption DEF IsDocument, Keys, Entries, Coherent, Has, Same
<1>2. CASE command.kind = "add"
  BY <1>1, <1>2 DEF Outcome, WithTarget
<1>3. CASE command.kind = "setup"
  BY <1>1, <1>3 DEF Outcome, WithTarget
<1>4. CASE command.kind = "use"
  BY <1>1, <1>4 DEF Outcome, Refuses
<1>5. CASE command.kind = "remove"
  BY <1>1, <1>5 DEF Outcome, Without
<1>6. CASE command.kind = "rename"
  BY <1>1, <1>6 DEF Outcome, Renamed, Refuses
<1> QED
  BY <1>2, <1>3, <1>4, <1>5, <1>6

LEMMA BlankIs == IsDocument(Blank) /\ IsDocument(Torn)
BY DEF IsDocument, Blank, Torn, Keys, Entries

LEMMA ReadIs ==
  ASSUME Shape
  PROVE  IsDocument(Read)
BY BlankIs DEF Shape, Read

LEMMA EditedIs ==
  ASSUME NEW document, IsDocument(document), NEW new \in Edited(Migrated(document))
  PROVE  IsDocument(new)
<1> DEFINE old == Migrated(document)
<1>1. IsDocument(old)
  BY DEF Migrated, IsDocument, Keys
<1>2. new \in Edited(old)
  OBVIOUS
<1> HIDE DEF old
<1>3. ASSUME NEW mode, new = [old EXCEPT !.mode = mode] PROVE IsDocument(new)
  BY <1>1, <1>3 DEF IsDocument, Keys
<1>4. ASSUME NEW relay, new = [old EXCEPT !.relay = relay] PROVE IsDocument(new)
  BY <1>1, <1>4 DEF IsDocument, Keys
<1>5. ASSUME NEW n \in Names, new = [old EXCEPT !.default = n] PROVE IsDocument(new)
  BY <1>1, <1>5 DEF IsDocument, Keys
<1>6. ASSUME NEW n \in Names,
             new = [old EXCEPT !.targets[n] = IF @ = None THEN "named" ELSE @]
      PROVE  IsDocument(new)
  BY <1>1, <1>6 DEF IsDocument, Keys, Entries
<1>7. ASSUME NEW health, new = [old EXCEPT !.health = health] PROVE IsDocument(new)
  BY <1>1, <1>7 DEF IsDocument, Keys
<1> QED
  BY <1>2, <1>3, <1>4, <1>5, <1>6, <1>7 DEF Edited

\* What a command about targets is to save.
LEMMA NextParses ==
  ASSUME NEW command \in Commands, NEW document, IsDocument(document), Parses(document),
         command.kind \in {"add", "use", "remove", "setup", "rename"},
         ~Refuses(command, document)
  PROVE  /\ IsDocument(Rendered(Outcome(command, document)))
         /\ Parses(Rendered(Outcome(command, document)))
<1>1. Coherent(document) /\ document.health = "fine"
  BY DEF Parses
<1> DEFINE new == Outcome(command, document)
<1>2. IsDocument(new) /\ new.health = "fine" /\ Coherent(new)
  BY <1>1, OutcomeIs DEF Same
<1> HIDE DEF new
<1>3. /\ IsDocument(Rendered(new)) /\ Rendered(new).version = 1
      /\ Rendered(new).health = "fine" /\ Coherent(Rendered(new))
  BY <1>2, RenderedIs DEF Coherent, Has
<1>4. Parses(Rendered(new))
  BY <1>3 DEF Parses, Readable
<1> QED
  BY <1>3, <1>4 DEF new

-----------------------------------------------------------------------------
(* One process at a time                                                     *)

\* What a step of p that touches neither slots nor the file may do.
LEMMA OtherSlots ==
  ASSUME \A s \in Slots : SlotOK(s), OneEach, NEW p \in Processes, NEW place \in Places,
         pc \in [Processes -> Places],
         pc[p] \notin {"writing", "renaming", "killed"}, pc' = [pc EXCEPT ![p] = place],
         \A q \in Processes : q # p => next'[q] = next[q], UNCHANGED slots
  PROVE  (\A s \in Slots : SlotOK(s)') /\ OneEach'
<1>1. \A s \in Slots : slots[s] \notin {None, Stray} => slots[s].of \in Processes \ {p}
  BY DEF SlotOK
<1>2. \A q \in Processes : q # p => pc'[q] = pc[q]
  OBVIOUS
<1>3. \A s \in Slots : SlotOK(s)'
  BY <1>1, <1>2 DEF SlotOK, Temporary
<1>4. OneEach'
  BY <1>1, <1>2, OfIs DEF OneEach, Of
<1> QED
  BY <1>3, <1>4

IInv == Shape /\ (\A s \in Slots : SlotOK(s)) /\ OneEach /\ Worthy /\ settled = TRUE

LEMMA CommandKeeps ==
  ASSUME IInv, NEW p \in Processes, Command(p)
  PROVE  IInv'
<1>1. /\ pc[p] = "idle" /\ UNCHANGED <<file, settled, before, slots>>
      /\ base' = [base EXCEPT ![p] = Read]
      /\ \E command \in Commands : op' = [op EXCEPT ![p] = command]
  BY DEF Command, Target, Setup, Set, Purge, Reads, disk, Commands
<1>2. PICK place \in {"saving", "failed", "asking", "done"} : pc' = [pc EXCEPT ![p] = place]
  BY DEF Command, Target, Setup, Set, Purge, Goes
<1>3. IsDocument(Read)
  BY ReadIs DEF IInv
<1> DEFINE Saves == \/ next' = next
                    \/ \E document : IsDocument(document) /\ next' = [next EXCEPT ![p] = document]
<1>4. Saves
  <2>1. ASSUME NEW command \in Commands, Target(p, command) PROVE Saves
    BY <1>3, <2>1, NextParses DEF Target
  <2>2. CASE Set(p)
    BY <1>3, <2>2, EditedIs DEF Set
  <2> QED
    BY <2>1, <2>2 DEF Command, Setup, Purge
<1>5. (\A s \in Slots : SlotOK(s)') /\ OneEach'
  <2>1. \A q \in Processes : q # p => next'[q] = next[q]
    BY <1>4 DEF IInv, Shape
  <2>2. place \in Places /\ pc[p] \notin {"writing", "renaming", "killed"}
    BY <1>1 DEF Places
  <2> QED
    BY <1>1, <1>2, <2>1, <2>2, OtherSlots DEF IInv, Shape
<1>6. Shape'
  BY <1>1, <1>2, <1>3, <1>4 DEF IInv, Shape, Places
<1> DEFINE Fit == /\ place = "saving" => Parses(next'[p])
                  /\ place = "asking" => op'[p].kind \in {"setup", "purge"}
                  /\ place = "asking" /\ op'[p].kind = "setup" => Parses(base'[p])
<1>7. Fit
  <2>1. ASSUME NEW command \in Commands, Target(p, command) PROVE Fit
    <3>1. place \in {"saving", "failed"}
      BY <1>2, <2>1 DEF Target, Goes, IInv, Shape
    <3>2. place = "saving" => Parses(Read) /\ ~Refuses(command, Read)
                              /\ next'[p] = Rendered(Outcome(command, Read))
      BY <1>2, <2>1 DEF Target, Goes, IInv, Shape
    <3> QED
      BY <1>3, <2>1, <3>1, <3>2, NextParses DEF Target
  <2>2. ASSUME NEW n \in Names, Setup(p, n) PROVE Fit
    BY <1>2, <2>2 DEF Setup, Reads, Goes, IInv, Shape
  <2>3. CASE Set(p)
    BY <1>2, <2>3 DEF Set, Reads, Goes, IInv, Shape, Validated
  <2>4. CASE Purge(p)
    BY <1>2, <2>4 DEF Purge, Reads, Goes, IInv, Shape
  <2> QED
    BY <2>1, <2>2, <2>3, <2>4 DEF Command
<1>8. Worthy'
  <2>1. ASSUME NEW q \in Processes, q # p
        PROVE  pc'[q] = pc[q] /\ next'[q] = next[q] /\ op'[q] = op[q] /\ base'[q] = base[q]
    BY <1>1, <1>2, <1>4, <2>1 DEF IInv, Shape
  <2>2. pc'[p] = place
    BY <1>2 DEF IInv, Shape
  <2> QED
    BY <1>7, <2>1, <2>2 DEF IInv, Worthy
<1> QED
  BY <1>1, <1>5, <1>6, <1>8 DEF IInv

LEMMA AnswersKeep ==
  ASSUME IInv, NEW p \in Processes, Confirmed(p) \/ Checked(p) \/ Remove(p)
  PROVE  IInv'
<1>1. /\ pc[p] \in {"asking", "checking", "removing"}
      /\ UNCHANGED <<slots, op, base>> /\ (file' = file \/ file' = None) /\ settled' = TRUE
      /\ before' = before
  BY DEF Confirmed, Checked, Remove, disk, IInv
<1>2. PICK place \in {"removing", "checking", "failed", "saving", "done"} :
        pc' = [pc EXCEPT ![p] = place]
  BY DEF Confirmed, Checked, Remove, Goes
<1>3. \/ next' = next /\ place # "saving"
      \/ /\ Checked(p) /\ place = "saving"
         /\ next' = [next EXCEPT ![p] = Rendered(Outcome(op[p], base[p]))]
  BY <1>2 DEF Confirmed, Checked, Remove, Goes, IInv, Shape
<1>4. Checked(p) => op[p].kind = "setup" /\ op[p] \in Commands /\ IsDocument(base[p])
                    /\ Parses(base[p]) /\ ~Refuses(op[p], base[p])
  BY DEF Checked, IInv, Worthy, Shape, Refuses
<1>5. Checked(p) => /\ IsDocument(Rendered(Outcome(op[p], base[p])))
                    /\ Parses(Rendered(Outcome(op[p], base[p])))
  BY <1>4, NextParses
<1>6. (\A s \in Slots : SlotOK(s)') /\ OneEach'
  <2>1. \A q \in Processes : q # p => next'[q] = next[q]
    BY <1>3 DEF IInv, Shape
  <2>2. place \in Places /\ pc[p] \notin {"writing", "renaming", "killed"}
    BY <1>1 DEF Places
  <2> QED
    BY <1>1, <1>2, <2>1, <2>2, OtherSlots DEF IInv, Shape
<1>7. Shape'
  BY <1>1, <1>2, <1>3, <1>5 DEF IInv, Shape, Places
<1>8. Worthy'
  <2>1. ASSUME NEW q \in Processes, q # p
        PROVE  pc'[q] = pc[q] /\ next'[q] = next[q] /\ op'[q] = op[q] /\ base'[q] = base[q]
    BY <1>1, <1>2, <1>3, <2>1 DEF IInv, Shape
  <2>2. pc'[p] = place
    BY <1>2 DEF IInv, Shape
  <2>3. place = "saving" => Parses(next'[p])
    BY <1>3, <1>5 DEF IInv, Shape
  <2>4. place = "checking" => op[p].kind = "setup" /\ Parses(base[p])
    BY <1>2, <2>2 DEF Confirmed, Checked, Remove, Goes, IInv, Shape, Worthy
  <2>5. place # "asking"
    OBVIOUS
  <2> QED
    BY <1>1, <2>1, <2>2, <2>3, <2>4, <2>5 DEF IInv, Worthy
<1> QED
  BY <1>1, <1>6, <1>7, <1>8 DEF IInv

\* save_source. Only Persist writes the file, and what it writes was synced.
LEMMA SaveKeeps ==
  ASSUME IInv, NEW p \in Processes, Save(p)
  PROVE  IInv'
<1> USE DEF IInv
<1>1. CASE EnsureDirectory(p)
  <2>1. PICK place \in {"creating", "failed"} : pc' = [pc EXCEPT ![p] = place]
    BY <1>1 DEF EnsureDirectory, Goes
  <2>2. place \in Places /\ pc[p] = "saving"
    BY <1>1 DEF EnsureDirectory, Places
  <2>3. (\A s \in Slots : SlotOK(s)') /\ OneEach'
    BY <1>1, <2>1, <2>2, OtherSlots DEF EnsureDirectory, Shape
  <2>4. Shape'
    BY <1>1, <2>1, <2>2 DEF EnsureDirectory, Shape
  <2>5. Worthy'
    BY <1>1, <2>1, <2>2 DEF EnsureDirectory, Shape, Worthy
  <2> QED
    BY <1>1, <2>3, <2>4, <2>5 DEF EnsureDirectory
<1>2. CASE CreateBeside(p)
  <2>1. PICK place \in {"writing", "failed"} : pc' = [pc EXCEPT ![p] = place]
    BY <1>2 DEF CreateBeside, Goes
  <2>2. place \in Places /\ pc[p] = "creating" /\ UNCHANGED <<file, settled, before, op, base, next>>
    BY <1>2 DEF CreateBeside, Places
  <2>3. \A t \in Slots : slots[t] \notin {None, Stray} => slots[t].of \in Processes \ {p}
    BY <2>2 DEF SlotOK
  <2> DEFINE NewAt(s) ==
               \/ slots' = [slots EXCEPT ![s] = Temporary(p, Torn, FALSE)] /\ place = "writing"
               \/ slots' = [slots EXCEPT ![s] = Stray]
  <2>4. CASE UNCHANGED slots /\ place = "failed"
    BY <2>1, <2>2, <2>4, OtherSlots DEF Shape, Worthy
  <2>5. CASE \E s \in Slots : NewAt(s)
    <3>1. PICK s \in Slots : NewAt(s)
      BY <2>5
    <3>2. /\ slots'[s] = Stray \/ (slots'[s] = Temporary(p, Torn, FALSE) /\ place = "writing")
          /\ \A t \in Slots : t # s => slots'[t] = slots[t]
      BY <3>1 DEF Shape
    <3>3. pc'[p] = place /\ \A q \in Processes : q # p => pc'[q] = pc[q]
      BY <2>1 DEF Shape
    <3>4. ASSUME NEW t \in Slots PROVE SlotOK(t)'
      BY <2>2, <2>3, <3>2, <3>3 DEF SlotOK, Temporary
    <3>5. OneEach'
      <4>1. \A t \in Slots : t # s => ~Of(p, t)'
        BY <2>3, <3>2, OfIs DEF Of
      <4>2. ASSUME NEW q \in Processes, q # p, NEW t \in Slots, Of(q, t)' PROVE Of(q, t)
        <5>1. t # s
          BY <3>2, <4>2, SettingsAssumption DEF Of, Temporary, Stray
        <5> QED
          BY <3>2, <4>2, <5>1 DEF Of
      <4> QED
        BY <3>3, <4>1, <4>2 DEF OneEach
    <3>6. Shape'
      BY <2>1, <2>2, <3>1 DEF Shape
    <3>7. Worthy'
      BY <2>2, <3>3 DEF Worthy
    <3> QED
      BY <2>2, <3>4, <3>5, <3>6, <3>7
  <2>6. (UNCHANGED slots /\ place = "failed") \/ \E s \in Slots : NewAt(s)
    BY <1>2, <2>1 DEF CreateBeside, Goes, Shape
  <2> QED
    BY <2>4, <2>5, <2>6
<1>3. CASE Write(p)
  <2>1. PICK s \in Slots :
          /\ Of(p, s)
          /\ \/ slots' = [slots EXCEPT ![s] = Temporary(p, next[p], TRUE)] /\ Goes(p, "renaming")
             \/ \E left \in {None, Stray} :
                  slots' = [slots EXCEPT ![s] = left] /\ Goes(p, "failed")
    BY <1>3 DEF Write, WriteAll, Drop
  <2>2. pc[p] = "writing" /\ UNCHANGED <<file, settled, before, op, base, next>>
    BY <1>3 DEF Write
  <2>3. \A t \in Slots : t # s => slots'[t] = slots[t] /\ ~Of(p, t)
    BY <2>1, <2>2 DEF Shape, OneEach
  <2>4. pc'[p] \in {"renaming", "failed"} /\ \A q \in Processes : q # p => pc'[q] = pc[q]
    BY <2>1 DEF Goes, Shape
  <2>5. ASSUME NEW t \in Slots PROVE SlotOK(t)'
    <3>1. CASE t = s
      <4>1. CASE slots' = [slots EXCEPT ![s] = Temporary(p, next[p], TRUE)] /\ Goes(p, "renaming")
        <5>1. slots'[s] = Temporary(p, next[p], TRUE)
          BY <4>1 DEF Shape
        <5>2. pc'[p] = "renaming"
          BY <4>1 DEF Goes, Shape
        <5>3. slots'[s].of = p
          BY <5>1 DEF Temporary
        <5>4. next'[p] = next[p]
          BY <2>2
        <5> QED
          BY <3>1, <5>1, <5>2, <5>3, <5>4 DEF SlotOK
      <4>2. ASSUME NEW left \in {None, Stray}, slots' = [slots EXCEPT ![s] = left] PROVE SlotOK(t)'
        <5>1. slots'[s] \in {None, Stray}
          BY <4>2 DEF Shape
        <5> QED
          BY <3>1, <5>1 DEF SlotOK, Stray
      <4> QED
        BY <2>1, <4>1, <4>2
    <3>2. CASE t # s
      BY <2>2, <2>3, <2>4, <3>2 DEF SlotOK, Temporary, Of, Stray
    <3> QED
      BY <3>1, <3>2
  <2>6. OneEach'
    <3>1. \A t \in Slots : t # s => ~Of(p, t)'
      BY <2>3 DEF Of
    <3>2. ASSUME NEW q \in Processes, q # p, NEW t \in Slots, Of(q, t)' PROVE Of(q, t)
      <4>1. t # s
        <5>1. slots'[s] \in {None, Stray, Temporary(p, next[p], TRUE)}
          BY <2>1 DEF Shape
        <5> QED
          BY <3>2, <5>1, SettingsAssumption DEF Of, Temporary, Stray
      <4> QED
        BY <2>3, <3>2, <4>1 DEF Of
    <3> QED
      BY <2>4, <3>1, <3>2 DEF OneEach
  <2>7. Shape'
    BY <2>1, <2>2 DEF Goes, Shape, Places
  <2>8. Worthy'
    BY <2>2, <2>4 DEF Worthy
  <2> QED
    BY <2>2, <2>5, <2>6, <2>7, <2>8
<1>4. ASSUME NEW s \in Slots, Persist(p, s) \/ NotRenamed(p, s) PROVE IInv'
  <2>1. /\ Of(p, s) /\ pc[p] = "renaming" /\ UNCHANGED <<op, base, next>>
        /\ \E left \in {None, Stray} : slots' = [slots EXCEPT ![s] = left]
    BY <1>4 DEF Persist, NotRenamed, Drop
  <2>2. PICK place \in {"done", "failed"} : pc' = [pc EXCEPT ![p] = place]
    BY <1>4 DEF Persist, NotRenamed, Goes
  <2>3. slots[s] = Temporary(p, next[p], TRUE)
    BY <2>1, OfIs DEF SlotOK
  <2>4. settled' = TRUE /\ (file' = file \/ file' = next[p])
        /\ before' = before
    <3>1. slots[s].holds = next[p]
      BY <2>3 DEF Temporary
    <3>2. slots[s].synced = TRUE
      <4>1. Temporary(p, next[p], TRUE).synced = TRUE
        BY DEF Temporary
      <4> QED
        BY <2>3, <4>1, Zenon
    <3>3. \/ file' = slots[s].holds /\ settled' = slots[s].synced
          \/ UNCHANGED <<file, settled>>
      BY <1>4, Zenon DEF Persist, NotRenamed
    <3>4. file' = file \/ file' = next[p]
      BY <3>1, <3>3
    <3>5. settled' = TRUE
      BY <3>2, <3>3, Zenon
    <3>6. before' = before
      BY <1>4 DEF Persist, NotRenamed
    <3> QED
      BY <3>4, <3>5, <3>6
  <2>5. \A t \in Slots : t # s => slots'[t] = slots[t] /\ ~Of(p, t)
    BY <2>1 DEF Shape, OneEach
  <2>6. slots'[s] \in {None, Stray}
    BY <2>1 DEF Shape
  <2>7. pc'[p] \in {"done", "failed"} /\ \A q \in Processes : q # p => pc'[q] = pc[q]
    BY <2>2 DEF Shape
  <2>8. ASSUME NEW t \in Slots PROVE SlotOK(t)'
    BY <2>1, <2>5, <2>6, <2>7 DEF SlotOK, Temporary, Of, Stray
  <2>9. OneEach'
    <3>1. ASSUME NEW q \in Processes, NEW t \in Slots, Of(q, t)' PROVE Of(q, t) /\ q # p
      <4>1. t # s
        BY <2>6, <3>1, SettingsAssumption DEF Of, Stray
      <4> QED
        BY <2>5, <3>1, <4>1 DEF Of
    <3> QED
      BY <2>7, <3>1 DEF OneEach
  <2>10. Shape'
    BY <2>1, <2>2, <2>4 DEF Shape, Places
  <2>11. Worthy'
    BY <2>1, <2>7 DEF Worthy
  <2> QED
    BY <2>4, <2>8, <2>9, <2>10, <2>11
<1> QED
  BY <1>1, <1>2, <1>3, <1>4 DEF Save

\* Kill, PowerLoss and Settle. What was not synced is torn, and nobody is left
\* who would rename it.
LEMMA FaultsKeep ==
  ASSUME IInv, (\E p \in Processes : Kill(p)) \/ PowerLoss \/ Settle
  PROVE  IInv'
<1> USE DEF IInv
<1>1. ASSUME NEW p \in Processes, Kill(p) PROVE IInv'
  <2>1. /\ Running(p) /\ pc' = [pc EXCEPT ![p] = "killed"]
        /\ UNCHANGED <<file, settled, before, slots, op, base, next>>
    BY <1>1 DEF Kill, Goes, disk
  <2>2. pc'[p] = "killed" /\ \A q \in Processes : q # p => pc'[q] = pc[q]
    BY <2>1 DEF Shape
  <2>3. ASSUME NEW s \in Slots PROVE SlotOK(s)'
    BY <2>1, <2>2 DEF SlotOK, Temporary, Running, Stray
  <2>4. OneEach'
    BY <2>1, <2>2 DEF OneEach, Of
  <2>5. Shape'
    BY <2>1 DEF Shape, Places
  <2>6. Worthy'
    BY <2>1, <2>2 DEF Worthy
  <2> QED
    BY <2>1, <2>3, <2>4, <2>5, <2>6
<1>2. CASE PowerLoss
  <2>1. /\ \A p \in Processes : pc'[p] = IF Running(p) THEN "killed" ELSE pc[p]
        /\ UNCHANGED <<op, base, next>>
        /\ pc' = [p \in Processes |-> pc'[p]] /\ DOMAIN slots' = Slots
    BY <1>2 DEF PowerLoss
  <2>2. \A p \in Processes : pc'[p] \in {"killed", "idle", "done", "failed"}
    BY <2>1 DEF Running
  <2>3. ASSUME NEW s \in Slots PROVE slots'[s] \in {None, Stray}
    BY <1>2 DEF PowerLoss
  <2>4. settled' = TRUE
    BY <1>2, Zenon DEF PowerLoss
  <2>5. file' = file \/ file' = before.file
    BY <1>2 DEF PowerLoss, Directory
  <2>6. before'.file = file'
    BY <1>2 DEF PowerLoss, Directory
  <2>7. ASSUME NEW s \in Slots PROVE SlotOK(s)'
    BY <2>3 DEF SlotOK, Stray
  <2>8. OneEach'
    BY <2>2 DEF OneEach
  <2>9. Shape'
    <3>1. pc' \in [Processes -> Places]
      BY <2>1, <2>2 DEF Places
    <3> QED
      BY <2>1, <2>5, <2>6, <3>1 DEF Shape
  <2>10. Worthy'
    BY <2>2 DEF Worthy
  <2> QED
    BY <2>4, <2>7, <2>8, <2>9, <2>10
<1>3. CASE Settle
  BY <1>3 DEF Settle, process, Shape, SlotOK, OneEach, Of, Worthy, Temporary, Stray, Directory
<1> QED
  BY <1>1, <1>2, <1>3

-----------------------------------------------------------------------------
(* Every process                                                             *)

LEMMA InitKeeps == Init => IInv
<1> SUFFICES ASSUME Init PROVE IInv
  OBVIOUS
<1>1. file # None => IsDocument(file)
  <2> SUFFICES ASSUME file # None PROVE IsDocument(file)
    OBVIOUS
  <2>1. PICK v \in {0, 1, 2}, r \in BOOLEAN, o \in BOOLEAN, h \in {"fine", "wrong"},
             known \in SUBSET Names, d \in Names \cup {None} :
          file = [Blank EXCEPT !.version = v, !.relay = r, !.odd = o, !.health = h,
                               !.targets = [n \in Names |-> IF n \in known THEN "checked" ELSE None],
                               !.default = d]
    BY Zenon DEF Init
  <2>2. /\ DOMAIN file = Keys /\ file.default = d
        /\ file.targets = [n \in Names |-> IF n \in known THEN "checked" ELSE None]
    BY <2>1 DEF Blank, Keys
  <2> QED
    BY <2>2 DEF IsDocument, Entries
<1>2. \A p \in Processes : op[p] \in Commands
  BY DEF Init, Commands
<1>3. Shape
  BY <1>1, <1>2, BlankIs DEF Init, Shape, Places, Directory
<1>4. settled = TRUE
  BY Zenon DEF Init
<1> QED
  BY <1>3, <1>4 DEF Init, IInv, SlotOK, OneEach, Of, Worthy

LEMMA NextKeeps == IInv /\ [Next]_vars => IInv'
<1> SUFFICES ASSUME IInv, [Next]_vars PROVE IInv'
  OBVIOUS
<1>1. CASE UNCHANGED vars
  BY <1>1 DEF vars, disk, process, IInv, Shape, SlotOK, OneEach, Of, Worthy, Temporary, Stray
<1>2. CASE Next
  BY <1>2, CommandKeeps, AnswersKeep, SaveKeeps, FaultsKeep DEF Next
<1> QED
  BY <1>1, <1>2

THEOREM Invariance == Spec => []IInv
<1> QED
  BY InitKeeps, NextKeeps, PTL DEF Spec

\* No save that fails half way leaves its temporary file: one that a TempFile
\* stands for is being written, or its process was killed (TempFile, io.rs).
THEOREM FailedSavesLeaveNothing == Spec => []NoLitter
<1>1. IInv => NoLitter
  BY DEF IInv, SlotOK, NoLitter
<1> QED
  BY <1>1, Invariance, PTL

\* Whatever commands run at once, fail, are killed or lose power, a file that
\* can be loaded is replaced only by one that can be (save_source, io.rs).
THEOREM AlwaysReadable == Spec => NeverUnreadable
<1> DEFINE Step == Usable(file) /\ Usable(before.file) => Usable(file')
<1>1. ASSUME IInv, [Next]_vars PROVE [Step]_vars
  <2> SUFFICES ASSUME Next, Usable(file), Usable(before.file) PROVE Usable(file')
    BY <1>1
  <2>1. ASSUME NEW p \in Processes, NEW s \in Slots, Persist(p, s) PROVE Usable(file')
    <3>1. slots[s] = Temporary(p, next[p], TRUE) /\ Parses(next[p])
      BY <1>1, <2>1, OfIs DEF Persist, IInv, SlotOK, Worthy
    <3>2. file' = next[p]
      BY <2>1, <3>1 DEF Persist, Temporary
    <3> QED
      BY <3>1, <3>2 DEF Usable
  <2>2. ASSUME NEW p \in Processes, Remove(p) PROVE Usable(file')
    BY <2>2 DEF Remove, disk, Usable
  <2>3. CASE PowerLoss
    <3>1. file' = file \/ file' = before.file
      BY <1>1, <2>3 DEF PowerLoss, IInv, Directory
    <3> QED
      BY <3>1
  <2>4. ASSUME NEW p \in Processes,
               Command(p) \/ Confirmed(p) \/ Checked(p) \/ Kill(p) \/ EnsureDirectory(p)
               \/ CreateBeside(p) \/ Write(p) \/ \E s \in Slots : NotRenamed(p, s)
        PROVE  Usable(file')
    <3>1. file' = file
      BY <2>4 DEF Command, Target, Setup, Set, Purge, Reads, Confirmed, Checked, Kill,
                  EnsureDirectory, CreateBeside, Write, NotRenamed, disk
    <3> QED
      BY <3>1
  <2>5. CASE Settle
    BY <2>5 DEF Settle
  <2> QED
    BY <2>1, <2>2, <2>3, <2>4, <2>5 DEF Next, Save
<1> QED
  BY <1>1, Invariance, PTL DEF Spec, NeverUnreadable
-----------------------------------------------------------------------------
(* Where the next send goes                                                  *)

Saving == {"saving", "creating", "writing", "renaming"}
Changes == {"add", "use", "remove", "rename", "setup"}

\* What is saved is what the command makes of the document it read; nothing
\* but `config set` saves anything else.
Planned(command, old, new) ==
  /\ command.kind \in Changes /\ ~Refuses(command, old)
  /\ new = Rendered(Outcome(command, old))
Plan(p) == pc[p] \in Saving => op[p].kind = "set" \/ Planned(op[p], base[p], next[p])

\* A step of p leaves every other process where it is.
Frame(p) ==
  \A q \in Processes : q # p =>
    pc'[q] = pc[q] /\ op'[q] = op[q] /\ base'[q] = base[q] /\ next'[q] = next[q]

LEMMA CommandPlans ==
  ASSUME IInv, NEW p \in Processes, Command(p)
  PROVE  Frame(p) /\ Plan(p)'
<1>1. ASSUME NEW command \in Commands, Target(p, command) PROVE Frame(p) /\ Plan(p)'
  <2>1. Frame(p) /\ op'[p] = command /\ base'[p] = Read
    BY <1>1 DEF Target, Reads, Goes, Frame, IInv, Shape
  <2>2. CASE Parses(Read) /\ ~Refuses(command, Read)
    <3>1. next'[p] = Rendered(Outcome(command, Read)) /\ command.kind \in Changes
      BY <1>1, <2>2 DEF Target, IInv, Shape, Changes
    <3> QED
      BY <2>1, <2>2, <3>1 DEF Plan, Planned
  <2>3. CASE ~(Parses(Read) /\ ~Refuses(command, Read))
    <3>1. pc'[p] = "failed"
      BY <1>1, <2>3 DEF Target, Goes, IInv, Shape
    <3> QED
      BY <2>1, <3>1 DEF Plan, Saving
  <2> QED
    BY <2>2, <2>3
<1>2. ASSUME NEW n \in Names, Setup(p, n) PROVE Frame(p) /\ Plan(p)'
  BY <1>2 DEF Setup, Reads, Goes, Frame, IInv, Shape, Plan, Saving
<1>3. CASE Set(p)
  BY <1>3 DEF Set, Reads, Goes, Frame, IInv, Shape, Plan
<1>4. CASE Purge(p)
  BY <1>4 DEF Purge, Reads, Goes, Frame, IInv, Shape, Plan, Saving
<1> QED
  BY <1>1, <1>2, <1>3, <1>4 DEF Command

LEMMA LaterPlans ==
  ASSUME IInv, NEW p \in Processes, Plan(p),
         Confirmed(p) \/ Checked(p) \/ Remove(p) \/ Save(p) \/ Kill(p)
  PROVE  Frame(p) /\ Plan(p)'
<1>1. CASE Checked(p)
  <2>1. Frame(p) /\ op'[p] = op[p] /\ base'[p] = base[p] /\ op[p].kind = "setup"
    BY <1>1 DEF Checked, Goes, Frame, IInv, Shape, Worthy
  <2>2. pc'[p] = "failed" \/ next'[p] = Rendered(Outcome(op[p], base[p]))
    BY <1>1 DEF Checked, Goes, IInv, Shape
  <2> QED
    BY <2>1, <2>2 DEF Plan, Planned, Saving, Changes, Refuses
<1>2. CASE Save(p)
  <2>1. /\ pc[p] \in Saving /\ UNCHANGED <<op, base, next>>
        /\ \E place \in Places : Goes(p, place)
    BY <1>2, Zenon DEF Save, EnsureDirectory, CreateBeside, Write, Persist, NotRenamed, Saving,
                       Places
  <2> QED
    BY <2>1 DEF Goes, Frame, Plan, IInv, Shape
<1>3. CASE Confirmed(p) \/ Remove(p) \/ Kill(p)
  <2>1. /\ UNCHANGED <<op, base, next>>
        /\ \E place \in Places \ Saving : Goes(p, place)
    BY <1>3 DEF Confirmed, Remove, Kill, Saving, Places
  <2> QED
    BY <2>1 DEF Goes, Frame, Plan, IInv, Shape
<1> QED
  BY <1>1, <1>2, <1>3

\* What a command makes of the route of a document that can be loaded: nothing,
\* or what it was asked to.
Diverted(command, old) == command.kind \in {"add", "setup"} /\ old.default # None
Wanted(command) ==
  CASE command.kind \in {"use", "add", "setup"} -> {command.name}
    [] command.kind = "remove" -> {"undecided"}
    [] command.kind = "rename" -> {command.to}
    [] OTHER -> Names \cup {"relay", "undecided"}

LEMMA OutcomeRoute ==
  ASSUME NEW command \in Commands, NEW old, IsDocument(old), Parses(old),
         NEW new, Planned(command, old, new)
  PROVE  \/ Route(new) = Route(old)
         \/ Route(new) \in Wanted(command) /\ ~Diverted(command, old)
<1> DEFINE made == Outcome(command, old)
<1>1. new.mode = made.mode /\ new.relay = made.relay /\ new.default = made.default
  <2>1. DOMAIN made = Keys
    <3>1. IsDocument(made)
      BY OutcomeIs DEF Planned, Changes, Parses
    <3> QED
      BY <3>1 DEF IsDocument
  <2> HIDE DEF made
  <2>2. new = Rendered(made)
    BY DEF Planned, made
  <2> QED
    BY <2>1, <2>2 DEF Rendered, Keys
<1>2. made.mode = old.mode /\ made.relay = old.relay
  BY DEF Planned, Changes, Outcome, WithTarget, Without, Renamed, IsDocument, Keys
<1>3. \/ made.default = old.default
      \/ /\ command.kind \in {"use", "add", "setup"} /\ made.default = command.name
         /\ command.name \in Names /\ ~Diverted(command, old)
      \/ command.kind = "remove" /\ made.default = None
      \/ command.kind = "rename" /\ made.default = command.to /\ command.to \in Names
  <2>1. CASE command.kind \in {"add", "setup"}
    BY <2>1 DEF Outcome, WithTarget, IsDocument, Keys, Commands, Diverted
  <2>2. CASE command.kind = "use"
    BY <2>2 DEF Outcome, IsDocument, Keys, Commands, Diverted
  <2>3. CASE command.kind = "remove"
    BY <2>3 DEF Outcome, Without, IsDocument, Keys
  <2>4. CASE command.kind = "rename"
    BY <2>4 DEF Outcome, Renamed, IsDocument, Keys, Commands
  <2> QED
    BY <2>1, <2>2, <2>3, <2>4 DEF Planned, Changes
<1> HIDE DEF made
<1>4. Mode(new) = Mode(old)
  <2>1. new.mode = old.mode
    BY <1>1, <1>2
  <2>2. new.relay = old.relay
    BY <1>1, <1>2, Zenon
  <2> QED
    BY <2>1, <2>2, Zenon DEF Mode
<1>5. CASE Mode(old) # "fast" \/ made.default = old.default
  BY <1>1, <1>4, <1>5 DEF Route
<1>6. CASE Mode(old) = "fast" /\ made.default # old.default
  BY <1>1, <1>3, <1>4, <1>6, SettingsAssumption DEF Route, Wanted, Diverted
<1> QED
  BY <1>5, <1>6

\* A command that found the file as it still is changes where the next send
\* goes only to where it was asked to: setup does not steal the default,
\* removing a target promotes no other, and a relay is not dropped (render,
\* without_target, prepare_target).
THEOREM RouteOnlyAsAsked == Spec => RouteKept
<1> DEFINE Plans == \A p \in Processes : Plan(p)
           Step == \A p \in Processes, s \in Slots :
                     Persist(p, s) /\ file # None /\ file = base[p] /\ Parses(file) =>
                       \/ Route(file') = Route(file)
                       \/ Route(file') \in Asked(p) /\ ~Stolen(p)
<1>1. Init => Plans
  BY DEF Init, Plan, Saving
<1>2. ASSUME IInv, Plans, [Next]_vars PROVE Plans'
  <2>1. ASSUME NEW p \in Processes,
               Command(p) \/ Confirmed(p) \/ Checked(p) \/ Remove(p) \/ Save(p) \/ Kill(p)
        PROVE  Plans'
    <3>1. Frame(p) /\ Plan(p)'
      BY <1>2, <2>1, CommandPlans, LaterPlans
    <3> QED
      BY <1>2, <3>1 DEF Frame, Plan
  <2>2. CASE PowerLoss
    BY <1>2, <2>2 DEF PowerLoss, Plan, Running, Saving, IInv, Shape
  <2>3. CASE Settle \/ UNCHANGED vars
    BY <1>2, <2>3 DEF Settle, vars, process, Plan
  <2> QED
    BY <1>2, <2>1, <2>2, <2>3 DEF Next
<1>3. ASSUME IInv, Plans, [Next]_vars PROVE [Step]_vars
  <2> SUFFICES ASSUME NEW p \in Processes, NEW s \in Slots, Persist(p, s),
                      file # None, file = base[p], Parses(file)
               PROVE  \/ Route(file') = Route(file)
                      \/ Route(file') \in Asked(p) /\ ~Stolen(p)
    OBVIOUS
  <2>1. file' = next[p] /\ op[p] \in Commands /\ IsDocument(file) /\ IsDocument(next[p])
    <3>1. slots[s] = Temporary(p, next[p], TRUE)
      BY <1>3, OfIs DEF Persist, IInv, SlotOK
    <3> QED
      BY <1>3, <3>1 DEF Persist, Temporary, IInv, Shape
  <2>2. Plan(p) /\ pc[p] \in Saving
    BY <1>3 DEF Persist, Saving
  <2>3. CASE op[p].kind = "set"
    <3>1. Route(next[p]) \in Names \cup {"relay", "undecided"}
      BY <2>1 DEF Route, IsDocument
    <3> QED
      BY <2>1, <2>3, <3>1 DEF Asked, Stolen
  <2>4. CASE Planned(op[p], base[p], next[p])
    <3>1. \/ Route(next[p]) = Route(file)
          \/ Route(next[p]) \in Wanted(op[p]) /\ ~Diverted(op[p], file)
      BY <2>1, <2>4, OutcomeRoute
    <3>2. Wanted(op[p]) = Asked(p) /\ (Diverted(op[p], file) <=> Stolen(p))
      BY DEF Wanted, Asked, Diverted, Stolen
    <3> QED
      BY <2>1, <3>1, <3>2
  <2> QED
    BY <2>2, <2>3, <2>4 DEF Plan
<1>4. IInv /\ Plans /\ [Next]_vars => Plans'
  BY <1>2
<1>5. IInv /\ Plans /\ [Next]_vars => [Step]_vars
  BY <1>3
<1> HIDE DEF Plans, Step
<1>6. Spec => [][Step]_vars
  BY <1>1, <1>4, <1>5, Invariance, PTL DEF Spec
<1> QED
  BY <1>6 DEF Step, RouteKept
=============================================================================
