------------------------------- MODULE Studio -------------------------------
(***************************************************************************)
(* Recording the walkthrough (scripts/record): record.mjs films the shots  *)
(* and writes raw.mov and a manifest of measured times; post.mjs cuts the  *)
(* slow waits out of the newest capture by speeding them up; sync-script   *)
(* .mjs writes the timecodes of that cut into the headings of the script;  *)
(* a person reads the sections aloud, and voice.mjs lays what was read     *)
(* under the picture at the headings' times.  The commands are run in any  *)
(* order, on takes of different ages, and the shot list changes between.   *)
(*                                                                         *)
(* Times are whole seconds; the shots are as long as they need to be.      *)
(***************************************************************************)
EXTENDS Integers, Sequences, FiniteSets, SequencesExt

CONSTANTS
  Shots,       \* the shots of shots.mjs, in order, after the one inserted last
  Inserted,    \* the shot a later cut of the video adds
  Waiting,     \* shots that wait for a model, between two marks
  Waits,       \* how long that may take
  Ramps,       \* --ramp of either command: how much faster a ramped wait is shown
  MaxTakes,    \* bound: takes
  MaxReads     \* bound: files of read sections; they are assembled once

ASSUME StudioAssumption ==
  /\ Shots \in Seq(ToSet(Shots)) /\ Waits \subseteq Nat /\ Ramps \subseteq Nat \ {0}
  /\ MaxTakes \in Nat /\ MaxReads \in Nat

VARIABLES
  takes,       \* the directories out/take-*, by name
  recent,      \* the takes by modification time of their directory, newest first
  filming,     \* the run of record.mjs under way
  inserted,    \* the list of shots has the new one
  headings,    \* the sections of voiceover-script.md
  clips,       \* audio files of the folder that assemble is pointed at
  pitch        \* what assemble laid under a cut

studioVars == <<takes, recent, filming, inserted, headings, clips, pitch>>

Off == [pc |-> "off", now |-> 0, shots |-> <<>>, marks |-> {}, ends |-> 0]
\* The elements of a sequence that are among K, in their order.
Kept(s, K) ==
  LET kept[k \in Nat] == IF k = 0 THEN <<>>
                         ELSE IF s[k] \in K THEN Append(kept[k - 1], s[k]) ELSE kept[k - 1]
  IN  kept
Only(s, K) == Kept(s, K)[Len(s)]

OldList == Only(Shots, ToSet(Shots) \ {Inserted})
List == IF inserted THEN Shots ELSE OldList
Unread(id) == [id |-> id, start |-> 0, end |-> 0, of |-> 0, ramp |-> 0]
NoPitch == [take |-> 0, tracks |-> <<>>]

StudioInit ==
  /\ takes = <<>> /\ recent = <<>> /\ filming = Off /\ inserted = FALSE
  /\ headings = [i \in DOMAIN OldList |-> Unread(OldList[i])]
  /\ clips = {} /\ pitch = NoPitch

\* Writing a new file into a take makes it the newest by time.
Touch(t) == recent' = <<t>> \o Only(recent, DOMAIN takes \ {t})
-----------------------------------------------------------------------------
(* record.mjs.                                                             *)

Checks == {"health", "compile", "static"}

\* A model-backed check that fails cold is tried again; without an answer from
\* /health the rest is not asked.
PreflightPasses(first, second) ==
  first["health"] /\ \A c \in Checks : first[c] \/ (c = "compile" /\ second[c])

\* The capture runs from here; it dies on startup, outside the try, with no
\* manifest, or later, and the driver films on.
BeginTake(dry) ==
  /\ filming.pc = "off" /\ Len(takes) < MaxTakes
  /\ dry \/ \E first, second \in [Checks -> BOOLEAN] : PreflightPasses(first, second)
  /\ takes' = Append(takes, [dry |-> dry, raw |-> 0, manifest |-> FALSE,
                             shots |-> <<>>, marks |-> {}, final |-> 0])
  /\ recent' = <<Len(takes) + 1>> \o recent
  /\ filming' \in {[Off EXCEPT !.pc = "filming"]} \cup (IF dry THEN {} ELSE {Off})
  /\ UNCHANGED <<inserted, headings, clips, pitch>>

Filmed(id, seconds, marks) ==
  filming' = [filming EXCEPT
    !.now = @ + seconds,
    !.shots = Append(@, [id |-> id, from |-> filming.now, to |-> filming.now + seconds]),
    !.marks = @ \cup marks]

\* A shot that throws is written down with what it took, and the next one runs.
\* With --skip-model, here every rehearsal, the buttons are not pressed.
Film ==
  LET id == List[Len(filming.shots) + 1]
      a == filming.now + 1
  IN
  /\ filming.pc = "filming" /\ Len(filming.shots) < Len(List)
  /\ IF id \notin Waiting \/ takes[Len(takes)].dry THEN Filmed(id, 3, {})
     ELSE \/ \E w \in Waits : Filmed(id, w + 2, {[id |-> id, a |-> a, b |-> a + w]})
          \/ Filmed(id, 2, {})
  /\ UNCHANGED <<takes, recent, inserted, headings, clips, pitch>>

CaptureDies ==
  /\ filming.pc = "filming" /\ filming.ends = 0 /\ filming.now > 0
  /\ ~takes[Len(takes)].dry
  /\ filming' = [filming EXCEPT !.ends = filming.now]
  /\ UNCHANGED <<takes, recent, inserted, headings, clips, pitch>>

\* The file is a little longer than the last mark, if it was not cut short.
WrapUp ==
  LET t == Len(takes) IN
  /\ filming.pc = "filming" /\ Len(filming.shots) = Len(List)
  /\ takes' = [takes EXCEPT ![t] = [@ EXCEPT
       !.raw = IF takes[t].dry THEN 0
               ELSE IF filming.ends > 0 THEN filming.ends ELSE filming.now + 1,
       !.manifest = TRUE, !.shots = filming.shots, !.marks = filming.marks]]
  /\ Touch(t) /\ filming' = Off
  /\ UNCHANGED <<inserted, headings, clips, pitch>>

Killed ==
  /\ filming.pc = "filming" /\ filming' = Off
  /\ UNCHANGED <<takes, recent, inserted, headings, clips, pitch>>
-----------------------------------------------------------------------------
(* lib/ramp.mjs and post.mjs.                                              *)

Never == -1    \* no end: the end of the file

\* By the time they begin; no two waits begin together.
Sorted(S) ==
  CHOOSE q \in [1..Cardinality(S) -> S] :
    \A i, j \in 1..Cardinality(S) : i < j => q[i].a < q[j].a

\* The ramped waits of a take, earliest first; a short one is left alone, and one
\* that the capture does not contain cannot be cut.
RampRegions(marks, duration) ==
  Sorted({m \in marks : m.b > m.a + 2 /\ (duration = Never \/ m.b < duration)})

Inside(t, r) == (IF t < r.b THEN t ELSE r.b) - r.a

\* Mutant: a wait counts as saved whole.
ToFinal_DropsWait(t, regions, ramp) ==
  LET out[k \in Nat] == IF k = 0 THEN t
                        ELSE IF t <= regions[k].a THEN out[k - 1]
                        ELSE out[k - 1] - Inside(t, regions[k])
  IN  out[Len(regions)]

\* Where a moment of the capture is found in the cut.
Finals(t, regions, ramp) ==
  LET out[k \in Nat] ==
        IF k = 0 THEN t
        ELSE IF t <= regions[k].a THEN out[k - 1]
        ELSE out[k - 1] - (Inside(t, regions[k]) - Inside(t, regions[k]) \div ramp)
  IN  out
ToFinal(t, regions, ramp) == Finals(t, regions, ramp)[Len(regions)]

Part(from, to, speed) == [from |-> from, to |-> to, speed |-> speed]
Cursor(regions, k) == IF k = 0 THEN 0 ELSE regions[k].b

\* What post.mjs has ffmpeg put together: the stretches between the waits as
\* they are, the waits sped up.
PartLists(regions, ramp) ==
  LET list[k \in Nat] ==
        IF k = 0 THEN <<>>
        ELSE LET r == regions[k]
                 cursor == Cursor(regions, k - 1)
             IN  Append(IF r.a > cursor THEN Append(list[k - 1], Part(cursor, r.a, 1))
                        ELSE list[k - 1],
                        Part(r.a, r.b, ramp))
  IN  list
RampParts(regions, ramp) ==
  Append(PartLists(regions, ramp)[Len(regions)], Part(Cursor(regions, Len(regions)), Never, 1))

\* Where that puts a moment of the capture.
Elapsed(t, parts) ==
  LET out[k \in Nat] ==
        IF k = 0 THEN 0
        ELSE LET p == parts[k]
             IN  IF t <= p.from THEN out[k - 1]
                 ELSE out[k - 1]
                      + ((IF p.to = Never \/ t < p.to THEN t ELSE p.to) - p.from) \div p.speed
  IN  out
InTheCut(t, parts) == Elapsed(t, parts)[Len(parts)]

CutParts(t) == RampParts(RampRegions(takes[t].marks, takes[t].raw), takes[t].final)

\* latestTake: the newest by time that has a capture; without a manifest the
\* command fails.  --take names another.  A cut made again replaces the one before.
Post(t, ramp) ==
  /\ filming.pc = "off" /\ takes[t].raw > 0 /\ takes[t].manifest
  /\ takes' = [takes EXCEPT ![t].final = ramp]
  /\ IF takes[t].final # 0 THEN UNCHANGED recent ELSE Touch(t)
  /\ UNCHANGED <<filming, inserted, headings, clips, pitch>>
-----------------------------------------------------------------------------
(* sync-script.mjs.                                                        *)

Timecodes(t, ramp) ==
  LET regions == RampRegions(takes[t].marks, Never)
  IN  [i \in DOMAIN headings |->
         [id |-> headings[i].id, of |-> t, ramp |-> ramp,
          start |-> ToFinal(takes[t].shots[i].from, regions, ramp),
          end |-> ToFinal(takes[t].shots[i].to, regions, ramp)]]

\* A rehearsal is passed over, or refused when it is named; so is a take of
\* another number of shots.  Section N is given the times of shot N.
Sync(t, ramp) ==
  /\ takes[t].manifest /\ ~takes[t].dry
  /\ Len(takes[t].shots) = Len(headings)
  /\ headings' = Timecodes(t, ramp)
  /\ UNCHANGED <<takes, recent, filming, inserted, clips, pitch>>
-----------------------------------------------------------------------------
(* The people: a shot is added, with its section, and sections are read.   *)

InsertShot ==
  /\ ~inserted /\ filming.pc = "off" /\ inserted' = TRUE
  /\ UNCHANGED <<takes, recent, filming, headings, clips, pitch>>

\* loadScript takes whatever sections there are.
InsertSection ==
  /\ inserted /\ \A h \in DOMAIN headings : headings[h].id # Inserted
  /\ headings' = [i \in DOMAIN Shots |->
       IF Shots[i] = Inserted THEN Unread(Inserted)
       ELSE CHOOSE h \in ToSet(headings) : h.id = Shots[i]]
  /\ UNCHANGED <<takes, recent, filming, inserted, clips, pitch>>

\* The file is named after the section, as the clips are, or by its number, as
\* rehearse does.
ReadAloud(i, named) ==
  /\ filming.pc = "off" /\ pitch = NoPitch
  /\ LET file == [slug |-> IF named THEN headings[i].id ELSE "", number |-> i,
                  says |-> headings[i].id]
     IN  clips' = {c \in clips : c.slug # file.slug \/ (~named /\ c.number # i)} \cup {file}
  /\ clips' # clips /\ Cardinality(clips') <= MaxReads
  /\ UNCHANGED <<takes, recent, filming, inserted, headings, pitch>>
-----------------------------------------------------------------------------
(* voice.mjs.                                                              *)

\* A file is a section's by its name, else by a bare number.
Hit(i, c) ==
  IF \E d \in clips : d.slug = headings[i].id THEN c.slug = headings[i].id
  ELSE c.slug = "" /\ c.number = i

Found == Only([i \in DOMAIN headings |-> i],
              {i \in DOMAIN headings : \E c \in clips : Hit(i, c)})

\* The tracks are laid at the headings' times under the cut that is newest by
\* the time of its directory; a section without a file is silent.
Assemble ==
  LET cuts == Only(recent, {t \in DOMAIN takes : takes[t].final # 0}) IN
  /\ filming.pc = "off" /\ cuts # <<>> /\ Found # <<>> /\ pitch = NoPitch
  /\ pitch' = [take |-> cuts[1],
               tracks |-> [n \in DOMAIN Found |->
                 LET i == Found[n]
                     c == CHOOSE c \in clips : Hit(i, c)
                 IN  [section |-> headings[i].id, at |-> headings[i].start,
                      of |-> headings[i].of, says |-> c.says, named |-> c.slug # ""]]]
  /\ Touch(cuts[1])
  /\ UNCHANGED <<takes, filming, inserted, headings, clips>>

StudioNext ==
  \/ (\E dry \in BOOLEAN : BeginTake(dry)) \/ Film \/ CaptureDies \/ WrapUp \/ Killed
  \/ \E t \in DOMAIN takes, ramp \in Ramps : Post(t, ramp) \/ Sync(t, ramp)
  \/ InsertShot \/ InsertSection
  \/ \E i \in DOMAIN headings, named \in BOOLEAN :
       ReadAloud(i, named)
  \/ Assemble

StudioSpec == StudioInit /\ [][StudioNext]_studioVars
-----------------------------------------------------------------------------
StudioTypes ==
  /\ Len(takes) <= MaxTakes /\ ToSet(recent) = DOMAIN takes
  /\ \A i \in DOMAIN headings : headings[i].of \in 0..Len(takes)

\* Heading h holds the times at which the cut of its take shows some shot.
ShownInTheCut(h) ==
  \E n \in DOMAIN takes[h.of].shots :
    LET s == takes[h.of].shots[n] IN
    h.start = InTheCut(s.from, CutParts(h.of)) /\ h.end = InTheCut(s.to, CutParts(h.of))

\* The capture of a take that was cut lasted to the end of its shots.
Lasted(t) == takes[t].final # 0 /\ takes[t].raw > takes[t].shots[Len(takes[t].shots)].to

\* The script's timecodes, got by subtraction, are where the cut, put together
\* from parts, shows the shots, for every take whose capture lasted, as long as
\* both commands were given the same --ramp.
TimecodesAreOfTheCut ==
  \A i \in DOMAIN headings :
    LET h == headings[i] IN
    h.of # 0 /\ Lasted(h.of) /\ h.ramp = takes[h.of].final => ShownInTheCut(h)

\* ramp.mjs:9 `two things need it and they must not disagree'.  They do: each
\* command takes a --ramp of its own, and nothing keeps the one that was used.
RampsAgree ==
  \A i \in DOMAIN headings :
    headings[i].of # 0 /\ Lasted(headings[i].of) => ShownInTheCut(headings[i])

\* `Matched by name, never by position': no section is given the words of
\* another because the list of shots has changed since they were read, except
\* by a file that has no name.
NamedTakesStay ==
  \A n \in DOMAIN pitch.tracks :
    pitch.tracks[n].named => pitch.tracks[n].says = pitch.tracks[n].section

SoundOfThePicture == TimecodesAreOfTheCut /\ NamedTakesStay

\* sync-script.mjs: `assemble still pins the audio from shot-times.json itself.'
\* Not so: TLC finds tracks laid at the times of another take than the one shown.
PinnedToItsTake ==
  \A n \in DOMAIN pitch.tracks : pitch.tracks[n].of = pitch.take
=============================================================================
