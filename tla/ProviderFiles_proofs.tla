------------------------- MODULE ProviderFiles_proofs -------------------------
(***************************************************************************)
(* Proofs about ProviderFiles, for every set of directories, inodes and       *)
(* texts and any number of changes by others.  Marks says that modification   *)
(* times only grow, so that a recorded file whose time is still the recorded  *)
(* one has its recorded text (Recorded); Path says what each step of a pass   *)
(* can rely on.                                                               *)
(***************************************************************************)
EXTENDS ProviderFiles, SequenceTheorems, TLAPS

\* The types of the texts, the clock and the records.
Marks ==
    /\ body \in [Inode -> Seq(Chunk)] /\ mtime \in [Inode -> Nat]
    /\ doc \in Seq(Chunk) /\ first \in Seq(Chunk)
    /\ now \in Nat /\ writes \in Nat
    /\ sameTick \in BOOLEAN /\ vouched \in BOOLEAN /\ kept \in BOOLEAN
    /\ seen \in [inode : Inode \cup {None}, size : Nat, time : Nat]
    /\ seen.time <= now

\* What has been read is the beginning of the recorded text.
Begins(d, t) ==
    /\ Len(d) <= Len(t)
    /\ \A k \in 1 .. Len(d) : d[k] = t[k]

\* A write after the record has left another time, or is in sameTick.
Recorded ==
    task # "hooks" /\ seen.inode # None =>
        /\ seen.size = Len(first)
        /\ ~sameTick /\ mtime[seen.inode] = seen.time =>
              body[seen.inode] = first /\ Begins(doc, first)

\* The steps of the three tasks.
Path ==
    /\ at \in {"inspect", "inspectAgain", "absent"} => task = "cache"
    /\ at \in {"after", "admitted", "refused"} => task # "hooks"
    /\ at \in {"pin", "stage", "check", "rename", "readback", "confirm", "installed",
               "install", "verify"} => task = "hooks"
    /\ at \in {"pin", "inspect", "open", "stat"} => doc = <<>>
    /\ task = "cache" /\ at \in {"open", "stat"} => seen.inode # None
    /\ at = "inspectAgain" => Len(doc) = seen.size

\* Between the check and the rename.
Vouch == at = "rename" /\ vouched => Entry = seen.inode

\* From the reading back on, and when the name has been followed.
Landed ==
    /\ at \in {"confirm", "installed"} /\ kept => Entry # None /\ verify(body[Entry])
    /\ at = "installed" => dir = home

IInv == TypeOK /\ Marks /\ Recorded /\ Path /\ AdmittedIsOneVersion /\ Vouch /\ Landed

-----------------------------------------------------------------------------
(* Lemmas on the operators.                                                *)

\* A beginning of the same length is the text itself.
LEMMA WholeText ==
    ASSUME NEW d \in Seq(Chunk), NEW t \in Seq(Chunk), Begins(d, t), Len(d) = Len(t)
    PROVE  d = t
  BY SeqEqual DEF Begins

\* One more chunk of the same text.
LEMMA OneMore ==
    ASSUME NEW d \in Seq(Chunk), NEW t \in Seq(Chunk), Begins(d, t), Len(d) < Len(t)
    PROVE  Begins(Append(d, t[Len(d) + 1]), t)
  BY DEF Begins

\* The installed text is a text.
LEMMA InstalledIsText ==
    ASSUME NEW d \in Seq(Chunk)
    PROVE  Installed(d) \in Seq(Chunk)
  BY FilesAssumption DEF Installed

\* The facts of a file, and its entry.
LEMMA FactsTyped ==
    ASSUME TypeOK, Marks, NEW i \in Inode
    PROVE  /\ Facts(i) \in [inode : Inode \cup {None}, size : Nat, time : Nat]
           /\ Facts(i).inode = i /\ Facts(i).size = Len(body[i]) /\ Facts(i).time = mtime[i]
           /\ mtime[i] <= now /\ i # None
  BY FilesAssumption DEF TypeOK, Marks, Facts

LEMMA EntryTyped ==
    ASSUME TypeOK
    PROVE  Entry \in Inode \cup {None} /\ (Entry # None => home \in Dir /\ Entry = path[home])
  BY DEF TypeOK, Entry

-----------------------------------------------------------------------------
(* Initial states and steps.                                               *)

LEMMA InvInit == Init => IInv
<1> SUFFICES ASSUME Init PROVE IInv
  OBVIOUS
<1> USE DEF Init, Unseen, Final
<1>1. TypeOK
  BY FilesAssumption DEF TypeOK
<1>2. Marks
  <2>1. \A i \in Inode : body[i] \in Seq(Chunk)
    BY FilesAssumption
  <2>2. <<>> \in Seq(Chunk)
    BY FilesAssumption
  <2>3. seen \in [inode : Inode \cup {None}, size : Nat, time : Nat] /\ seen.time = 0
    OBVIOUS
  <2>4. body \in [Inode -> Seq(Chunk)] /\ mtime \in [Inode -> Nat]
    BY <2>1
  <2>5. sameTick \in BOOLEAN /\ vouched \in BOOLEAN /\ kept \in BOOLEAN
    OBVIOUS
  <2>6. doc \in Seq(Chunk) /\ first \in Seq(Chunk)
    BY <2>2
  <2>7. now \in Nat /\ writes \in Nat /\ seen.time <= now
    BY <2>3
  <2> QED
    BY <2>3, <2>4, <2>5, <2>6, <2>7 DEF Marks
<1>3. Recorded /\ Path /\ AdmittedIsOneVersion /\ Vouch /\ Landed
  BY DEF Recorded, Path, AdmittedIsOneVersion, Vouch, Landed
<1> QED
  BY <1>1, <1>2, <1>3 DEF IInv

\* Every step keeps the types of the file system and the pass.
LEMMA TypeStep == IInv /\ [Next]_vars => TypeOK'
<1> SUFFICES ASSUME IInv, [Next]_vars PROVE TypeOK'
  OBVIOUS
<1> USE DEF IInv, TypeOK, Marks, Path, world, Goto, Refuse, NoRead, NoWrite, Final
<1>1. CASE Stop
  BY <1>1 DEF Stop
<1>2. CASE Inspect
  BY <1>2, FactsTyped, EntryTyped DEF Inspect, Record
<1>3. CASE Open
  BY <1>3, EntryTyped, FilesAssumption DEF Open
<1>4. CASE StatOpened
  BY <1>4, FactsTyped DEF StatOpened, Record, OpenedAsSeen
<1>5. CASE Read
  BY <1>5 DEF Read
<1>6. CASE StatAfter
  BY <1>6 DEF StatAfter
<1>7. CASE InspectAgain
  BY <1>7 DEF InspectAgain
<1>8. CASE Pin
  BY <1>8, FilesAssumption DEF Pin
<1>9. CASE PinFails
  BY <1>9 DEF PinFails
<1>10. CASE Stage
  BY <1>10 DEF Stage
<1>11. CASE Check
  BY <1>11 DEF Check
<1>12. CASE Rename
  <2>1. CASE Refuse
    BY <1>12, <2>1 DEF Rename
  <2>2. ASSUME NEW i \in Inode, ~Linked(i), path' = [path EXCEPT ![home] = i],
               special' = special \ {i}, mtime' = [mtime EXCEPT ![i] = now], Goto("readback")
        PROVE  TypeOK'
    <3>1. home \in Dir /\ UNCHANGED <<dir, home, now, task, fd, seen>>
      BY <1>12 DEF Rename
    <3>2. \A d, e \in Dir : path'[d] = path'[e] => d = e \/ path'[d] = None
      BY <2>2, <3>1, FilesAssumption DEF Linked
    <3>3. \A j \in Inode : mtime'[j] \in 0 .. now
      BY <2>2
    <3>4. path' \in [Dir -> Inode \cup {None}] /\ special' \subseteq Inode
      BY <2>2
    <3>5. at' = "readback" /\ home' \in Dir /\ home' # None
      BY <2>2, <3>1, FilesAssumption
    <3>6. now' = now /\ dir' = dir /\ task' = task /\ fd' = fd
      BY <3>1
    <3> QED
      BY <3>2, <3>3, <3>4, <3>5, <3>6
  <2> QED
    BY <1>12, <2>1, <2>2 DEF Rename
<1>13. CASE ReadBack
  BY <1>13 DEF ReadBack
<1>14. CASE confirm
  BY <1>14 DEF confirm
<1>15. CASE Others /\ Edit
  BY <1>15, FilesAssumption DEF Edit, Others, Write, Linked
<1>16. CASE Others /\ Replace
  BY <1>16, FilesAssumption DEF Replace, Others, Write, Linked
<1>17. CASE Others /\ Unlink
  BY <1>17 DEF Unlink, Others
<1>18. CASE Others /\ Move
  BY <1>18 DEF Move, Others
<1>19. CASE Tick
  BY <1>19 DEF Tick
<1>20. CASE UNCHANGED vars
  BY <1>20 DEF vars, Entry, Linked
<1> QED
  BY <1>1, <1>2, <1>3, <1>4, <1>5, <1>6, <1>7, <1>8, <1>9,
     <1>10, <1>11, <1>12, <1>13, <1>14, <1>15, <1>16, <1>17, <1>18, <1>19, <1>20
     DEF Next, Pass, Others

\* Times only grow, up to the clock.
LEMMA MarksStep == IInv /\ [Next]_vars => Marks'
<1> SUFFICES ASSUME IInv, [Next]_vars PROVE Marks'
  OBVIOUS
<1> USE DEF IInv, TypeOK, Marks, Path, world, Goto, Refuse, NoRead, NoWrite, Final
<1>1. CASE Stop
  BY <1>1 DEF Stop
<1>2. CASE Inspect
  <2>1. seen' = seen \/ (Entry \in Inode /\ seen' = Facts(Entry))
    BY <1>2, EntryTyped DEF Inspect, Record
  <2>2. seen' \in [inode : Inode \cup {None}, size : Nat, time : Nat] /\ seen'.time <= now
    BY <2>1, FactsTyped
  <2>3. first' \in Seq(Chunk)
    BY <1>2, EntryTyped DEF Inspect, Record
  <2> QED
    BY <1>2, <2>2, <2>3 DEF Inspect, Record
<1>3. CASE Open
  BY <1>3 DEF Open
<1>4. CASE StatOpened
  <2>1. fd \in Inode /\ (seen' = seen \/ seen' = Facts(fd))
    BY <1>4 DEF StatOpened, Record
  <2>2. seen' \in [inode : Inode \cup {None}, size : Nat, time : Nat] /\ seen'.time <= now
    BY <2>1, FactsTyped
  <2>3. first' \in Seq(Chunk)
    BY <1>4, <2>1 DEF StatOpened, Record
  <2> QED
    BY <1>4, <2>2, <2>3 DEF StatOpened, Record
<1>5. CASE Read
  <2>1. fd \in Inode /\ Len(doc) \in Nat
    BY <1>5 DEF Read
  <2>2. doc' \in Seq(Chunk)
    <3>1. CASE Len(doc) < Len(body[fd])
      <4>1. body[fd] \in Seq(Chunk) /\ Len(doc) + 1 \in 1 .. Len(body[fd])
        BY <2>1, <3>1
      <4>2. body[fd][Len(doc) + 1] \in Chunk
        BY <4>1, ElementOfSeq
      <4>3. Append(doc, body[fd][Len(doc) + 1]) \in Seq(Chunk)
        BY <4>2
      <4> QED
        BY <1>5, <3>1, <4>3 DEF Read
    <3> QED
      BY <1>5, <3>1 DEF Read
  <2> QED
    BY <1>5, <2>2 DEF Read
<1>6. CASE StatAfter
  BY <1>6 DEF StatAfter
<1>7. CASE InspectAgain
  BY <1>7 DEF InspectAgain
<1>8. CASE Pin
  BY <1>8 DEF Pin
<1>9. CASE PinFails
  BY <1>9 DEF PinFails
<1>10. CASE Stage
  BY <1>10, InstalledIsText, FilesAssumption DEF Stage
<1>11. CASE Check
  BY <1>11 DEF Check
<1>12. CASE Rename
  <2>1. body' \in [Inode -> Seq(Chunk)] /\ mtime' \in [Inode -> Nat]
    <3>1. CASE UNCHANGED <<body, mtime>>
      BY <3>1
    <3>2. ASSUME NEW i \in Inode, body' = [body EXCEPT ![i] = doc], mtime' = [mtime EXCEPT ![i] = now]
          PROVE  body' \in [Inode -> Seq(Chunk)] /\ mtime' \in [Inode -> Nat]
      BY <3>2
    <3> QED
      BY <1>12, <3>1, <3>2 DEF Rename
  <2> QED
    BY <1>12, <2>1 DEF Rename
<1>13. CASE ReadBack
  BY <1>13 DEF ReadBack
<1>14. CASE confirm
  BY <1>14 DEF confirm
<1>15. CASE Others /\ Edit
  BY <1>15, FilesAssumption DEF Edit, Others, Write
<1>16. CASE Others /\ Replace
  BY <1>16, FilesAssumption DEF Replace, Others, Write
<1>17. CASE Others /\ Unlink
  BY <1>17 DEF Unlink, Others
<1>18. CASE Others /\ Move
  BY <1>18 DEF Move, Others
<1>19. CASE Tick
  BY <1>19 DEF Tick
<1>20. CASE UNCHANGED vars
  BY <1>20 DEF vars, Entry, Linked
<1> QED
  BY <1>1, <1>2, <1>3, <1>4, <1>5, <1>6, <1>7, <1>8, <1>9,
     <1>10, <1>11, <1>12, <1>13, <1>14, <1>15, <1>16, <1>17, <1>18, <1>19, <1>20
     DEF Next, Pass, Others

\* Whatever another program writes, and wherever, the record holds.
LEMMA Written ==
    ASSUME Marks, Recorded, UNCHANGED <<now, task, seen, doc, first>>,
           NEW i \in Inode, NEW b \in Body, Write(i, b)
    PROVE  Recorded'
<1> SUFFICES ASSUME task # "hooks", seen.inode # None, ~sameTick',
                    mtime'[seen.inode] = seen.time
             PROVE  body'[seen.inode] = first /\ Begins(doc, first)
  BY DEF Recorded, Begins
<1> SUFFICES i # seen.inode
  BY DEF Recorded, Write, Marks
<1> QED
  BY DEF Recorded, Write, Marks

\* A file with the recorded time has the recorded text.
LEMMA RecordedStep == IInv /\ [Next]_vars => Recorded'
<1> SUFFICES ASSUME IInv, [Next]_vars PROVE Recorded'
  OBVIOUS
<1> USE DEF IInv, TypeOK, Marks, Path, world, Goto, Refuse, NoRead, NoWrite, Final, Recorded
<1>1. CASE Stop
  BY <1>1 DEF Stop
<1>2. CASE Inspect
  BY <1>2, FactsTyped, EntryTyped DEF Inspect, Record, Begins
<1>3. CASE Open
  BY <1>3 DEF Open
<1>4. CASE StatOpened
  BY <1>4, FactsTyped DEF StatOpened, Record, Begins
<1>5. CASE Read
  <2> SUFFICES ASSUME task # "hooks", seen.inode # None
               PROVE  Recorded'
    BY <1>5 DEF Read
  <2>1. fd = seen.inode /\ UNCHANGED <<task, seen, first, sameTick, mtime, body>>
    BY <1>5 DEF Read
  <2>2. ASSUME ~sameTick, mtime[seen.inode] = seen.time
        PROVE  Begins(doc', first)
    <3>1. body[fd] = first /\ Begins(doc, first)
      BY <2>1, <2>2
    <3>2. CASE Len(doc) < Len(body[fd])
      <4>1. doc' = Append(doc, first[Len(doc) + 1])
        BY <1>5, <3>1, <3>2 DEF Read
      <4> QED
        BY <3>1, <3>2, <4>1, OneMore
    <3> QED
      BY <1>5, <3>1, <3>2 DEF Read
  <2> QED
    BY <2>1, <2>2
<1>6. CASE StatAfter
  BY <1>6 DEF StatAfter
<1>7. CASE InspectAgain
  BY <1>7 DEF InspectAgain
<1>8. CASE Pin
  BY <1>8 DEF Pin
<1>9. CASE PinFails
  BY <1>9 DEF PinFails
<1>10. CASE Stage
  BY <1>10 DEF Stage
<1>11. CASE Check
  BY <1>11 DEF Check
<1>12. CASE Rename
  BY <1>12 DEF Rename
<1>13. CASE ReadBack
  BY <1>13 DEF ReadBack
<1>14. CASE confirm
  BY <1>14 DEF confirm
<1>15. CASE Others /\ Edit
  <2>1. PICK i \in Inode, b \in Body : Write(i, b)
    BY <1>15 DEF Edit
  <2>2. UNCHANGED <<now, task, seen, doc, first>>
    BY <1>15 DEF Others
  <2> QED
    BY <2>1, <2>2, Written
<1>16. CASE Others /\ Replace
  <2>1. PICK i \in Inode, b \in Body : Write(i, b)
    BY <1>16 DEF Replace
  <2>2. UNCHANGED <<now, task, seen, doc, first>>
    BY <1>16 DEF Others
  <2> QED
    BY <2>1, <2>2, Written
<1>17. CASE Others /\ Unlink
  BY <1>17 DEF Unlink, Others
<1>18. CASE Others /\ Move
  BY <1>18 DEF Move, Others
<1>19. CASE Tick
  BY <1>19 DEF Tick
<1>20. CASE UNCHANGED vars
  BY <1>20 DEF vars, Entry, Linked
<1> QED
  BY <1>1, <1>2, <1>3, <1>4, <1>5, <1>6, <1>7, <1>8, <1>9,
     <1>10, <1>11, <1>12, <1>13, <1>14, <1>15, <1>16, <1>17, <1>18, <1>19, <1>20
     DEF Next, Pass, Others

\* Each step of a pass hands on what the next one relies on.
LEMMA PathStep == IInv /\ [Next]_vars => Path'
<1> SUFFICES ASSUME IInv, [Next]_vars PROVE Path'
  OBVIOUS
<1> USE DEF IInv, TypeOK, Marks, Path, world, Goto, Refuse, NoRead, NoWrite, Final
<1>1. CASE Stop
  BY <1>1 DEF Stop
<1>2. CASE Inspect
  BY <1>2, FactsTyped, EntryTyped DEF Inspect, Record
<1>3. CASE Open
  BY <1>3 DEF Open
<1>4. CASE StatOpened
  BY <1>4 DEF StatOpened, Record
<1>5. CASE Read
  BY <1>5 DEF Read
<1>6. CASE StatAfter
  BY <1>6 DEF StatAfter, UnchangedSinceStat
<1>7. CASE InspectAgain
  BY <1>7 DEF InspectAgain
<1>8. CASE Pin
  BY <1>8 DEF Pin
<1>9. CASE PinFails
  BY <1>9 DEF PinFails
<1>10. CASE Stage
  BY <1>10 DEF Stage
<1>11. CASE Check
  BY <1>11 DEF Check
<1>12. CASE Rename
  BY <1>12 DEF Rename
<1>13. CASE ReadBack
  BY <1>13 DEF ReadBack
<1>14. CASE confirm
  BY <1>14 DEF confirm
<1>15. CASE Others /\ Edit
  BY <1>15 DEF Edit, Others, Write
<1>16. CASE Others /\ Replace
  BY <1>16 DEF Replace, Others, Write
<1>17. CASE Others /\ Unlink
  BY <1>17 DEF Unlink, Others
<1>18. CASE Others /\ Move
  BY <1>18 DEF Move, Others
<1>19. CASE Tick
  BY <1>19 DEF Tick
<1>20. CASE UNCHANGED vars
  BY <1>20 DEF vars, Entry, Linked
<1> QED
  BY <1>1, <1>2, <1>3, <1>4, <1>5, <1>6, <1>7, <1>8, <1>9,
     <1>10, <1>11, <1>12, <1>13, <1>14, <1>15, <1>16, <1>17, <1>18, <1>19, <1>20
     DEF Next, Pass, Others

\* A reading is admitted only when file, time and size are the recorded ones.
LEMMA VersionStep == IInv /\ [Next]_vars => AdmittedIsOneVersion'
<1> SUFFICES ASSUME IInv, [Next]_vars PROVE AdmittedIsOneVersion'
  OBVIOUS
<1> USE DEF IInv, TypeOK, Marks, Path, world, Goto, Refuse, NoRead, NoWrite, Final, AdmittedIsOneVersion, Recorded
<1>1. CASE Stop
  BY <1>1 DEF Stop
<1>2. CASE Inspect
  BY <1>2 DEF Inspect, Record
<1>3. CASE Open
  BY <1>3 DEF Open
<1>4. CASE StatOpened
  BY <1>4 DEF StatOpened, Record
<1>5. CASE Read
  BY <1>5 DEF Read
<1>6. CASE StatAfter
  <2> SUFFICES ASSUME at' = "admitted", ~sameTick
               PROVE  doc = first /\ task # "cache"
    BY <1>6 DEF StatAfter
  <2>1. task = "token" /\ UnchangedSinceStat /\ fd \in Inode /\ seen.inode = fd
    BY <1>6 DEF StatAfter
  <2>2. mtime[fd] = seen.time /\ Len(doc) = seen.size /\ seen.inode # None
    BY <2>1, FactsTyped DEF UnchangedSinceStat
  <2>3. Len(doc) = Len(first) /\ Begins(doc, first)
    BY <2>1, <2>2
  <2> QED
    BY <2>1, <2>3, WholeText
<1>7. CASE InspectAgain
  <2> SUFFICES ASSUME at' = "admitted", ~sameTick
               PROVE  doc = first /\ body[Entry] = doc
    BY <1>7 DEF InspectAgain, Entry
  <2>1. Facts(Entry) = seen /\ Entry \in Inode /\ task = "cache"
    BY <1>7, EntryTyped DEF InspectAgain, StillTheFile
  <2>2. mtime[Entry] = seen.time /\ seen.inode = Entry /\ seen.inode # None
    BY <2>1, FactsTyped
  <2>3. Len(doc) = Len(first) /\ Begins(doc, first) /\ body[Entry] = first
    BY <1>7, <2>1, <2>2 DEF InspectAgain
  <2> QED
    BY <2>1, <2>3, WholeText
<1>8. CASE Pin
  BY <1>8 DEF Pin
<1>9. CASE PinFails
  BY <1>9 DEF PinFails
<1>10. CASE Stage
  BY <1>10 DEF Stage
<1>11. CASE Check
  BY <1>11 DEF Check
<1>12. CASE Rename
  BY <1>12 DEF Rename
<1>13. CASE ReadBack
  BY <1>13 DEF ReadBack
<1>14. CASE confirm
  BY <1>14 DEF confirm
<1>15. CASE Others /\ Edit
  BY <1>15 DEF Edit, Others, Write
<1>16. CASE Others /\ Replace
  BY <1>16 DEF Replace, Others, Write
<1>17. CASE Others /\ Unlink
  BY <1>17 DEF Unlink, Others
<1>18. CASE Others /\ Move
  BY <1>18 DEF Move, Others
<1>19. CASE Tick
  BY <1>19 DEF Tick
<1>20. CASE UNCHANGED vars
  BY <1>20 DEF vars, Entry, Linked
<1> QED
  BY <1>1, <1>2, <1>3, <1>4, <1>5, <1>6, <1>7, <1>8, <1>9,
     <1>10, <1>11, <1>12, <1>13, <1>14, <1>15, <1>16, <1>17, <1>18, <1>19, <1>20
     DEF Next, Pass, Others

\* Between check and rename, who takes the entry away is noticed in vouched.
LEMMA VouchStep == IInv /\ [Next]_vars => Vouch'
<1> SUFFICES ASSUME IInv, [Next]_vars PROVE Vouch'
  OBVIOUS
<1> USE DEF IInv, TypeOK, Marks, Path, world, Goto, Refuse, NoRead, NoWrite, Final, Vouch, Entry
<1>1. CASE Stop
  BY <1>1 DEF Stop
<1>2. CASE Inspect
  BY <1>2 DEF Inspect, Record
<1>3. CASE Open
  BY <1>3 DEF Open
<1>4. CASE StatOpened
  BY <1>4 DEF StatOpened, Record
<1>5. CASE Read
  BY <1>5 DEF Read
<1>6. CASE StatAfter
  BY <1>6 DEF StatAfter
<1>7. CASE InspectAgain
  BY <1>7 DEF InspectAgain
<1>8. CASE Pin
  BY <1>8 DEF Pin
<1>9. CASE PinFails
  BY <1>9 DEF PinFails
<1>10. CASE Stage
  BY <1>10 DEF Stage
<1>11. CASE Check
  BY <1>11 DEF Check, SameEntry
<1>12. CASE Rename
  BY <1>12 DEF Rename
<1>13. CASE ReadBack
  BY <1>13 DEF ReadBack
<1>14. CASE confirm
  BY <1>14 DEF confirm
<1>15. CASE Others /\ Edit
  BY <1>15 DEF Edit, Others, Write
<1>16. CASE Others /\ Replace
  BY <1>16 DEF Replace, Others, Write
<1>17. CASE Others /\ Unlink
  BY <1>17 DEF Unlink, Others
<1>18. CASE Others /\ Move
  BY <1>18 DEF Move, Others
<1>19. CASE Tick
  BY <1>19 DEF Tick
<1>20. CASE UNCHANGED vars
  BY <1>20 DEF vars, Entry, Linked
<1> QED
  BY <1>1, <1>2, <1>3, <1>4, <1>5, <1>6, <1>7, <1>8, <1>9,
     <1>10, <1>11, <1>12, <1>13, <1>14, <1>15, <1>16, <1>17, <1>18, <1>19, <1>20
     DEF Next, Pass, Others

\* After the reading back, who changes the entry or its file is noticed in kept.
LEMMA LandedStep == IInv /\ [Next]_vars => Landed'
<1> SUFFICES ASSUME IInv, [Next]_vars PROVE Landed'
  OBVIOUS
<1> USE DEF IInv, TypeOK, Marks, Path, world, Goto, Refuse, NoRead, NoWrite, Final, Landed, Entry
<1>1. CASE Stop
  BY <1>1 DEF Stop
<1>2. CASE Inspect
  BY <1>2 DEF Inspect, Record
<1>3. CASE Open
  BY <1>3 DEF Open
<1>4. CASE StatOpened
  BY <1>4 DEF StatOpened, Record
<1>5. CASE Read
  BY <1>5 DEF Read
<1>6. CASE StatAfter
  BY <1>6 DEF StatAfter
<1>7. CASE InspectAgain
  BY <1>7 DEF InspectAgain
<1>8. CASE Pin
  BY <1>8 DEF Pin
<1>9. CASE PinFails
  BY <1>9 DEF PinFails
<1>10. CASE Stage
  BY <1>10 DEF Stage
<1>11. CASE Check
  BY <1>11 DEF Check
<1>12. CASE Rename
  BY <1>12 DEF Rename
<1>13. CASE ReadBack
  BY <1>13 DEF ReadBack, HooksRead
<1>14. CASE confirm
  BY <1>14 DEF confirm, NameLeadsHere
<1>15. CASE Others /\ Edit
  BY <1>15 DEF Edit, Others, Write
<1>16. CASE Others /\ Replace
  <2>1. PICK d \in Dir, i \in Inode, b \in Body :
          ~Linked(i) /\ path' = [path EXCEPT ![d] = i] /\ Write(i, b) /\ kept' = (kept /\ d # home)
    BY <1>16 DEF Replace
  <2> SUFFICES ASSUME at = "confirm", kept'
               PROVE  Entry' = Entry /\ body'[Entry] = body[Entry]
    BY <1>16, <2>1 DEF Others
  <2>2. home \in Dir /\ home' = home /\ d # home
    BY <1>16, <2>1 DEF Others
  <2>3. path'[home] = path[home] /\ path[home] # i
    BY <2>1, <2>2 DEF Linked
  <2> QED
    BY <2>1, <2>2, <2>3 DEF Write
<1>17. CASE Others /\ Unlink
  BY <1>17 DEF Unlink, Others
<1>18. CASE Others /\ Move
  BY <1>18 DEF Move, Others
<1>19. CASE Tick
  BY <1>19 DEF Tick
<1>20. CASE UNCHANGED vars
  BY <1>20 DEF vars, Entry, Linked
<1> QED
  BY <1>1, <1>2, <1>3, <1>4, <1>5, <1>6, <1>7, <1>8, <1>9,
     <1>10, <1>11, <1>12, <1>13, <1>14, <1>15, <1>16, <1>17, <1>18, <1>19, <1>20
     DEF Next, Pass, Others

LEMMA InvStep == IInv /\ [Next]_vars => IInv'
  BY TypeStep, MarksStep, RecordedStep, PathStep, VersionStep, VouchStep, LandedStep DEF IInv

LEMMA Invariance == Spec => []IInv
  BY InvInit, InvStep, PTL DEF Spec

-----------------------------------------------------------------------------
(* Theorems.                                                               *)

\* Type correctness: a pass has the records and the open file that its step needs, and no
\* inode gets two entries, whatever others do to the files.
THEOREM TypeCorrect == Spec => []TypeOK
<1> IInv => TypeOK
  BY DEF IInv
<1> QED
  BY Invariance, PTL

\* readPolicyCache and readFile admit one version of a file, unless it was written in the
\* tick of its recorded time.
THEOREM OneVersion == Spec => []AdmittedIsOneVersion
<1> IInv => AdmittedIsOneVersion
  BY DEF IInv
<1> QED
  BY Invariance, PTL

\* The doorbell never overwrites a file that was put there under another inode number
\* before commit compared the entry, and says installed only of the directory the name
\* leads to, with the hooks that were read back.
THEOREM InstallationLosesNothing == Spec => InstallLosesNothing
<1>1. IInv => NewcomerSurvives
  BY DEF IInv, TypeOK, Path, Vouch, Entry, NewcomerSurvives
<1>2. IInv => InstalledInPlace
  BY DEF IInv, Landed, InstalledInPlace
<1>3. IInv /\ IInv' => [NewcomerSurvives /\ InstalledInPlace']_vars
  <2>1. IInv' => InstalledInPlace'
    BY <1>2, PTL
  <2> QED
    BY <1>1, <2>1
<1> QED
  BY <1>3, Invariance, PTL DEF InstallLosesNothing
=============================================================================
