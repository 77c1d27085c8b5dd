------------------------------- MODULE PtyProofs -------------------------------
(***************************************************************************)
(* Proofs about Pty for any number of concurrent calls: no call leaves a   *)
(* descriptor behind, on any number of worker threads.                     *)
(***************************************************************************)
EXTENDS Pty, TLAPS

Places == { "ready", "master", "unlocked", "naming", "named", "copied", "slave",
            "returned", "sent", "closed", "failed", "leaked" }

PtyTypeOK ==
    /\ at     \in [Calls -> Places]
    /\ worker \in [Workers -> Calls \cup {NoCall}]
    /\ name   \in [Calls -> Calls \cup {NoCall}]
    /\ slave  \in [Calls -> Calls \cup {NoCall}]
    /\ buffer \in Calls \cup {NoCall}
    /\ unlocked \subseteq Calls

(* There is a slave only from its open on, and a master only until its drop. *)
DescriptorInv ==
    \A c \in Calls :
        /\ at[c] \in {"ready", "closed", "failed", "leaked"} => Master(c) \notin fds
        /\ at[c] \notin {"slave", "returned", "leaked"} => Slave(c) \notin fds

(* The steps that move one call do so by Goto or by Release. *)
CallStep(c) ==
    \/ Unlock(c) \/ NameBegins(c) \/ NameEnds(c) \/ CopyName(c)
    \/ OpenSlave(c) \/ ReturnPair(c) \/ Fails(c) \/ WinsizeFails(c)
    \/ DropSlave(c) \/ DropMaster(c)

(* The state is well formed, whatever the interleaving of the threads. *)
LEMMA PtyTypeStep == PtyTypeOK /\ [Next]_vars => PtyTypeOK'
  <1> SUFFICES ASSUME PtyTypeOK, [Next]_vars PROVE PtyTypeOK' OBVIOUS
  <1> USE CallAssumption DEF PtyTypeOK, Places
  <1>1. ASSUME NEW w \in Workers, NEW c \in Calls, OpenMaster(w, c) PROVE PtyTypeOK'
    BY <1>1 DEF OpenMaster
  <1>2. ASSUME NEW c \in Calls, CopyName(c) PROVE PtyTypeOK'
    <2>1. name' \in [Calls -> Calls \cup {NoCall}] BY <1>2 DEF CopyName
    <2> QED BY <1>2, <2>1 DEF CopyName, Goto
  <1>3. ASSUME NEW c \in Calls, CallStep(c), ~CopyName(c) PROVE PtyTypeOK'
    BY <1>3 DEF CallStep, Unlock, NameBegins, NameEnds, OpenSlave, ReturnPair,
       Fails, WinsizeFails, DropSlave, DropMaster, Goto, Release
  <1>4. CASE UNCHANGED vars BY <1>4 DEF vars
  <1> QED BY <1>1, <1>2, <1>3, <1>4 DEF Next, CallStep, Finished

(* A step touches the descriptors of one call only. *)
LEMMA DescriptorStep == PtyTypeOK /\ DescriptorInv /\ [Next]_vars => DescriptorInv'
  <1> SUFFICES ASSUME PtyTypeOK, DescriptorInv, [Next]_vars PROVE DescriptorInv' OBVIOUS
  <1>1. \A c, d \in Calls : /\ Master(c) = Master(d) <=> c = d
                            /\ Slave(c) = Slave(d) <=> c = d
                            /\ Master(c) # Slave(d)
    BY DEF Master, Slave
  <1> USE <1>1 DEF PtyTypeOK, DescriptorInv
  <1>2. ASSUME NEW w \in Workers, NEW c \in Calls, OpenMaster(w, c)
        PROVE  DescriptorInv'
    BY <1>2 DEF OpenMaster
  <1>3. ASSUME NEW c \in Calls, CallStep(c) PROVE DescriptorInv'
    BY <1>3 DEF CallStep, Unlock, NameBegins, NameEnds, CopyName, OpenSlave,
       ReturnPair, Fails, WinsizeFails, DropSlave, DropMaster, Goto, Release
  <1>4. CASE UNCHANGED vars BY <1>4 DEF vars
  <1> QED BY <1>2, <1>3, <1>4 DEF Next, CallStep, Finished

(***************************************************************************)
(* A call that is over holds no descriptor, for any number of calls and    *)
(* worker threads, except for the slave that a failing TIOCSWINSZ leaves   *)
(* (error paths of open_pty, drops in supervisor::run).                    *)
(***************************************************************************)
THEOREM DescriptorsAreClosed == Spec => []NoStrayDescriptors
  <1>1. Init => PtyTypeOK /\ DescriptorInv
    BY DEF Init, PtyTypeOK, Places, DescriptorInv
  <1>2. DescriptorInv => NoStrayDescriptors
    BY DEF DescriptorInv, NoStrayDescriptors
  <1> QED BY <1>1, <1>2, PtyTypeStep, DescriptorStep, PTL DEF Spec

===============================================================================
