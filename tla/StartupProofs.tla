--------------------------- MODULE StartupProofs ---------------------------
(***************************************************************************)
(* Theorems about Startup: for any number of sandboxes that are created at *)
(* the same time, and every fault.                                         *)
(***************************************************************************)
EXTENDS Startup, TLAPS

Types ==
  /\ caller \in [Boxes -> {"new", "ok", "err", "panicked", "dropped"} \cup InStart]
  /\ mid \in [Boxes -> {"none", "started", "unshared", "parent", "returned", "exited"}]
  /\ zyg \in [Boxes -> {"none", "waiting", "setup", "serving", "dead"}]
  /\ holders \in [Ends \X Boxes -> SUBSET Procs]
  /\ sent \in [Boxes -> SUBSET {"pid", "done"}]
  /\ mapped \in [Boxes -> BOOLEAN]

\* The processes come one after the other, and each knows of the next only what
\* it was told.
Order(s) ==
  /\ caller[s] \in {"new", "open", "err"} => mid[s] = "none"
  /\ zyg[s] = "none" <=> mid[s] \in {"none", "started", "unshared", "returned"}
  /\ "pid" \in sent[s] => mid[s] = "exited"
  /\ caller[s] \in {"mapping", "notify", "ok", "dropped", "panicked"} => "pid" \in sent[s]
  /\ "done" \in sent[s] => caller[s] \in {"ok", "dropped"}
  /\ caller[s] \in {"notify", "ok", "dropped"} => mapped[s]
  /\ zyg[s] \in {"setup", "serving"} => "done" \in sent[s]

\* No pipe ends while somebody reads from it: the reader has the other end too.
Kept(s) ==
  /\ caller[s] \in InStart => \A e \in Ends : Host \in holders[<<e, s>>]
  /\ mid[s] \in {"started", "unshared"} => Mid(s) \in holders[<<"done", s>>]
  /\ zyg[s] = "waiting" => Zygote(s) \in holders[<<"done", s>>]

StartInv == Types /\ \A s \in Boxes : Order(s) /\ Kept(s)

LEMMA ProcsDiffer ==
  /\ \A s \in Boxes : Mid(s) # Host /\ Zygote(s) # Host
  /\ \A s, r \in Boxes : Mid(s) # Zygote(r)
  /\ \A s, r \in Boxes : /\ Mid(s) = Mid(r) => s = r
                         /\ Zygote(s) = Zygote(r) => s = r
  /\ \A s \in Boxes : Host \in Procs /\ Mid(s) \in Procs /\ Zygote(s) \in Procs
BY DEF Host, Mid, Zygote, Procs

LEMMA StartInvInit == Init => StartInv
BY DEF Init, StartInv, Types, Order, Kept, InStart, Ends

\* A fork gives the child all its parent has and takes nothing from anybody.
LEMMA InheritKeeps ==
  ASSUME Types, NEW p \in Procs, NEW c \in Procs, Inherit(p, c)
  PROVE  /\ holders' \in [Ends \X Boxes -> SUBSET Procs]
         /\ \A e \in Ends \X Boxes : holders[e] \subseteq holders'[e]
         /\ \A e \in Ends \X Boxes : p \in holders[e] => c \in holders'[e]
BY DEF Types, Inherit

\* Closing takes an end from one process only.
LEMMA CloseAllKeeps ==
  ASSUME Types, NEW p \in Procs, CloseAll(p)
  PROVE  /\ holders' \in [Ends \X Boxes -> SUBSET Procs]
         /\ \A e \in Ends, r \in Boxes, q \in Procs \ {p} :
              q \in holders[<<e, r>>] => q \in holders'[<<e, r>>]
BY DEF Types, CloseAll

LEMMA CloseOfKeeps ==
  ASSUME Types, NEW p \in Procs, NEW s \in Boxes, NEW ends \in SUBSET Ends, CloseOf(p, s, ends)
  PROVE  /\ holders' \in [Ends \X Boxes -> SUBSET Procs]
         /\ \A e \in Ends, r \in Boxes, q \in Procs \ {p} :
              q \in holders[<<e, r>>] => q \in holders'[<<e, r>>]
         /\ \A e \in Ends, r \in Boxes \ {s} : holders'[<<e, r>>] = holders[<<e, r>>]
BY DEF Types, CloseOf

\* The host.
LEMMA HostKeeps ==
  ASSUME StartInv, NEW s \in Boxes, OpenChannels(s) \/ HostStep(s) \/ DropInfo(s)
  PROVE  StartInv'
<1> USE DEF StartInv, Types, At, InStart
<1>1. CASE OpenChannels(s)
  <2>1. /\ holders' \in [Ends \X Boxes -> SUBSET Procs]
        /\ \A e \in Ends, r \in Boxes \ {s} : holders'[<<e, r>>] = holders[<<e, r>>]
        /\ \A e \in Ends : holders'[<<e, s>>] = {Host}
    BY <1>1, ProcsDiffer DEF OpenChannels
  <2>2. Types'
    BY <1>1, <2>1 DEF OpenChannels
  <2>3. ASSUME NEW r \in Boxes PROVE Order(r)'
    BY <1>1 DEF OpenChannels, Order
  <2>4. ASSUME NEW r \in Boxes PROVE Kept(r)'
    <3>1. CASE r = s
      BY <1>1, <2>1, <3>1 DEF OpenChannels, Order, Kept
    <3>2. CASE r # s
      BY <1>1, <2>1, <3>2 DEF OpenChannels, Kept, Ends
    <3> QED
      BY <3>1, <3>2
  <2> QED
    BY <2>2, <2>3, <2>4
<1>2. CASE ForkMid(s)
  <2>1. /\ holders' \in [Ends \X Boxes -> SUBSET Procs]
        /\ \A e \in Ends \X Boxes : holders[e] \subseteq holders'[e]
        /\ \A e \in Ends \X Boxes : Host \in holders[e] => Mid(s) \in holders'[e]
    BY <1>2, ProcsDiffer, InheritKeeps DEF ForkMid
  <2>2. Types'
    BY <1>2, <2>1 DEF ForkMid, Ends
  <2>3. ASSUME NEW r \in Boxes PROVE Order(r)'
    BY <1>2 DEF ForkMid, Ends, Order
  <2>4. ASSUME NEW r \in Boxes PROVE Kept(r)'
    BY <1>2, <2>1, ProcsDiffer DEF ForkMid, Ends, Order, Kept
  <2> QED
    BY <2>2, <2>3, <2>4
<1>3. CASE ForkMidFails(s)
  <2>1. /\ holders' \in [Ends \X Boxes -> SUBSET Procs]
        /\ \A e \in Ends, r \in Boxes, q \in Procs \ {Host} :
             q \in holders[<<e, r>>] => q \in holders'[<<e, r>>]
        /\ \A e \in Ends, r \in Boxes \ {s} : holders'[<<e, r>>] = holders[<<e, r>>]
    BY <1>3, ProcsDiffer, CloseOfKeeps DEF ForkMidFails
  <2>2. Types'
    BY <1>3, <2>1 DEF ForkMidFails, Ends
  <2>3. ASSUME NEW r \in Boxes PROVE Order(r)'
    BY <1>3 DEF ForkMidFails, Ends, Order
  <2>4. ASSUME NEW r \in Boxes PROVE Kept(r)'
    BY <1>3, <2>1, ProcsDiffer DEF ForkMidFails, Ends, Order, Kept
  <2> QED
    BY <2>2, <2>3, <2>4
<1>4. CASE ReadPid(s)
  <2>1. caller[s] = "reading"
    BY <1>4 DEF ReadPid
  <2>2. "pid" \in sent[s]
    BY <1>4, <2>1 DEF ReadPid, Readable, Kept, Ends
  <2>3. caller' = [caller EXCEPT ![s] = "mapping"]
        /\ UNCHANGED <<mid, zyg, holders, sent, mapped>>
    BY <1>4, <2>2 DEF ReadPid
  <2>4. ASSUME NEW r \in Boxes PROVE Order(r)' /\ Kept(r)'
    BY <2>1, <2>2, <2>3 DEF Order, Kept
  <2> QED
    BY <2>3, <2>4
<1>5. CASE WriteMaps(s)
  <2>1. Types'
    BY <1>5 DEF WriteMaps
  <2>2. ASSUME NEW r \in Boxes PROVE Order(r)' /\ Kept(r)'
    BY <1>5 DEF WriteMaps, Order, Kept
  <2> QED
    BY <2>1, <2>2
<1>6. CASE WriteMapsFails(s)
  <2>1. /\ holders' \in [Ends \X Boxes -> SUBSET Procs]
        /\ \A e \in Ends, r \in Boxes, q \in Procs \ {Host} :
             q \in holders[<<e, r>>] => q \in holders'[<<e, r>>]
        /\ \A e \in Ends, r \in Boxes \ {s} : holders'[<<e, r>>] = holders[<<e, r>>]
    BY <1>6, ProcsDiffer, CloseOfKeeps DEF WriteMapsFails
  <2>2. Types'
    BY <1>6, <2>1 DEF WriteMapsFails, Ends
  <2>3. ASSUME NEW r \in Boxes PROVE Order(r)'
    BY <1>6 DEF WriteMapsFails, Ends, Order
  <2>4. ASSUME NEW r \in Boxes PROVE Kept(r)'
    BY <1>6, <2>1, ProcsDiffer DEF WriteMapsFails, Ends, Order, Kept
  <2> QED
    BY <2>2, <2>3, <2>4
<1>7. CASE Notify(s)
  <2>1. /\ holders' \in [Ends \X Boxes -> SUBSET Procs]
        /\ \A e \in Ends, r \in Boxes, q \in Procs \ {Host} :
             q \in holders[<<e, r>>] => q \in holders'[<<e, r>>]
        /\ \A e \in Ends, r \in Boxes \ {s} : holders'[<<e, r>>] = holders[<<e, r>>]
    BY <1>7, ProcsDiffer, CloseOfKeeps DEF Notify, Ends
  <2>2. Types'
    BY <1>7, <2>1 DEF Notify, Ends
  <2>3. ASSUME NEW r \in Boxes PROVE Order(r)'
    BY <1>7 DEF Notify, Ends, Order
  <2>4. ASSUME NEW r \in Boxes PROVE Kept(r)'
    BY <1>7, <2>1, ProcsDiffer DEF Notify, Ends, Order, Kept
  <2> QED
    BY <2>2, <2>3, <2>4
<1>8. CASE DropInfo(s)
  <2>1. /\ holders' \in [Ends \X Boxes -> SUBSET Procs]
        /\ \A e \in Ends, r \in Boxes, q \in Procs \ {Host} :
             q \in holders[<<e, r>>] => q \in holders'[<<e, r>>]
        /\ \A e \in Ends, r \in Boxes \ {s} : holders'[<<e, r>>] = holders[<<e, r>>]
    BY <1>8, ProcsDiffer, CloseOfKeeps DEF DropInfo, Ends
  <2>2. Types'
    BY <1>8, <2>1 DEF DropInfo, Ends
  <2>3. ASSUME NEW r \in Boxes PROVE Order(r)'
    BY <1>8 DEF DropInfo, Ends, Order
  <2>4. ASSUME NEW r \in Boxes PROVE Kept(r)'
    BY <1>8, <2>1, ProcsDiffer DEF DropInfo, Ends, Order, Kept
  <2> QED
    BY <2>2, <2>3, <2>4
<1> QED
  BY <1>1, <1>2, <1>3, <1>4, <1>5, <1>6, <1>7, <1>8 DEF HostStep

\* The intermediate process.
LEMMA MidKeeps ==
  ASSUME StartInv, NEW s \in Boxes, MidStep(s)
  PROVE  StartInv'
<1> USE DEF StartInv, Types, InStart
<1>1. CASE Unshare(s)
  <2>1. Types'
    BY <1>1 DEF Unshare
  <2>2. ASSUME NEW r \in Boxes PROVE Order(r)' /\ Kept(r)'
    BY <1>1 DEF Unshare, Order, Kept
  <2> QED
    BY <2>1, <2>2
<1>2. CASE MidReturns(s)
  <2>1. /\ holders' \in [Ends \X Boxes -> SUBSET Procs]
        /\ \A e \in Ends, r \in Boxes, q \in Procs \ {Mid(s)} :
             q \in holders[<<e, r>>] => q \in holders'[<<e, r>>]
    BY <1>2, ProcsDiffer, CloseOfKeeps DEF MidReturns
  <2>2. Types'
    BY <1>2, <2>1 DEF MidReturns, Ends
  <2>3. ASSUME NEW r \in Boxes PROVE Order(r)'
    BY <1>2 DEF MidReturns, Ends, Order
  <2>4. ASSUME NEW r \in Boxes PROVE Kept(r)'
    BY <1>2, <2>1, ProcsDiffer DEF MidReturns, Ends, Order, Kept
  <2> QED
    BY <2>2, <2>3, <2>4
<1>3. CASE ForkZygote(s)
  <2>1. /\ holders' \in [Ends \X Boxes -> SUBSET Procs]
        /\ \A e \in Ends \X Boxes : holders[e] \subseteq holders'[e]
        /\ \A e \in Ends \X Boxes : Mid(s) \in holders[e] => Zygote(s) \in holders'[e]
    BY <1>3, ProcsDiffer, InheritKeeps DEF ForkZygote
  <2>2. Types'
    BY <1>3, <2>1 DEF ForkZygote, Ends
  <2>3. ASSUME NEW r \in Boxes PROVE Order(r)'
    BY <1>3 DEF ForkZygote, Ends, Order
  <2>4. ASSUME NEW r \in Boxes PROVE Kept(r)'
    BY <1>3, <2>1, ProcsDiffer DEF ForkZygote, Ends, Order, Kept
  <2> QED
    BY <2>2, <2>3, <2>4
<1>4. CASE SendPid(s)
  <2>1. /\ holders' \in [Ends \X Boxes -> SUBSET Procs]
        /\ \A e \in Ends, r \in Boxes, q \in Procs \ {Mid(s)} :
             q \in holders[<<e, r>>] => q \in holders'[<<e, r>>]
    BY <1>4, ProcsDiffer, CloseAllKeeps DEF SendPid
  <2>2. Types'
    BY <1>4, <2>1 DEF SendPid, Ends
  <2>3. ASSUME NEW r \in Boxes PROVE Order(r)'
    BY <1>4 DEF SendPid, Ends, Order
  <2>4. ASSUME NEW r \in Boxes PROVE Kept(r)'
    BY <1>4, <2>1, ProcsDiffer DEF SendPid, Ends, Order, Kept
  <2> QED
    BY <2>2, <2>3, <2>4
<1> QED
  BY <1>1, <1>2, <1>3, <1>4 DEF MidStep

\* The zygote.
LEMMA ZygoteKeeps ==
  ASSUME StartInv, NEW s \in Boxes, ZygoteStep(s)
  PROVE  StartInv'
<1> USE DEF StartInv, Types, InStart
<1>1. CASE ReadDone(s)
  <2>1. zyg[s] = "waiting" /\ "done" \in sent[s]
    BY <1>1 DEF ReadDone, Readable, Kept, Ends
  <2>2. ASSUME NEW r \in Boxes PROVE Order(r)' /\ Kept(r)'
    BY <1>1, <2>1 DEF ReadDone, Order, Kept
  <2>3. Types'
    BY <1>1 DEF ReadDone
  <2> QED
    BY <2>2, <2>3
<1>2. CASE SetUp(s)
  <2>1. Types'
    BY <1>2 DEF SetUp
  <2>2. ASSUME NEW r \in Boxes PROVE Order(r)' /\ Kept(r)'
    BY <1>2 DEF SetUp, Order, Kept
  <2> QED
    BY <2>1, <2>2
<1>3. CASE ZygoteExits(s)
  <2>1. /\ holders' \in [Ends \X Boxes -> SUBSET Procs]
        /\ \A e \in Ends, r \in Boxes, q \in Procs \ {Zygote(s)} :
             q \in holders[<<e, r>>] => q \in holders'[<<e, r>>]
    BY <1>3, ProcsDiffer, CloseAllKeeps DEF ZygoteExits
  <2>2. Types'
    BY <1>3, <2>1 DEF ZygoteExits, Ends
  <2>3. ASSUME NEW r \in Boxes PROVE Order(r)'
    BY <1>3 DEF ZygoteExits, Ends, Order
  <2>4. ASSUME NEW r \in Boxes PROVE Kept(r)'
    BY <1>3, <2>1, ProcsDiffer DEF ZygoteExits, Ends, Order, Kept
  <2> QED
    BY <2>2, <2>3, <2>4
<1> QED
  BY <1>1, <1>2, <1>3 DEF ZygoteStep

LEMMA StartInvNext == StartInv /\ [Next]_vars => StartInv'
<1> SUFFICES ASSUME StartInv, [Next]_vars PROVE StartInv'
  OBVIOUS
<1>1. CASE UNCHANGED vars
  BY <1>1 DEF vars, StartInv, Types, Order, Kept
<1> QED
  BY <1>1, HostKeeps, MidKeeps, ZygoteKeeps DEF Next, Settled

\* Whatever fails and however creations overlap, a zygote sets the jail up only
\* after its maps were written.  It keeps the writing end of the pipe it waits on,
\* so that a host that panics leaves it waiting: the end of that pipe would be
\* taken for the message.
THEOREM MappedBeforeSetupHolds == Spec => []MappedBeforeSetup
<1>1. StartInv => MappedBeforeSetup
  BY DEF StartInv, Types, Order, MappedBeforeSetup
<1> QED
  BY StartInvInit, StartInvNext, <1>1, PTL DEF Spec

\* What start_zygote tells its caller is true: this is what the one step of
\* Sandboxes that starts a zygote, or fails to, relies on.
THEOREM OutcomesHold == Spec => []Outcomes
<1>1. StartInv => Outcomes
  BY DEF StartInv, Types, Order, Outcomes
<1> QED
  BY StartInvInit, StartInvNext, <1>1, PTL DEF Spec
=============================================================================
