-------------------------------- MODULE Prober --------------------------------
(***************************************************************************)
(* Storage::probe after Storage::activate: the passes of Prober            *)
(* (storage/Prober.cc) that make a device graph of what the commands       *)
(* report.  Devices can be on each other in any order, a holder whose      *)
(* lower device is not known yet waits in a list, and every error is       *)
(* handed to the callback, which goes on or aborts.                        *)
(*                                                                         *)
(* The system is quiet while it is probed.  Left out: a failing scan of    *)
(* /sys/block, stray block devices and DASDs, which are like disks, DM     *)
(* RAIDs (like multipath), plain encryption and BitLocker (like LUKS), and *)
(* NFS and tmpfs, which are on nothing.                                    *)
(***************************************************************************)
EXTENDS Activation, Sequences

CONSTANTS Disk, Multipath, Md, Bcache, Cset, Pv, Vg, Table, Partition,
          Filesystem,  \* on one device, Btrfs apart
          Btrfs,       \* on any number of devices
          Beneath,     \* Beneath[d]: the devices d is on, {} for disks
          Mirrors,     \* <<x, y>>: the content of y is found on x too, which is
                       \* a path of a multipath or a member of a RAID
          Listing,     \* the devices in the order of sysfs and the commands
          MaxFaults    \* bound of the commands and files that fail

Partitionable == Disk \cup Multipath \cup Md \cup Bcache
BlkDevice == Partitionable \cup Partition \cup Lv \cup Luks
Everything == BlkDevice \cup Cset \cup Pv \cup Vg \cup Table \cup Filesystem \cup Btrfs

\* The LUKSes and logical volumes that have to be active for a device.
Base[d \in Everything] ==
  UNION {IF b \in Device THEN {b} ELSE Base[b] : b \in Beneath[d]}

\* A device and all that is beneath it.
Cone[d \in Everything] == {d} \cup UNION {Cone[b] : b \in Beneath[d]}

ASSUME ProberAssumption ==
  /\ Beneath \in [Everything -> SUBSET Everything]
  /\ \A d \in Device : On[d] = Base[d]
  /\ Mirrors \subseteq Partitionable \X Partitionable
  /\ Listing \in Seq(Everything) /\ \A d \in Everything : \E i \in DOMAIN Listing : Listing[i] = d
  /\ MaxFaults \in Nat

Classes == <<Disk, Multipath, Md, Bcache, Cset, Pv, Vg, Table, Partition, Lv, Luks, Filesystem, Btrfs>>

\* What can be on what.  A device has one user at most, a partition table being the
\* user of its device; and a LUKS is not directly on another one, which would
\* not be found: Luks::Impl::probe_lukses looks at the devices known before.
ASSUME StackAssumption ==
  /\ \A i, j \in DOMAIN Classes : i # j => Classes[i] \cap Classes[j] = {}
  /\ \A d \in Disk : Beneath[d] = {}
  /\ \A d \in Multipath : Beneath[d] \subseteq Disk
  /\ \A d \in Md \cup Cset \cup Pv : Beneath[d] \subseteq BlkDevice
  /\ \A d \in Bcache : Beneath[d] \subseteq BlkDevice \cup Cset
  /\ \A d \in Vg : Beneath[d] \subseteq Pv /\ Beneath[d] # {}
  /\ \A d \in Lv : \E v \in Vg : Beneath[d] = {v}
  /\ \A d \in Table : \E x \in Partitionable : Beneath[d] = {x}
  /\ \A d \in Partition : \E t \in Table : Beneath[d] = {t}
  /\ \A d \in Luks : \E x \in BlkDevice \ Luks : Beneath[d] = {x}
  /\ \A d \in Filesystem : \E x \in BlkDevice : Beneath[d] = {x}
  /\ \A d \in Btrfs : Beneath[d] \subseteq BlkDevice /\ Beneath[d] # {}
  /\ \A x \in BlkDevice \cup Pv : \A d, e \in Everything : x \in Beneath[d] \cap Beneath[e] => d = e
  /\ \A m \in Mirrors : m[2] \in Multipath \cup Md /\ m[1] \in Beneath[m[2]]

VARIABLES
  pass,        \* "idle", a pass, "done" or "failed"
  reported,    \* the devices in the output of the commands, which SystemInfo keeps
  forward,     \* they are listed as in Listing or the other way round
  visit,       \* what the loop of the pass has still to visit
  known,       \* the devices of the device graph
  holders,     \* its edges
  pending,     \* pending_holders: the device that is named, and the edge
  named,       \* devices whose name in sysfs was found
  sized,       \* devices whose size was found
  roles,       \* MD RAIDs whose devices got their sort keys
  complaints,  \* history: what errors were about, a device or a whole pass
  faults

proberVars == <<pass, reported, forward, visit, known, holders, pending, named, sized, roles,
                complaints, faults>>

-----------------------------------------------------------------------------
(* What the commands report.                                               *)

There(d) == Base[d] \subseteq active

\* A volume group is reported if one of its physical volumes is there, with all
\* its physical volumes, some as missing, and all its logical volumes.
Reported ==
  LET vgs == {v \in Vg : \E pv \in Beneath[v] : There(pv)}
  IN  {d \in Everything \ (Vg \cup Pv \cup Lv) : There(d)}
      \cup vgs \cup {pv \in Pv : There(pv) \/ \E v \in vgs : pv \in Beneath[v]}
      \cup {lv \in Lv : Beneath[lv] \subseteq vgs}

\* The devices named as those d is on; a missing physical volume has none.
Named(d) == IF d \in Pv /\ ~ There(d) THEN {} ELSE Beneath[d]

\* blkid and parted look at the content.
SeenOn(x) == {d \in reported \cap (Table \cup Luks \cup Filesystem) :
                Beneath[d] \cap ({x} \cup {m[2] : m \in {p \in Mirrors : p[1] = x}}) # {}}

-----------------------------------------------------------------------------

ProberInit == /\ Init
              /\ pass = "idle"
              /\ reported = {}
              /\ forward = TRUE
              /\ visit = {}
              /\ known = {}
              /\ holders = {}
              /\ pending = {}
              /\ named = {}
              /\ sized = {}
              /\ roles = {}
              /\ complaints = {}
              /\ faults = 0

\* The devices of a step of pass 1a.
Kind == [disk |-> Disk, multipath |-> Multipath, md |-> Md, vg |-> Vg, pv |-> Pv, lv |-> Lv,
         bcache |-> Bcache, cset |-> Cset]

Passes == <<"disk", "multipath", "md", "vg", "pv", "lv", "bcache", "cset",
            "holders", "partitions", "luks", "flush", "roles", "filesystems", "btrfs">>

ASSUME PassAssumption == Everything \cap {Passes[i] : i \in DOMAIN Passes} = {}

After(p) == LET i == CHOOSE i \in DOMAIN Passes : Passes[i] = p
            IN  IF i = Len(Passes) THEN "done" ELSE Passes[i + 1]

\* Devices the function of the pass does something with.
ToVisit(p) ==
  CASE p \in DOMAIN Kind -> Kind[p] \cap reported
    [] p = "holders" -> known \cap (Multipath \cup Md \cup Pv \cup Bcache \cup Cset)
    [] p = "partitions" -> known \cap Partitionable
    [] p = "luks" -> {x \in known \cap BlkDevice : SeenOn(x) \cap Luks # {}}
    [] p = "flush" -> pending
    [] p = "roles" -> known \cap Md
    [] p = "filesystems" -> {x \in known \cap BlkDevice : SeenOn(x) \cap Filesystem # {}}
    [] p = "btrfs" -> Btrfs \cap reported
    [] OTHER -> {}

Enter(p) == pass' = p /\ visit' = ToVisit(p)

\* The program ends or is killed, and another one is started: what is active stays.
Fresh == /\ at = "idle"
         /\ cached = [u \in Uuids |-> NotAsked]
         /\ {errors, calls, round, before} = {0}
         /\ ~ again /\ status = {} /\ todo = {} /\ attempt = 1

Restart == /\ ~ Fresh
           /\ at' = "idle"
           /\ cached' = [u \in Uuids |-> NotAsked]
           /\ errors' = 0 /\ calls' = 0 /\ round' = 0 /\ before' = 0
           /\ again' = FALSE /\ status' = {} /\ todo' = {} /\ attempt' = 1
           /\ UNCHANGED active

\* Storage::Impl::probe: the old device graphs go, Prober starts.  What the program
\* did before makes no difference to it.
ProbeBegin == /\ Fresh
              /\ pass = "idle"
              /\ reported' = Reported
              /\ forward' \in BOOLEAN
              /\ pass' = "disk"
              /\ visit' = Disk
              /\ UNCHANGED <<known, holders, pending, named, sized, roles, complaints, faults>>

\* The loop of a pass is over.
NextPass == /\ pass \in {Passes[i] : i \in DOMAIN Passes}
            /\ visit = {}
            /\ Enter(After(pass))
            /\ pending' = IF pass = "flush" THEN {} ELSE pending
            /\ UNCHANGED <<known, holders, named, sized, roles, complaints, faults>>

Rank == [d \in Everything |-> CHOOSE i \in DOMAIN Listing : Listing[i] = d]

\* The next device of the loop.
Turn(d) == /\ d \in visit
           /\ \A x \in visit : IF forward THEN Rank[d] <= Rank[x] ELSE Rank[x] <= Rank[d]

Visiting(p, d) == pass = p /\ Turn(d)

Continue(d) == pass' = pass /\ visit' = visit \ {d}

\* Mutant of HandleDevice: an exception ends the loop.
HandleDeviceEnds(d) == /\ complaints' = complaints \cup {d}
                       /\ \/ Enter(After(pass))
                          \/ pass' = "failed" /\ visit' = {}

\* Prober::handle in the loop: d is left, unless the callback aborts.
HandleDevice(d) == /\ complaints' = complaints \cup {d}
                   /\ \/ Continue(d)
                      \/ pass' = "failed" /\ visit' = {}

\* Prober::handle around the loop: the rest of the pass, or of LVM, is left out.
HandlePass == /\ complaints' = complaints \cup {pass}
              /\ \/ Enter(IF pass \in {"vg", "pv", "lv"} THEN "bcache" ELSE After(pass))
                 \/ pass' = "failed" /\ visit' = {}

Fault == faults < MaxFaults /\ faults' = faults + 1

has_children(x) == \E e \in holders : e[1] = x
is_active(x) == x \in Device => x \in active

-----------------------------------------------------------------------------
(* Pass 1a                                                                 *)

\* Edges made along with the device.
PvEdges(d) == {<<d, v>> : v \in {w \in Vg : d \in Beneath[w]}}
LvEdges(d) == {<<v, d>> : v \in Beneath[d]}
Edges1a(d) == CASE d \in Pv -> PvEdges(d)
                [] d \in Lv -> LvEdges(d)
                [] OTHER -> {}

Create(d) == /\ pass \in DOMAIN Kind
             /\ Turn(d)
             /\ known' = known \cup {d}
             /\ holders' = holders \cup Edges1a(d)
             /\ named' = named \cup {d}
             /\ sized' = sized \cup {d}
             /\ Continue(d)
             /\ UNCHANGED <<pending, roles, complaints, faults>>

\* The functions for disks, MD RAIDs and bcaches catch the error of a device,
\* which stays in the graph, if it was created, with what was found before.
CreateFails(d) ==
  /\ pass \in {"disk", "md", "bcache"}
  /\ Turn(d)
  /\ Fault
  /\ \/ pass # "disk" /\ UNCHANGED <<known, named, sized>>
     \/ known' = known \cup {d} /\ UNCHANGED <<named, sized>>
     \/ /\ known' = known \cup {d}
        /\ named' = named \cup {d}
        /\ sized' \in {sized, sized \cup {d}}
  /\ HandleDevice(d)
  /\ UNCHANGED <<holders, pending, roles>>

\* The others do not; the device created last may stay.
CreateAllFails ==
  /\ pass \in {"multipath", "vg", "pv", "lv", "cset"}
  /\ Fault
  /\ \/ \E d \in visit : Turn(d) /\ known' = known \cup {d} /\ holders' = holders \cup Edges1a(d)
     \/ UNCHANGED <<known, holders>>
  /\ HandlePass
  /\ UNCHANGED <<pending, named, sized, roles>>

-----------------------------------------------------------------------------
(* Pass 1b                                                                 *)

\* The calls of add_holder for d: the device that is named, and the edge.
Users(d, S) == {[name |-> x, edge |-> <<x, d>>] : x \in S}
BcacheCalls(d) == Users(d, Named(d) \ Cset)
CsetCalls(d) == Users(d, Named(d))
                \cup {[name |-> b, edge |-> <<d, b>>] : b \in {x \in Bcache \cap reported : d \in Beneath[x]}}
Calls(d) == CASE d \in Bcache -> BcacheCalls(d)
              [] d \in Cset -> CsetCalls(d)
              [] OTHER -> Users(d, Named(d))

\* Prober::add_holder
AddHolders(asked) ==
  /\ holders' = holders \cup {c.edge : c \in {x \in asked : x.name \in known}}
  /\ pending' = pending \cup {c \in asked : c.name \notin known}

\* MD RAIDs and bcaches are looked up by their name in sysfs; a multipath does
\* not wait for its devices.
CanProbe1b(d) == /\ d \in Md \cup Bcache => d \in named
                 /\ d \in Multipath => Beneath[d] \subseteq known

ProbePass1b(d) == /\ Visiting("holders", d)
                  /\ CanProbe1b(d)
                  /\ AddHolders(Calls(d))
                  /\ Continue(d)
                  /\ UNCHANGED <<known, named, sized, roles, complaints, faults>>

\* The error of one device ends the loop.
Pass1bFails(d) ==
  /\ Visiting("holders", d)
  /\ \/ Fault
     \/ ~ CanProbe1b(d) /\ UNCHANGED faults
  /\ \E asked \in SUBSET Calls(d) :
        /\ asked # Calls(d)
        /\ d \in Multipath => \A c \in asked : c.name \in known
        /\ AddHolders(asked)
  /\ HandlePass
  /\ UNCHANGED <<known, named, sized, roles>>

-----------------------------------------------------------------------------
(* Pass 1c                                                                 *)

\* Mutant of MayHavePartitions: what uses the device does not matter.
MayHavePartitionsAnyway(x) == is_active(x) /\ x \in sized

MayHavePartitions(x) == ~ has_children(x) /\ is_active(x) /\ x \in sized

PartitionsOf(t) == {p \in Partition : t \in Beneath[p]}

\* Table t and partitions S are found on x.
AddPartitions(x, t, S) == /\ known' = known \cup {t} \cup S
                          /\ holders' = holders \cup {<<x, t>>} \cup {<<t, p>> : p \in S}
                          /\ named' = named \cup S
                          /\ sized' = sized \cup S

ProbePass1c(x) ==
  /\ Visiting("partitions", x)
  /\ IF MayHavePartitions(x) /\ SeenOn(x) \cap Table # {}
     THEN \E t \in SeenOn(x) \cap Table : AddPartitions(x, t, PartitionsOf(t))
     ELSE UNCHANGED <<known, holders, named, sized>>
  /\ Continue(x)
  /\ UNCHANGED <<pending, roles, complaints, faults>>

\* parted fails, or something about a partition is not found.
Pass1cFails(x) ==
  /\ Visiting("partitions", x)
  /\ MayHavePartitions(x)
  /\ Fault
  /\ \/ UNCHANGED <<known, holders, named, sized>>
     \/ \E t \in SeenOn(x) \cap Table : \E S \in SUBSET PartitionsOf(t) : AddPartitions(x, t, S)
  /\ HandleDevice(x)
  /\ UNCHANGED <<pending, roles>>

-----------------------------------------------------------------------------
(* Passes 1d to 2                                                          *)

AddOn(x, S) == /\ known' = known \cup S
               /\ holders' = holders \cup {<<x, d>> : d \in S}

\* What is on x is added if nothing is known to use x.
AddSeen(x, S) == IF has_children(x) \/ ~ is_active(x)
                 THEN UNCHANGED <<known, holders>>
                 ELSE AddOn(x, S)

\* Luks::Impl::probe_lukses, the body of the loop.
ProbeLuks(x) == /\ Visiting("luks", x)
                /\ AddSeen(x, SeenOn(x) \cap Luks)
                /\ Continue(x)
                /\ UNCHANGED <<pending, named, sized, roles, complaints, faults>>

\* Something about the LUKS is not found: it may be in the graph already, on its
\* device or on nothing, and the loop ends.
LuksFails(x) == /\ Visiting("luks", x)
                /\ ~ has_children(x)
                /\ is_active(x)
                /\ Fault
                /\ \/ AddOn(x, SeenOn(x) \cap Luks)
                   \/ /\ known' \in {known, known \cup (SeenOn(x) \cap Luks)}
                      /\ UNCHANGED holders
                /\ HandlePass
                /\ UNCHANGED <<pending, named, sized, roles>>

\* Prober::flush_pending_holders: the error is handled and the next one is tried.
FlushPending(c) ==
  /\ pass = "flush"
  /\ c \in visit
  /\ IF c.name \in known
     THEN /\ holders' = holders \cup {c.edge}
          /\ Continue(c)
          /\ UNCHANGED complaints
     ELSE /\ complaints' = complaints \cup {c.edge[2]}
          /\ \/ Continue(c)
             \/ pass' = "failed" /\ visit' = {}
          /\ UNCHANGED holders
  /\ UNCHANGED <<known, pending, named, sized, roles, faults>>

\* Md::Impl::probe_pass_1f: all devices mdadm tells the roles of have to be known.
ProbeRoles(m) ==
  /\ Visiting("roles", m)
  /\ Beneath[m] \subseteq known
  /\ roles' = roles \cup {m}
  /\ Continue(m)
  /\ UNCHANGED <<known, holders, pending, named, sized, complaints, faults>>

RolesFail(m) == /\ Visiting("roles", m)
                /\ \/ Fault
                   \/ ~ Beneath[m] \subseteq known /\ UNCHANGED faults
                /\ HandlePass
                /\ UNCHANGED <<known, holders, pending, named, sized, roles>>

\* BlkFilesystem::Impl::probe_blk_filesystems, the body of the loop; if details of
\* the filesystem are not found, it stays.
ProbeFilesystem(x) ==
  /\ Visiting("filesystems", x)
  /\ AddSeen(x, SeenOn(x) \cap Filesystem)
  /\ \/ Continue(x) /\ UNCHANGED <<complaints, faults>>
     \/ ~ has_children(x) /\ is_active(x) /\ Fault /\ HandleDevice(x)
  /\ UNCHANGED <<pending, named, sized, roles>>

\* Btrfs::Impl::probe_btrfses, the body of the loop: all devices are looked up
\* before the filesystem is made on one of them, which has to be unused.
ProbeBtrfs(f) ==
  /\ Visiting("btrfs", f)
  /\ Beneath[f] \subseteq known
  /\ \E x \in Beneath[f] : ~ has_children(x)
  /\ known' = known \cup {f}
  /\ holders' = holders \cup {<<x, f>> : x \in Beneath[f]}
  /\ \/ Continue(f) /\ UNCHANGED <<complaints, faults>>
     \/ Fault /\ HandleDevice(f)
  /\ UNCHANGED <<pending, named, sized, roles>>

BtrfsFails(f) ==
  /\ Visiting("btrfs", f)
  /\ Beneath[f] \subseteq known => \E x \in Beneath[f] : has_children(x)
  /\ HandleDevice(f)
  /\ UNCHANGED <<known, holders, pending, named, sized, roles, faults>>

\* The next probe starts from nothing again.
Forget == /\ pass \in {"done", "failed"}
          /\ pass' = "idle"
          /\ reported' = {}
          /\ forward' = TRUE
          /\ visit' = {}
          /\ known' = {}
          /\ holders' = {}
          /\ pending' = {}
          /\ named' = {}
          /\ sized' = {}
          /\ roles' = {}
          /\ complaints' = {}
          /\ faults' = 0

\* The steps of the constructor of Prober.
PassStep == \/ NextPass \/ CreateAllFails
            \/ \E d \in visit : \/ Create(d) \/ CreateFails(d)
                              \/ ProbePass1b(d) \/ Pass1bFails(d)
                              \/ ProbePass1c(d) \/ Pass1cFails(d)
                              \/ ProbeLuks(d) \/ LuksFails(d)
                              \/ FlushPending(d)
                              \/ ProbeRoles(d) \/ RolesFail(d)
                              \/ ProbeFilesystem(d) \/ ProbeBtrfs(d) \/ BtrfsFails(d)

ProbeStep == ProbeBegin \/ Forget \/ (PassStep /\ UNCHANGED <<reported, forward>>)

ActivateStep == pass = "idle" /\ (Next \/ Restart) /\ UNCHANGED proberVars

\* The client activates, deactivates and probes as it likes.
ProberSpec == /\ ProberInit
              /\ [][ActivateStep \/ (ProbeStep /\ UNCHANGED vars)]_<<vars, proberVars>>
              /\ WF_vars(Step /\ UNCHANGED proberVars)

-----------------------------------------------------------------------------

\* The device graph there should be: the edge of a missing physical volume is not
\* known to anybody.
RealHolders == {e \in Everything \X Reported : e[1] \in Named(e[2])}

\* "No static probe order is possible. E.g. LUKS can be on LVM or vica versa"
\* (Prober.cc): whatever is active and in whatever order devices are listed, the
\* passes find every device and every relation, once, and complain about
\* nothing.  In particular, what the members of a RAID or the paths of a
\* multipath seem to have on them is not taken for theirs.
ProbedAsReal ==
  pass = "done" /\ faults = 0 =>
     known = Reported /\ holders = RealHolders /\ roles = Md \cap Reported /\ complaints = {}

Lost == (Reported \ known) \cup {e[2] : e \in RealHolders \ holders}

\* An error about a single device that is ignored costs only this device and what
\* is on it, whatever the passes after it run into; nothing else is lost, and
\* nothing is invented, except that a RAID that was not found leaves its content
\* to its members.  (An error that ends a pass can cost anything, and is reported
\* as such.)
ErrorsStayLocal ==
  pass = "done" /\ complaints \subseteq Everything =>
     /\ known \subseteq Reported
     /\ \A d \in Lost : Cone[d] \cap complaints # {}
     /\ \A e \in holders \ RealHolders :
           \E m \in Mirrors : m[1] = e[1] /\ m[2] \in complaints \ known
=============================================================================
