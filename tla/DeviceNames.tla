---------------------------- MODULE DeviceNames ----------------------------
(***************************************************************************)
(* The paths that lvbackup/lvmutil/lvmutil.go makes of names, and those    *)
(* under which the device mapper has the devices.  Of a name only its      *)
(* hyphens matter: it is a sequence of these and of what is between them,  *)
(* and a path is what follows /dev/mapper/.                                *)
(***************************************************************************)
EXTENDS Integers, Sequences, FiniteSets

LvDevicePath(vgname, lvname) == vgname \o <<"-">> \o lvname

TPoolDevicePath(vgname, poolname) == vgname \o <<"-">> \o poolname \o <<"-", "tpool">>

\* LVM takes no name that begins with a hyphen.
Name == {n \in Seq(STRING) : n # <<>> /\ n[1] # "-"}

\* The device mapper doubles the hyphens of a name, to tell them from its own: where
\* the k-th part of the name comes to stand, behind the hyphens before it.
Place(name, k) == k + Cardinality({l \in 1..(k-1) : name[l] = "-"})

Doubled(name) ==
  [m \in 1..(Place(name, Len(name) + 1) - 1) |->
     name[CHOOSE k \in 1..Len(name) : m \in Place(name, k)..(Place(name, k+1) - 1)]]

DmLv(vgname, lvname) == Doubled(vgname) \o <<"-">> \o Doubled(lvname)

DmTPool(vgname, poolname) == DmLv(vgname, poolname) \o <<"-", "tpool">>

TwoHyphens(name) == \E k \in 1..(Len(name) - 1) : name[k] = "-" /\ name[k+1] = "-"

=============================================================================
