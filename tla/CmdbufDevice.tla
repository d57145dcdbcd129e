----------------------------- MODULE CmdbufDevice -----------------------------
(***************************************************************************)
(* The cmodel command-buffer device of src/cmodel: CModelCmdbuf180x and    *)
(* CModelCmdbuf183x derive from CModelCmdbuf and override its virtual     *)
(* rt_device_open (public) and enable_interrupt and set_eod (protected),   *)
(* and give it an overriding, hence virtual, destructor.  One object of    *)
(* one chip variant (the constant Chip) stands behind the runtime handle:  *)
(* a single interface whose implementation is the variant's.               *)
(*                                                                         *)
(* C++ fixes what runs when: construction runs the base constructor, then  *)
(* the variant's; destruction through a CModelCmdbuf pointer runs the      *)
(* variant's destructor, then the base's; and while the base part is      *)
(* being built or torn down the dynamic type is CModelCmdbuf, so a        *)
(* virtual call then reaches the base's implementation, not the variant's. *)
(* The bodies of the methods (cmodel_cmdbuf.h and its sources) are not     *)
(* part of src/: rt_device_open either opens the device with the index it  *)
(* is given or fails, and enable_interrupt and set_eod are recorded as the *)
(* implementation that ran.                                                *)
(***************************************************************************)
CONSTANTS
  Chip,      \* the class of the object: one of Variants
  NULL       \* a null bmdev_t

\* The two chip variants, and their base class.
Variants == {"CModelCmdbuf180x", "CModelCmdbuf183x"}

Base == "CModelCmdbuf"

\* The virtual methods the variants override.
Overrides == {"rt_device_open", "enable_interrupt", "set_eod"}

VARIABLES
  phase,   \* "none", "base_ctor", "live", "base_dtor" or "gone"
  dev,     \* the bmdev_t rt_device_open returned, or NULL
  ran      \* history: the implementations <<class, method>> that ran

vars == <<phase, dev, ran>>

\* The class whose implementation a virtual call reaches.
DynType == IF phase = "live" THEN Chip ELSE Base

\* A virtual call of method m.
Call(m) == ran' = ran \cup {<<DynType, m>>}

Init ==
  /\ phase = "none"
  /\ dev = NULL
  /\ ran = {}

\* new CModelCmdbuf18xx(): the CModelCmdbuf part is constructed first.
ConstructBase ==
  /\ phase = "none"
  /\ phase' = "base_ctor"
  /\ UNCHANGED <<dev, ran>>

\* ... then the body of CModelCmdbuf180x() / CModelCmdbuf183x().
ConstructDerived ==
  /\ phase = "base_ctor"
  /\ phase' = "live"
  /\ UNCHANGED <<dev, ran>>

\* rt_device_open(index, &dev): the device is opened, or an error is
\* returned and dev is left NULL.
RtDeviceOpen(index) ==
  /\ phase = "live"
  /\ dev = NULL
  /\ dev' \in {index, NULL}
  /\ Call("rt_device_open")
  /\ UNCHANGED phase

\* A submission of a command buffer on the opened device: the base class
\* calls the protected enable_interrupt and set_eod hooks on it.
Submit ==
  /\ phase = "live"
  /\ dev # NULL
  /\ ran' = ran \cup {<<DynType, "enable_interrupt">>, <<DynType, "set_eod">>}
  /\ UNCHANGED <<phase, dev>>

\* delete through the base pointer: ~CModelCmdbuf18xx() runs first ...
DestroyDerived ==
  /\ phase = "live"
  /\ phase' = "base_dtor"
  /\ UNCHANGED <<dev, ran>>

\* ... then ~CModelCmdbuf().
DestroyBase ==
  /\ phase = "base_dtor"
  /\ phase' = "gone"
  /\ UNCHANGED <<dev, ran>>

Next ==
  \/ ConstructBase
  \/ ConstructDerived
  \/ \E i \in {0} : RtDeviceOpen(i)
  \/ Submit
  \/ DestroyDerived
  \/ DestroyBase

Spec == Init /\ [][Next]_vars

-----------------------------------------------------------------------------
(***************************************************************************)
(* Type invariant.                                                         *)
(***************************************************************************)
TypeOK ==
  /\ phase \in {"none", "base_ctor", "live", "base_dtor", "gone"}
  /\ ran \subseteq ((Variants \cup {Base}) \X Overrides)

=============================================================================
