------------------------------- MODULE Kernel -------------------------------
(***************************************************************************)
(* The start-up, and then any kernel code, which calls the C library and   *)
(* whose keys pass through the keymap.                                     *)
(***************************************************************************)
EXTENDS Startup, Library

CONSTANT
  LibraryStarts    \* bound: the loaders and firmwares after which the library
                   \*   is used, before the devices are (its functions have no
                   \*   state that anything before them could change)

ASSUME KernelAssumption == LibraryStarts \subseteq Loaders \X Firmwares

kernelVars == <<startupVars, call>>

KernelInit == StartupInit /\ LibraryInit

(* Any kernel code may use the library.                                    *)
UseLibrary ==
  /\ stage = "running"
  /\ <<loader, firmware>> \in LibraryStarts
  /\ Len(registered) = 1 /\ result.call = "register" /\ result.returns = 0
  /\ LibraryNext
  /\ UNCHANGED startupVars

KernelNext ==
  \/ UseLibrary
  \/ call = Idle /\ StartupNext /\ UNCHANGED call

(* As in StartupSpec, nobody else runs while the kernel starts.            *)
KernelSpec == KernelInit /\ [][KernelNext]_kernelVars /\ WF_startupVars(Boot)
=============================================================================
