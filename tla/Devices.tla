------------------------------ MODULE Devices ------------------------------
(***************************************************************************)
(* The table of character devices, kernel/device/device.c.                 *)
(*                                                                         *)
(* An entry is allocated, name and chrdev_fns, in memory the name, a byte  *)
(* of padding and the pointer to the functions.  Names are strings of the  *)
(* module LibC, whose strlen returns one more than the length.             *)
(***************************************************************************)
EXTENDS LibC

CONSTANTS
  DEVICE_MAX, DEVICE_MAXPATH,   \* 10, 255
  Names,                        \* of devices, as strings in memory
  Drivers                       \* operations: which of read and write they have

ASSUME DeviceAssumption ==
  /\ DEVICE_MAX \in Nat \ {0} /\ DEVICE_MAXPATH \in Nat \ {0}
  /\ DEVICE_MAX <= DEVICE_MAXPATH + 2
  /\ Names \subseteq Seq(Nat)
  /\ \A name \in Names : strlen(name) \in 1 .. DEVICE_MAXPATH + 5
       \* a bound: a longer name reaches into the next entry
  /\ \A driver \in Drivers : driver.read \in BOOLEAN /\ driver.write \in BOOLEAN

Majors == 0 .. DEVICE_MAX - 1
Unset == [id |-> "none", read |-> FALSE, write |-> FALSE]
Damaged == [id |-> "damaged", read |-> TRUE, write |-> TRUE]
Unused == [allocated |-> FALSE, name |-> [k \in 1 .. DEVICE_MAXPATH |-> NUL],
           fns |-> Unset]

VARIABLES
  char_devices,
  chrdev_list_base,   \* the first node of a list that nothing else uses
  result,             \* of the last call: what was called, and what it returned
  registered          \* history: the registrations that succeeded

deviceVars == <<char_devices, chrdev_list_base, result, registered>>

DeviceInit ==
  /\ char_devices = [m \in Majors |-> Unused]
  /\ chrdev_list_base = "unset"
  /\ result = [call |-> "none"]
  /\ registered = <<>>

(* Mutant: the table is cleared as well.                                   *)
device_list_initClears ==
  /\ char_devices' = [m \in Majors |-> Unused]
  /\ chrdev_list_base' = "empty"
  /\ UNCHANGED <<result, registered>>

device_list_init ==
  /\ chrdev_list_base' = "empty"
  /\ UNCHANGED <<char_devices, result, registered>>

-----------------------------------------------------------------------------
(* `bytes' bytes of the name are written to the entry: what the array does *)
(* not hold goes into the padding and then over the pointer.               *)
Named(entry, name, bytes) ==
  [entry EXCEPT !.name = strncpy(@, name, bytes),
                !.fns = IF bytes > DEVICE_MAXPATH + 1 THEN Damaged ELSE @]

AutoBytes(name) ==
  IF strlen(name) > DEVICE_MAXPATH THEN strlen(name) ELSE DEVICE_MAXPATH
GivenBytes(name) ==
  IF strlen(name) < DEVICE_MAXPATH THEN strlen(name) ELSE DEVICE_MAX - 1

Succeeds(m, name, ops) ==
  /\ registered' = Append(registered, [major |-> m, name |-> name, ops |-> ops])
  /\ result' = [call |-> "register", returns |-> m]
  /\ UNCHANGED chrdev_list_base

Fill(m, name, ops, bytes) ==
  /\ char_devices' =
       [char_devices EXCEPT ![m] =
          Named([@ EXCEPT !.allocated = TRUE, !.fns = ops], name, bytes)]
  /\ Succeeds(m, name, ops)

Refused(call, errno) ==
  /\ result' = [call |-> call, returns |-> -1, errno |-> errno]
  /\ UNCHANGED <<char_devices, chrdev_list_base, registered>>

(* register_chrdev with major 0: the first entry that is not allocated.    *)
RegisterAny(name, ops) ==
  LET free == {m \in Majors : ~char_devices[m].allocated}
  IN IF free = {} THEN Refused("register", "EMFILE")
     ELSE Fill(CHOOSE m \in free : \A k \in free : m <= k, name, ops, AutoBytes(name))

(* Mutant: an entry may be taken twice.                                    *)
RegisterGivenAgain(major, name, ops) ==
  IF major \in Majors
  THEN Fill(major, name, ops, GivenBytes(name))
  ELSE Refused("register", "ERANGE")

(* With a positive major, which is not compared with DEVICE_MAX: behind    *)
(* the table, whatever is there counts as an entry.                        *)
RegisterGiven(major, name, ops) ==
  IF major \in Majors /\ ~char_devices[major].allocated
  THEN Fill(major, name, ops, GivenBytes(name))
  ELSE \/ Refused("register", "ERANGE")
       \/ /\ major >= DEVICE_MAX
          /\ \A r \in DOMAIN registered : registered[r].major # major
          /\ Succeeds(major, name, ops)
          /\ UNCHANGED char_devices

register_chrdev(major, name, ops) ==
  IF major = 0 THEN RegisterAny(name, ops)
  ELSE IF major > 0 THEN RegisterGiven(major, name, ops)
  ELSE Refused("register", "ERANGE")

(* The driver runs; of a damaged pointer, any code.                        *)
Drive(call, major, driver) ==
  /\ result' = [call |-> call, major |-> major, driver |-> driver.id]
  /\ UNCHANGED <<char_devices, chrdev_list_base, registered>>

Transfer(call, major, Has(_)) ==
  LET entry == char_devices[major]
  IN IF major \notin Majors
     THEN Drive(call, major, Damaged) \/ Refused(call, "ENOSYS") \/ Refused(call, "ENODEV")
     ELSE IF entry.allocated /\ Has(entry.fns) THEN Drive(call, major, entry.fns)
     ELSE Refused(call, IF entry.allocated THEN "ENOSYS" ELSE "ENODEV")

chrdev_read(major) == Transfer("read", major, LAMBDA fns : fns.read)
chrdev_write(major) == Transfer("write", major, LAMBDA fns : fns.write)

-----------------------------------------------------------------------------
(* A name that reaches over the padding into the pointer.                  *)
Overlong(name) == strlen(name) > DEVICE_MAXPATH + 1

(* A device that has been registered stays: no two get the same number,    *)
(* later registrations and the initialisation of the device list - which   *)
(* comes after tty0 was registered - leave its entry alone, and reading    *)
(* and writing reach its driver.  Its name is the one it was given, if     *)
(* that is short enough.  (Not when its own name is longer than the entry  *)
(* has room for, nor when its number is one behind the table.)             *)
DevicesKept ==
  /\ \A r, q \in DOMAIN registered :
       registered[r].major = registered[q].major => r = q
  /\ \A r \in DOMAIN registered :
       LET device == registered[r]
           entry == char_devices[device.major]
       IN device.major \in Majors =>
            /\ entry.allocated
            /\ strlen(device.name) < DEVICE_MAXPATH =>
                 StringOf(entry.name) = StringOf(device.name)
            /\ ~Overlong(device.name) =>
                 /\ entry.fns = device.ops
                 /\ "driver" \in DOMAIN result /\ result.major = device.major =>
                      result.driver = device.ops.id
=============================================================================
