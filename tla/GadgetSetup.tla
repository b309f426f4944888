---------------------------- MODULE GadgetSetup ----------------------------
(***************************************************************************)
(* The USB gadget's set-up in configfs (hardware/usb/gadget.rs).  configfs  *)
(* outlives the process: a set-up starts from whatever an earlier one left, *)
(* perhaps for other devices, perhaps cut off half way.  Its file writes    *)
(* happen one item at a time; any of them may fail, which ends the set-up.  *)
(***************************************************************************)
EXTENDS Naturals, Sequences, FiniteSets, SequencesExt

CONSTANTS
  DeviceConfigs,    \* sets of enabled devices that builds of the program use
  MaxGadgetFaults,  \* bound on failing writes
  MaxSetups         \* bound on starts of the process

\* The functions, as they are ordered in config_map (orders 1000, 1001, 1002 and 3000).
FunctionOrder == <<"keyboard", "absolute_mouse", "relative_mouse", "mass_storage_base">>
GadgetFunctions == Range(FunctionOrder)

ASSUME GadgetAssumption ==
  /\ MaxGadgetFaults \in Nat /\ MaxSetups \in Nat
  /\ \A devs \in DeviceConfigs : devs \subseteq GadgetFunctions

VARIABLES
  udcOwner,   \* the gadget that the UDC file of configfs binds: none, ours or other
  links,      \* symlinks of configs/c.1, in the order in which they were made
  written,    \* items whose attributes this set-up has written
  lunOpen,    \* a medium is attached to lun.0
  enabled,    \* enabled_devices of this process
  boundFor,   \* enabled_devices of the set-up that bound the gadget
  todo,       \* items still to write
  gadgetPc, gadgetFaults, setups

gadgetVars == <<udcOwner, links, written, lunOpen, enabled, boundFor, todo, gadgetPc, gadgetFaults, setups>>

\* config_map sorted by order; items of order <= 1 are written before the others and again.
Items == <<"base", "base_info", "config_c1">> \o FunctionOrder \o <<"mass_storage_lun0">>
WriteOrder == SubSeq(Items, 1, 2) \o Items

ItemEnabled(item) ==
  \/ item \in {"base", "base_info", "config_c1"}
  \/ item \in enabled
  \/ item = "mass_storage_lun0" /\ "mass_storage_base" \in enabled

\* The links a build's devices call for, in the order of config_map.
LinkOrder(devs) ==
  LET One(f) == IF f \in devs THEN <<f>> ELSE << >>
  IN  One("keyboard") \o One("absolute_mouse") \o One("relative_mouse") \o One("mass_storage_base")

\* A directory has a name at most once.
Without(s, f) ==
  IF \E i \in 1..Len(s) : s[i] = f THEN RemoveAt(s, CHOOSE i \in 1..Len(s) : s[i] = f) ELSE s

GadgetTypeOK ==
  /\ udcOwner \in {"none", "ours", "other"}
  /\ Range(links) \subseteq GadgetFunctions /\ IsInjective(links)
  /\ written \subseteq Range(Items)
  /\ gadgetPc \in {"off", "start", "items", "reorder", "bind", "bound", "failed"}

GadgetInit ==
  /\ udcOwner \in {"none", "other"} /\ links = << >> /\ written = {} /\ lunOpen = FALSE
  /\ enabled = {} /\ boundFor = {} /\ todo = << >>
  /\ gadgetPc = "off" /\ gadgetFaults = 0 /\ setups = 0

\* init_usb constructs the gadget for the devices of this build.
StartProcess(devs) ==
  /\ gadgetPc = "off" /\ setups < MaxSetups
  /\ setups' = setups + 1 /\ enabled' = devs /\ written' = {}
  /\ gadgetPc' = "start"
  /\ UNCHANGED <<udcOwner, links, lunOpen, boundFor, todo, gadgetFaults>>

\* The error ends init; the dropped UsbGadget unbinds.
SetupFails ==
  /\ gadgetPc' = "failed"
  /\ udcOwner' = IF udcOwner = "ours" THEN "none" ELSE udcOwner

GadgetFault == gadgetFaults < MaxGadgetFaults /\ gadgetFaults' = gadgetFaults + 1 /\ SetupFails

\* Mutant: a gadget that an earlier process left bound is not unbound first.
BeginStillBound ==
  /\ gadgetPc = "start" /\ todo' = WriteOrder /\ gadgetPc' = "items"
  /\ UNCHANGED <<udcOwner, links, written, lunOpen, enabled, boundFor, gadgetFaults, setups>>

\* force_unbind_conflicting_gadgets, mount_configfs, the directory, and our own unbind.
BeginSetup ==
  /\ gadgetPc = "start"
  /\ \/ /\ udcOwner' = "none" /\ todo' = WriteOrder /\ gadgetPc' = "items"
        /\ UNCHANGED gadgetFaults
     \/ GadgetFault /\ UNCHANGED todo
  /\ UNCHANGED <<links, written, lunOpen, enabled, boundFor, setups>>

\* The kernel refuses to change lun.0/cdrom and lun.0/ro while a medium is attached, and
\* the attributes are written in a HashMap's order: "file" may come too late.
LunRefuses(item) == item = "mass_storage_lun0" /\ ItemEnabled(item) /\ lunOpen

\* disable_gadget_item_config, or write_gadget_item_config: the link goes, the attributes are
\* written, the link comes back at the end.
WriteItem ==
  /\ gadgetPc = "items" /\ todo # << >>
  /\ LET item == Head(todo) IN
     \/ /\ links' = IF item \in enabled THEN Append(Without(links, item), item) ELSE Without(links, item)
        /\ written' = IF ItemEnabled(item) THEN written \cup {item} ELSE written
        /\ lunOpen' = IF item = "mass_storage_lun0" /\ ItemEnabled(item) THEN FALSE ELSE lunOpen
        /\ todo' = Tail(todo)
        /\ gadgetPc' = IF todo' = << >> THEN "reorder" ELSE "items"
        /\ UNCHANGED <<udcOwner, gadgetFaults>>
     \/ LunRefuses(item) /\ SetupFails /\ UNCHANGED <<links, written, lunOpen, todo, gadgetFaults>>
     \/ GadgetFault /\ links' \in {links, Without(links, item)} /\ UNCHANGED <<written, lunOpen, todo>>
  /\ UNCHANGED <<enabled, boundFor, setups>>

\* reorder_config_symlinks removes every link and makes the expected ones in order.
Reorder ==
  /\ gadgetPc = "reorder"
  /\ \/ links' = LinkOrder(enabled) /\ gadgetPc' = "bind" /\ UNCHANGED <<udcOwner, gadgetFaults>>
     \/ GadgetFault /\ \E n \in 0..Len(LinkOrder(enabled)) : links' = SubSeq(LinkOrder(enabled), 1, n)
  /\ UNCHANGED <<written, lunOpen, enabled, boundFor, todo, setups>>

\* write_udc: another gadget that took the UDC meanwhile is unbound first.
Bind ==
  /\ gadgetPc = "bind"
  /\ \/ udcOwner' = "ours" /\ boundFor' = enabled /\ gadgetPc' = "bound" /\ UNCHANGED gadgetFaults
     \/ GadgetFault /\ UNCHANGED boundFor
  /\ UNCHANGED <<links, written, lunOpen, enabled, todo, setups>>

\* Another program binds its gadget while ours is unbound.
OtherBinds ==
  /\ udcOwner = "none" /\ gadgetPc \in {"items", "reorder", "bind", "off"}
  /\ udcOwner' = "other"
  /\ UNCHANGED <<links, written, lunOpen, enabled, boundFor, todo, gadgetPc, gadgetFaults, setups>>

\* A mount attaches a medium (VirtualMedia).
AttachMedium ==
  /\ gadgetPc = "bound" /\ "mass_storage_base" \in enabled /\ ~lunOpen
  /\ lunOpen' = TRUE
  /\ UNCHANGED <<udcOwner, links, written, enabled, boundFor, todo, gadgetPc, gadgetFaults, setups>>

\* The process dies at any point; configfs stays as it is.
ProcessDies ==
  /\ gadgetPc # "off" /\ gadgetPc' = "off"
  /\ todo' = << >>
  /\ UNCHANGED <<udcOwner, links, written, lunOpen, enabled, boundFor, gadgetFaults, setups>>

GadgetNext ==
  \/ \E devs \in DeviceConfigs : StartProcess(devs)
  \/ BeginSetup \/ WriteItem \/ Reorder \/ Bind \/ OtherBinds \/ AttachMedium \/ ProcessDies

\* Whenever the host sees our gadget, it sees all of it and nothing else: the functions of the
\* set-up that bound it, in the fixed order (Windows and firmware number interfaces by it), with
\* every attribute written, whatever earlier set-ups of other builds left half done.
HostSeesWholeGadget ==
  udcOwner = "ours" =>
    /\ gadgetPc \notin {"items", "reorder", "bind"}
    /\ links = LinkOrder(boundFor)

\* A set-up that no write failed in ends bound, with every enabled item written in this process,
\* also when another program took the UDC meanwhile; only a medium that was still attached can
\* make it fail otherwise.
CleanSetupBinds ==
  /\ (gadgetPc = "failed" /\ gadgetFaults = 0) => lunOpen
  /\ gadgetPc = "bound" => udcOwner = "ours" /\ \A item \in Range(Items) : ItemEnabled(item) => item \in written

\* The gadget as the host sees it, and what a set-up without failures achieves.
GadgetInv == GadgetTypeOK /\ HostSeesWholeGadget /\ CleanSetupBinds

=============================================================================
