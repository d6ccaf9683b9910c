------------------------------ MODULE ChildValues ------------------------------
(***************************************************************************)
(* What check() of lithos_check (src/bin/lithos_check.rs) does with the    *)
(* values of one child that LithosCheck.tla reduces to pass or fail: the   *)
(* image path, checked with check_path and then joined to image_dir, and   *)
(* the tcp_ports of the container, instantiated and checked against        *)
(* allow_tcp_ports.  The process that starts the container (lithos_knot,  *)
(* not part of this repository) calls the same instantiate on the same    *)
(* config; that instantiation is the last step.                           *)
(***************************************************************************)
EXTENDS ContainerPorts

VARIABLES
  image,     \* child_cfg.image
  levels,    \* sandbox.image_dir_levels
  opened,    \* the directory image_dir.join(image) leads to, or <<>>
  ports,     \* the container's tcp_ports: key -> external
  bridged,   \* sandbox.bridged_network is Some
  allow,     \* sandbox.allow_tcp_ports
  icfg,      \* icfg.tcp_ports of lithos_check's instantiate
  running,   \* tcp_ports of the instantiate that starts the container
  status,    \* EXIT_STATUS
  pc

vars == <<image, levels, opened, ports, bridged, allow, icfg, running, status, pc>>

NoPorts == [q \in {} |-> FALSE]

Init ==
  /\ image \in Paths /\ levels \in Levels /\ opened = <<>>
  /\ ports \in PortMaps /\ bridged \in BOOLEAN /\ allow \in Allows
  /\ icfg = NoPorts /\ running = NoPorts
  /\ status = 0 /\ pc = "image"

(* if !sandbox.check_path(&child_cfg.image) { err!; continue }, then      *)
(* check_container(&sandbox.image_dir.join(&child_cfg.image)...).         *)
CheckImage ==
  /\ pc = "image"
  /\ IF CheckPath(image, levels)
       THEN opened' = ImagePath(image) /\ pc' = "inst" /\ UNCHANGED status
       ELSE status' = 1 /\ pc' = "done" /\ UNCHANGED opened
  /\ UNCHANGED <<image, levels, ports, bridged, allow, icfg, running>>

(* config.instantiate(...): Err is reported and the instance skipped.     *)
Instantiate ==
  /\ pc = "inst"
  /\ IF InstantiatePorts(ports) = {}
       THEN status' = 1 /\ pc' = "done" /\ UNCHANGED icfg
       ELSE \E m \in InstantiatePorts(ports) :
              icfg' = m /\ pc' = "ports" /\ UNCHANGED status
  /\ UNCHANGED <<image, levels, opened, ports, bridged, allow, running>>

(* for (port, pinfo) in icfg.tcp_ports: a port outside allow_tcp_ports    *)
(* (all ports, or only external ones on a bridged network) is an error.   *)
CheckPorts ==
  /\ pc = "ports"
  /\ status' = IF PortsPass(icfg, bridged, allow) THEN status ELSE 1
  /\ pc' = "checked"
  /\ UNCHANGED <<image, levels, opened, ports, bridged, allow, icfg, running>>

(* The child is started: instantiate runs again on the same config, in a  *)
(* process with its own HashMap seed.                                      *)
StartChild ==
  /\ pc = "checked"
  /\ \E m \in InstantiatePorts(ports) : running' = m
  /\ pc' = "done"
  /\ UNCHANGED <<image, levels, opened, ports, bridged, allow, icfg, status>>

Next == CheckImage \/ Instantiate \/ CheckPorts \/ StartChild

Spec == Init /\ [][Next]_vars

(* An image that check_path accepts opens a directory exactly             *)
(* image_dir_levels below image_dir (lithos_check.rs:270-277): no ".."   *)
(* climbs out, no absolute image replaces image_dir, and "." or doubled   *)
(* slashes neither add nor hide a level.                                   *)
CheckPathConfined ==
  opened # <<>> =>
    /\ IsPrefix(ImageDir, opened)
    /\ Len(opened) = Len(ImageDir) + levels

(* What lithos_check accepts is what runs: when the ports of its          *)
(* instantiation pass the port check, the ports of the instantiation the  *)
(* container is started with pass it too.                                  *)
PortCheckStable ==
  (pc = "done" /\ status = 0) => PortsPass(running, bridged, allow)

=============================================================================
