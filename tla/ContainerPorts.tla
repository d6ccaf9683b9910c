---------------------------- MODULE ContainerPorts ----------------------------
(***************************************************************************)
(* The tcp_ports of a container (src/container_config.rs): a HashMap from  *)
(* the key as written to its TcpPort settings.  ContainerConfig::instantiate *)
(* parses every key as a u16 and collects the pairs into a HashMap keyed   *)
(* by the port, and lithos_check checks the ports of the instantiated      *)
(* config against the sandbox's allow_tcp_ports.  The keys here are         *)
(* literal (replace_vars is ReplaceVars.tla), a TcpPort is reduced to its   *)
(* external flag, and allow_tcp_ports is a list of Range strings.          *)
(*                                                                         *)
(* A HashMap iterates in an order drawn from a random seed per process, so *)
(* instantiate in lithos_check and instantiate in lithos_tree may visit    *)
(* the keys in different orders: the order is a nondeterministic choice.   *)
(***************************************************************************)
EXTENDS SandboxConfig, FiniteSets

CONSTANTS
  PortKeys,      \* the tcp_ports keys a container config may hold
  AllowStrings   \* the Range strings allow_tcp_ports may hold

U16Max == 2^16 - 1

(* utils::in_range (not in this repository): some range holds x.          *)
InRange(ranges, x) == \E r \in ranges : r.start <= x /\ x <= r.end

(* collect() into HashMap<u16, TcpPort>: a later pair overwrites an        *)
(* earlier one with the same port.                                          *)
Collect(ports, order) ==
  FoldLeft(LAMBDA m, k :
             LET p == ParseUnsigned(k, U16Max)
             IN [q \in DOMAIN m \cup {p} |-> IF q = p THEN ports[k] ELSE m[q]],
           [q \in {} |-> FALSE], order)

(* The tcp_ports part of instantiate: a key that does not parse records   *)
(* "Bad port" in errors2 and instantiate returns Err; otherwise one map per *)
(* order in which the HashMap may be visited.                              *)
InstantiatePorts(ports) ==
  IF \E k \in DOMAIN ports : ParseUnsigned(k, U16Max) = NoNum THEN {}
  ELSE {Collect(ports, order) : order \in SetToSeqs(DOMAIN ports)}

(* lithos_check's port loop over icfg.tcp_ports: outside a bridged network *)
(* every port, inside one only an external port, must be in range.         *)
PortsPass(tcp, isBridged, ranges) ==
  \A p \in DOMAIN tcp :
    (~isBridged \/ tcp[p]) => InRange(ranges, p)

Allows == {{RangeDeserialize(s) : s \in A} : A \in SUBSET AllowStrings}
PortMaps == UNION {[K -> BOOLEAN] : K \in SUBSET PortKeys}

=============================================================================
