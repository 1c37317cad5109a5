---- MODULE MCPortalConnect ----
EXTENDS PortalConnect

CONSTANTS p1, p2

MCAttempts == [p \in Portals |-> IF p = p1 THEN 5 ELSE 1]
================================
