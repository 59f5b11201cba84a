----------------------------- MODULE MCSessions -----------------------------
(* Small instances of Sessions: two sign-ins on two devices, or on one.       *)
EXTENDS Sessions, TLC

CONSTANTS d1, d2, l1, l2, h1, h2, e1, c1, s1, s2

\* Logins differ in nothing but their device, which Init leaves open, and neither
\* do the holders of tokens or the devices.
MCSymmetry ==
    Permutations({d1, d2}) \cup Permutations({l1, l2}) \cup Permutations({h1, h2})

=============================================================================
