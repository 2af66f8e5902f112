\* A VCPU of a VMX guest or of a TD, and injection.  Two vectors; the VM's APICv
\* inhibition changes once.  Deliveries and IRETs meet EPT violations and intercepted
\* exceptions; a triple fault stops the VCPU.
SPECIFICATION VcpuSpec
CONSTANTS
    Vectors = {1, 2}
    MaxPosts = 2
    MaxToggles = 1
    Vnmi = TRUE
    Faults = {"GP", "PF"}
    IretExits = {"ept", "exception"}
    MaxNmis = 3
    MaxIrqs = 1
    MaxExits = 3
INVARIANTS
    InterruptsKept
    NoLostWakeup
    NmisDoNotNest
PROPERTIES
    NothingForgotten
\* A VCPU sleeps for good once the deliveries are used up; a triple fault stops it.
CHECK_DEADLOCK FALSE
