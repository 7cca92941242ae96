------------------------------ MODULE Devices ------------------------------
(***************************************************************************)
(* The devices of one user (api/subscription.rs, api/admin.rs): a limited  *)
(* number may be active, a device may be revoked, deleted or registered    *)
(* again, and it beats as long as it is in use.                            *)
(***************************************************************************)
EXTENDS Integers, FiniteSets

CONSTANTS
    Fingerprints,   \* the devices that may be registered
    Registrations,  \* calls of register_device under way at once
    DeviceLimit,    \* max_devices of the subscription, 1 without one
    MaxUncounted    \* bound: registrations over the limit that a failed query lets pass

ASSUME DeviceAssumption ==
    /\ DeviceLimit \in Nat /\ MaxUncounted \in Nat
    /\ IsFiniteSet(Fingerprints) /\ IsFiniteSet(Registrations) /\ Registrations # {}

VARIABLES
    known,          \* fingerprints with a row
    isActive,       \* rows with is_active set
    revokedAt,      \* rows with revoked_at set
    silent,         \* rows without a heartbeat for 30 days
    registering,    \* what each registration is about to do
    wanted,         \* the fingerprint it is about
    failedCounts    \* registrations over the limit that a failed query let pass

deviceVars == <<known, isActive, revokedAt, silent, registering, wanted, failedCounts>>

NoDevice == "none"

DeviceInit ==
    /\ known = {}
    /\ isActive = {}
    /\ revokedAt = {}
    /\ silent = {}
    /\ registering = [r \in Registrations |-> "idle"]
    /\ wanted = [r \in Registrations |-> NoDevice]
    /\ failedCounts = 0

Counted == isActive \ revokedAt

Goes(r, what) ==
    /\ registering' = [registering EXCEPT ![r] = what]
    /\ UNCHANGED wanted

Answer(r) ==
    /\ registering' = [registering EXCEPT ![r] = "idle"]
    /\ wanted' = [wanted EXCEPT ![r] = NoDevice]

-----------------------------------------------------------------------------
(* register_device *)

\* Active devices that have been silent for long are revoked; an error of that
\* UPDATE is ignored.
RevokeSilent(r, d) ==
    /\ registering[r] = "idle"
    /\ registering' = [registering EXCEPT ![r] = "count"]
    /\ wanted' = [wanted EXCEPT ![r] = d]
    /\ \/ /\ isActive' = isActive \ (Counted \cap silent)
          /\ revokedAt' = revokedAt \cup (Counted \cap silent)
       \/ UNCHANGED <<isActive, revokedAt>>
    /\ UNCHANGED <<known, silent, failedCounts>>

\* The count and the limit are two queries: a count that fails is taken for 0, a
\* limit for 1.
CountDevices(r) ==
    /\ registering[r] = "count"
    /\ \E count \in {Cardinality(Counted), 0}, limit \in {DeviceLimit, 1} :
          \/ count >= limit /\ Answer(r) /\ UNCHANGED failedCounts
          \/ /\ count < limit
             /\ Goes(r, "insert")
             /\ \/ Cardinality(Counted) < DeviceLimit /\ UNCHANGED failedCounts
                \/ /\ Cardinality(Counted) >= DeviceLimit
                   /\ failedCounts < MaxUncounted
                   /\ failedCounts' = failedCounts + 1
    /\ UNCHANGED <<known, isActive, revokedAt, silent>>

\* The row is inserted, or set active again; revoked_at stays as it is.
UpsertDevice(r) ==
    /\ registering[r] = "insert"
    /\ Answer(r)
    /\ \/ /\ known' = known \cup {wanted[r]}
          /\ isActive' = isActive \cup {wanted[r]}
          /\ silent' = silent \ {wanted[r]}
       \/ UNCHANGED <<known, isActive, silent>>
    /\ UNCHANGED <<revokedAt, failedCounts>>

-----------------------------------------------------------------------------
\* device_heartbeat; it sets is_active, but not for a revoked device.
Heartbeat(d) ==
    /\ d \in known \ revokedAt
    /\ isActive' = isActive \cup {d}
    /\ silent' = silent \ {d}
    /\ UNCHANGED <<known, revokedAt, registering, wanted, failedCounts>>

\* Mutant: a revoked device is only not active any more.
DeactivateDevice(d) ==
    /\ d \in known
    /\ isActive' = isActive \ {d}
    /\ UNCHANGED <<known, revokedAt, silent, registering, wanted, failedCounts>>

\* revoke_device, by the user and by an administrator.
RevokeDevice(d) ==
    /\ d \in known
    /\ isActive' = isActive \ {d}
    /\ revokedAt' = revokedAt \cup {d}
    /\ UNCHANGED <<known, silent, registering, wanted, failedCounts>>

\* delete_device.
DeleteDevice(d) ==
    /\ d \in known
    /\ known' = known \ {d}
    /\ isActive' = isActive \ {d}
    /\ revokedAt' = revokedAt \ {d}
    /\ silent' = silent \ {d}
    /\ UNCHANGED <<registering, wanted, failedCounts>>

\* Thirty days go by without a heartbeat.
FallSilent(d) ==
    /\ d \in known \ silent
    /\ silent' = silent \cup {d}
    /\ UNCHANGED <<known, isActive, revokedAt, registering, wanted, failedCounts>>

DeviceNext ==
    \/ \E r \in Registrations : CountDevices(r) \/ UpsertDevice(r)
    \/ \E r \in Registrations, d \in Fingerprints : RevokeSilent(r, d)
    \/ \E d \in Fingerprints :
          Heartbeat(d) \/ RevokeDevice(d) \/ DeleteDevice(d) \/ FallSilent(d)

DeviceSpec == DeviceInit /\ [][DeviceNext]_deviceVars

-----------------------------------------------------------------------------
DeviceTypeOK ==
    /\ known \in SUBSET Fingerprints
    /\ isActive \in SUBSET known
    /\ revokedAt \in SUBSET known
    /\ silent \in SUBSET known
    /\ registering \in [Registrations -> {"idle", "count", "insert"}]
    /\ wanted \in [Registrations -> Fingerprints \cup {NoDevice}]
    /\ \A r \in Registrations : registering[r] # "idle" => wanted[r] \in Fingerprints
    /\ failedCounts \in Nat

\* A device that is not active is revoked: no heartbeat makes a device active
\* that the count of its user has already given to another one.
DeviceInv ==
    /\ DeviceTypeOK
    /\ known \ isActive \subseteq revokedAt

DeviceLimits == INSTANCE CheckThenInsert
    WITH Requests <- Registrations, Limit <- DeviceLimit,
         used <- Cardinality(Counted),
         passed <- {r \in Registrations : registering[r] = "insert"},
         uncounted <- failedCounts

\* Active devices exceed max_devices by the other registrations under way at
\* most and by those that a failed query let pass, also with heartbeats, revocations, deletions
\* and registrations of known devices: the device limit is a CheckThenInsert
\* limit.
DevicesLimited == DeviceLimits!LimitSpec
=============================================================================
