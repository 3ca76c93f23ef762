--------------------------- MODULE SessionLifecycle ---------------------------
(***************************************************************************)
(* The seat and the DRM device as the main loop keeps them: LifecycleState *)
(* (lifecycle.rs), the libseat and signal callbacks of startup.rs, and the *)
(* parts of service_session_lifecycle and recover_stalled_kms_presentation *)
(* (kms_session.rs) that touch nothing else.                               *)
(*                                                                         *)
(* `owned' is the kernel's side: it is lost when libseat revokes the       *)
(* device, because another session may program KMS from then on, and it is *)
(* regained only by a synchronous commit or reset of this session.         *)
(***************************************************************************)
VARIABLES
    seat_active,      \* LifecycleState::seat_active
    pause_pending,    \* LifecycleState::pause_pending
    shutdown,         \* LifecycleState::shutdown is Some
    drm_active,       \* DrmDevice::is_active
    owned             \* KMS still holds what this session committed last

lifecycleVars == <<seat_active, pause_pending, shutdown, drm_active, owned>>

LifecycleTypeOK ==
    /\ seat_active \in BOOLEAN /\ pause_pending \in BOOLEAN /\ shutdown \in BOOLEAN
    /\ drm_active \in BOOLEAN /\ owned \in BOOLEAN

LifecycleInit ==
    /\ seat_active = TRUE /\ pause_pending = FALSE /\ shutdown = FALSE
    /\ drm_active = TRUE /\ owned = TRUE

-----------------------------------------------------------------------------
(* Callbacks of one calloop dispatch.                                      *)

\* SessionEvent::PauseSession: the edge is kept for the next service.
PauseSession ==
    /\ seat_active
    /\ seat_active' = FALSE
    /\ pause_pending' = TRUE
    /\ owned' = FALSE
    /\ UNCHANGED <<shutdown, drm_active>>

\* Mutant: an activation in the same dispatch cancels the pause edge.
ActivateSession_ForgetsPause ==
    /\ ~seat_active
    /\ seat_active' = TRUE
    /\ pause_pending' = FALSE
    /\ UNCHANGED <<shutdown, drm_active, owned>>

\* SessionEvent::ActivateSession.
ActivateSession ==
    /\ ~seat_active
    /\ seat_active' = TRUE
    /\ UNCHANGED <<pause_pending, shutdown, drm_active, owned>>

\* SIGINT, SIGTERM or the escape shortcut; only the first one counts.
RequestShutdown ==
    /\ ~shutdown
    /\ shutdown' = TRUE
    /\ UNCHANGED <<seat_active, pause_pending, drm_active, owned>>

-----------------------------------------------------------------------------
(* What the main loop does with it.                                        *)

\* take_pause_pending and DrmDevice::pause.
TakePause ==
    /\ pause_pending
    /\ pause_pending' = FALSE
    /\ drm_active' = FALSE
    /\ UNCHANGED <<seat_active, shutdown, owned>>

\* The service loop sleeps until libseat or a signal ends the pause.
MustWait == ~pause_pending /\ ~seat_active /\ ~shutdown

\* The service loop is left with a device that has to be activated.
MustResume == ~pause_pending /\ seat_active /\ ~shutdown /\ ~drm_active

\* DrmDevice::activate followed by commits that establish a baseline.
Regain ==
    /\ drm_active' = TRUE
    /\ owned' = TRUE
    /\ UNCHANGED <<seat_active, pause_pending, shutdown>>

\* DrmDevice::activate succeeds or not, and the baseline is not established.
ResumeFails ==
    /\ drm_active' \in BOOLEAN
    /\ UNCHANGED <<seat_active, pause_pending, shutdown, owned>>

=============================================================================
