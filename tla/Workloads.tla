------------------------------ MODULE Workloads -----------------------------
(***************************************************************************)
(* The dispatch of orchestrator (handle_command) and imager                *)
(* (handle_image_cmd).  Neither keeps state: the virtual machine that      *)
(* vm.create makes is dropped with its handle, containers and images are   *)
(* stubs, and nothing writes the image catalogue.                          *)
(***************************************************************************)
EXTENDS ControlPlane

OrchestratorRequests ==
    CommonRequests
      \cup {Request(t, p) : t \in {"vm.create", "lxc.create"}, p \in {None, Broken}}

ImagerRequests ==
    CommonRequests
      \cup {Request(t, None) : t \in {"image.list", "image.create_kvm", "image.push"}}

-----------------------------------------------------------------------------
\* A spec that does not decode is refused, and KVM may be unavailable.
CreateVm(c) ==
    /\ Requested(c, "vm.create")
    /\ \/ conn[c].req.arg # Broken /\ Replied(c, "Ok")
       \/ Replied(c, "Error")

CreateContainer(c) ==
    /\ Requested(c, "lxc.create")
    /\ Replied(c, IF conn[c].req.arg = Broken THEN "Error" ELSE "Ok")

ListImages(c) == Requested(c, "image.list") /\ Replied(c, "Data")

\* Stubs that do not even look at the payload.
ImageStub(c) ==
    /\ Requested(c, "image.create_kvm") \/ Requested(c, "image.push")
    /\ Replied(c, "Ok")

OrchestratorControl ==
    \/ ControlStep(OrchestratorRequests)
    \/ \E c \in Conns : CreateVm(c) \/ CreateContainer(c) \/ Shutdown(c)
    \/ AcceptFails
    \/ Start

ImagerControl ==
    \/ ControlStep(ImagerRequests)
    \/ \E c \in Conns : ListImages(c) \/ ImageStub(c) \/ Shutdown(c)
    \/ AcceptFails
    \/ Start

WorkloadsTask(c) ==
    \/ CreateVm(c) \/ CreateContainer(c) \/ ListImages(c) \/ ImageStub(c)
    \/ Shutdown(c) \/ ControlTask(c)
=============================================================================
