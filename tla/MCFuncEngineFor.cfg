SPECIFICATION Spec
CONSTANTS
    Programs = {"for"}
    MaxVal = 2
    MaxChanges = 2
INVARIANT NeverFails
