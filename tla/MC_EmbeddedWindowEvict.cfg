SPECIFICATION Spec
CONSTANTS
    Chat = {c1}
    Window = {w1}
    Hook = {h1}
    Admin = {}
    None = None
    Slots = 2
    Model = {boot, alt}
    Boot = boot
    LoadMayFail = FALSE
INVARIANT WindowClear
