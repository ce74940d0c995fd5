SPECIFICATION Spec
CHECK_DEADLOCK FALSE
CONSTANTS
    null = null
    absent = absent
    noId = noId
    delimiter = delimiter
    editor = editor
    moderator = moderator
    trusted = trusted
    Null = null
    Absent = absent
    NoId = noId
    Delimiter = delimiter
    MaxInt = 8
    Texts <- MCTexts
    Systems = {"ps", "wii"}
    Media = {"cd", "dvd"}
    MediaOf <- MCMediaOf
    Has <- MCHas
    Layers <- MCLayers
    IsCd <- MCIsCd
    AllowsMastering <- MCAllowsMastering
    Clients = {editor, trusted, moderator}
    RoleOf <- MCRoleOf
    SubIds = {1, 2}
    InitContents <- MCInitContents
    Typed = {}
    TypedRings = {}
    AddForms = {}
    MaxRings = 3
    MaxFills = 2
INVARIANTS StalePageIsRefreshed
