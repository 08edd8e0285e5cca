CONSTANTS
    editor = editor
    keyring = keyring
    text = text
    image = image
    secret = secret
    Null = Null
    Windows <- TwoWindows
    Titles <- TwoTitles
    AppIds <- OneAppId
    Mimes <- ThreeMimes
    Global <- Globally
    Configured <- Tables
SPECIFICATION Spec
INVARIANTS
    ActiveIsConfigured
    ActiveIsFocused
    StoredIsFiltered
