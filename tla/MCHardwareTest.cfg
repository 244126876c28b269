SPECIFICATION Spec
CONSTANTS
    Recipes = {recipe}
    Displays = {display}
    Nobody = Nobody
    MaxForeign = 1
    MaxReboots = 1
    recipe = recipe
    display = display

    
    
PROPERTIES
    LockIsFreed
CHECK_DEADLOCK FALSE
