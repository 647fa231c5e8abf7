\* Two extra keys, two copies of a block, prompts of up to three blocks.
SPECIFICATION Spec
CONSTANTS
    Contents = {t1, t2}
    Extras = {base, lora}
    MaxDepth = 3
    Capacity = 3
    MaxCopies = 2
    None = None
SYMMETRY Symmetry
INVARIANTS
    IndexHasItsBlock
    CatalogIsOnGpu
    PrefixIsCached
    PrefixIsExact
