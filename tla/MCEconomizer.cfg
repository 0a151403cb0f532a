\* Two calls, three keys of texts to embed and one to speak, slices of two, LRUs of two and one.
CONSTANTS
    Texts = {"a", "A", "b", "c", "say"}
    Spoken = {"say"}
    Key <- KeyOf
    Calls = {c1, c2}
    Batches <- Lists
    Slice = 2
    Elsewhere = {"A"}
    Capacity <- Sizes
    Circumstances = {{"redis", "restart"}, {"mongo"}, {"provider"}, {"expiry"}, {"others"}, {"reset"}, {"unbatched", "provider"}}
    None = None
SYMMETRY Symmetry
SPECIFICATION Spec
INVARIANTS AnswersTrue CachesTrue LruExact WrittenBack CountsAdd
CHECK_DEADLOCK FALSE
